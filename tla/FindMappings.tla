------------------------------ MODULE FindMappings ------------------------------
(***************************************************************************)
(* What every slave exchanges (ethercatconfig.c: ecx_config_find_mappings, *)
(* the first thing both of the maps of module IoMap do).  For one slave    *)
(* after the other the master reads over CoE which sync managers carry     *)
(* process data and how many bits the objects assigned to them have, with  *)
(* Complete Access if the slave has it and object by object if that finds  *)
(* nothing; if CoE has nothing to say, or there is none, it asks a servo   *)
(* drive over SoE which IDNs its telegrams carry.  A second loop helps the *)
(* slaves without a result out: with the map of an earlier slave of the    *)
(* same kind, or else with the PDOs their EEPROM lists; and it writes the  *)
(* sync managers into the slave.                                           *)
(*                                                                         *)
(* One thread (EC_MAX_MAPT is 1) does this while nothing else runs, so one *)
(* action is one SDO or SoE read and what is made of it.  A read may fail  *)
(* and its answer come later; the next reads then find the answers of      *)
(* those before them, and ecx_SDOread compares the object of an answer but *)
(* not its subindex, ecx_SoEread not the IDN (modules Coe, Soe, Mailbox).  *)
(* The EEPROM is read without trouble, which is the subject of             *)
(* SlaveDiscovery, and no hook is registered.                              *)
(***************************************************************************)
EXTENDS Naturals, Sequences, FiniteSets, FiniteSetsExt

CONSTANTS Lines,     \* slaves in their order: what they exchange and report
          EC_MAXSM,  \* sync managers of a slave (8 in the code)
          Fits,      \* entries of a PDO in the first frame of a transfer with Complete Access
          MaxLoss    \* bound: reads that fail and writes that are lost

SM == 0 .. EC_MAXSM - 1
Entry == 1 .. 6     \* bound: entries of a PDO
EC_SOE_MAX_DRIVES == 8
EC_SOE_MAXMAPPING == 64

\* A device: its kind (eep_man, eep_id, eep_rev); whether it has a mailbox, CoE and
\* Complete Access; the sync managers as ecx_config_init leaves them; the type of
\* the process data of each (3 outputs, 4 inputs, 0 none) and its PDOs, a sequence
\* of bits each; the types it reports in 1C00; the PDOs its EEPROM lists; its SoE drives
\* (none without SoE), each with the IDNs of its MDT and AT, 0 bits for one that is
\* a list.
ASSUME MapAssumption ==
    /\ EC_MAXSM \in Nat /\ EC_MAXSM > 2
    /\ Fits \in Nat /\ MaxLoss \in Nat
    /\ \A line \in Lines : \A i \in DOMAIN line :
         \A sm \in SM : \A p \in DOMAIN line[i].pdos[sm] : DOMAIN line[i].pdos[sm][p] \subseteq Entry
    /\ \A line \in Lines : \A i \in DOMAIN line :
         /\ Len(line[i].drives) <= EC_SOE_MAX_DRIVES
         /\ \A d \in DOMAIN line[i].drives : \A idns \in {line[i].drives[d].mdt, line[i].drives[d].at} :
              Len(idns) <= EC_SOE_MAXMAPPING

Out == 3
In == 4
Unused == 0

VARIABLES line,        \* the devices
          slavelist,   \* what the master knows of each slave
          registers,   \* sync managers as they stand in each slave
          pc,          \* the read or the step that is next
          slave,       \* the slave it is at
          way,         \* "CA" (ecx_readPDOmapCA) or "single" (ecx_readPDOmap)
          nSM, iSM,    \* the loop over the sync managers
          SMt_bug_add,
          Osize, Isize,
          PDOdesc,     \* context->PDOdesc[0]: bits of the PDO read last
          reading,     \* the loops over PDOs and entries, or over drives and IDNs
          behind,      \* answers the slave owes to reads that failed
          mistaken,    \* whether a read took what was not its own for its answer
          lost,        \* reads and writes that failed so far
          failed       \* slaves some of them belonged to

loops == <<pc, slave, way, nSM, iSM, SMt_bug_add, Osize, Isize, PDOdesc, reading>>
mail == <<behind, mistaken, lost, failed>>
vars == <<line, slavelist, registers, loops, mail>>

Slave == DOMAIN line
device == line[slave]
NotWritten == [len |-> 0, on |-> FALSE]
NoReading == [nidx |-> 0, idxloop |-> 0, idx |-> 0, subidx |-> 0, subidxloop |-> 0, size |-> 0]

Init == /\ line \in Lines
        /\ slavelist = [s \in Slave |->
             [SMlength |-> line[s].sm.len, SMtype |-> line[s].sm.type, on |-> line[s].sm.on,
              Obits |-> 0, Ibits |-> 0, Obytes |-> 0, Ibytes |-> 0]]
        /\ registers = [s \in Slave |-> [n \in SM |-> NotWritten]]
        /\ pc = "begin"
        /\ slave = 1
        /\ way = "single"
        /\ nSM = 0 /\ iSM = 2 /\ SMt_bug_add = 0
        /\ Osize = 0 /\ Isize = 0
        /\ PDOdesc = [e \in Entry |-> 0]
        /\ reading = NoReading
        /\ behind = <<>> /\ mistaken = FALSE
        /\ lost = 0 /\ failed = {}

\* n of the reads or writes of the present step come to nothing.
Lose(n) == /\ lost + n <= MaxLoss
           /\ lost' = lost + n
           /\ failed' = IF n > 0 THEN failed \cup {slave} ELSE failed

Bytes(bits) == (bits + 7) \div 8
BitsOf(pdo) == MapThenSumSet(LAMBDA e : pdo[e], DOMAIN pdo)

--------------------------------------------------------------------------------
(* One call of ecx_SDOread or ecx_SoEread.  An answer says what it is compared by: *)
(* the number of the object, or the drive and the element; "abort" compares with   *)
(* nothing.                                                                         *)

ECT_SDO_SMCOMMTYPE == 1
PdoAssign(sm) == 10 + sm
Pdo(sm, p) == 100 * sm + p
Answer(of, value) == [of |-> of, value |-> value]
AbortAnswer == Answer(0, 0)

\* It first takes what is in the mailbox by then ("Empty slave out mailbox if something
\* is in"), and then the first answer that comes, which is its own if none is behind.
\* What does not compare makes it fail.
Flushed == {behind} \cup {Tail(b) : b \in {behind} \ {<<>>}}
Got(own, queue) == [ok |-> own.of # 0 /\ Head(queue).of = own.of, value |-> Head(queue).value,
                    behind |-> Tail(queue), lost |-> 0,
                    mistaken |-> own.of # 0 /\ Head(queue).of = own.of /\ Head(queue) # own]
NotGot(left) == [ok |-> FALSE, value |-> 0, behind |-> left, lost |-> 1, mistaken |-> FALSE]
Exchange(own) == UNION {{Got(own, Append(left, own)), NotGot(left), NotGot(Append(left, own))} : left \in Flushed}

\* A read that failed leaves the 0 its variable was set to.
ValueOf(r) == IF r.ok THEN r.value ELSE 0
Take(r) == Lose(r.lost) /\ behind' = r.behind /\ mistaken' = (mistaken \/ r.mistaken)

--------------------------------------------------------------------------------
(* ecx_map_coe_soe *)

\* The sizes go to the slave, and the loop to the next one, with a mailbox of its own.
StoreSizes(o, i) ==
    /\ slavelist' = [slavelist EXCEPT ![slave].Obits = o, ![slave].Ibits = i]
    /\ slave' = slave + 1
    /\ pc' = "begin"
    /\ behind' = <<>>

\* "if ((!Isize && !Osize) && has SoE)".
AfterCoe(o, i) ==
    IF o = 0 /\ i = 0 /\ device.drives # <<>>
      THEN /\ pc' = "list" /\ reading' = [NoReading EXCEPT !.idxloop = 1] /\ iSM' = 2
           /\ UNCHANGED <<slavelist, slave, behind>>
      ELSE StoreSizes(o, i) /\ UNCHANGED <<reading, iSM>>

BeginSlave ==
    /\ pc = "begin"
    /\ slave \in Slave
    /\ Osize' = 0 /\ Isize' = 0
    /\ IF device.coe
         THEN /\ pc' = "count"
              /\ way' = IF device.ca THEN "CA" ELSE "single"
              /\ UNCHANGED <<slavelist, slave, behind, reading, iSM>>
         ELSE AfterCoe(0, 0) /\ UNCHANGED way
    /\ UNCHANGED <<line, registers, nSM, SMt_bug_add, PDOdesc, mistaken, lost, failed>>

\* A transfer with Complete Access brings a whole object; its answer is too long for
\* those that read a single entry.
WholeOf(of) == Answer(1000 + of, 0)

\* 1C00:00, with Complete Access the whole of 1C00.
ReadCount ==
    LET count == Len(device.types)
    IN /\ pc = "count"
       /\ \E r \in Exchange(IF count = 0 THEN AbortAnswer
                            ELSE IF way = "CA" THEN WholeOf(ECT_SDO_SMCOMMTYPE)
                            ELSE Answer(ECT_SDO_SMCOMMTYPE, count)) :
            LET n == IF way = "CA" /\ r.ok THEN count ELSE ValueOf(r)
            IN Take(r) /\ nSM' = IF n <= 2 THEN 0 ELSE IF n > EC_MAXSM THEN EC_MAXSM ELSE n
       /\ iSM' = 2
       /\ SMt_bug_add' = 0
       /\ Osize' = 0 /\ Isize' = 0
       /\ pc' = "sm"
       /\ UNCHANGED <<line, slavelist, registers, slave, way, PDOdesc, reading>>

\* Mutant: a slave that numbers the types from 0 is not corrected.
BugAddNever(type) == SMt_bug_add

\* "SM2 has type 2 == mailbox out, this is a bug in the slave!"
BugAdd(type) == IF iSM = 2 /\ type = 2 THEN 1 ELSE SMt_bug_add

\* Without Complete Access a missing type of SM2 or SM3 is put right as well.
Corrected(type) ==
    LET t == IF type > 0 THEN type + BugAdd(type) ELSE type
    IN IF way = "single" /\ t = 0 /\ iSM = 2 THEN Out
       ELSE IF way = "single" /\ t = 0 /\ iSM = 3 THEN In
       ELSE t

\* The type is known: "read the assign PDO" if the sync manager has process data.
Typed(type) ==
    LET t == Corrected(type)
    IN /\ SMt_bug_add' = BugAdd(type)
       /\ slavelist' = [slavelist EXCEPT ![slave].SMtype[iSM] = t,
                                         ![slave].on[iSM] = @ /\ t # Unused]
       /\ IF t \in {Out, In} THEN pc' = "assign" /\ UNCHANGED iSM
                             ELSE iSM' = iSM + 1 /\ UNCHANGED pc

\* 1C00:iSM+1; with Complete Access it is there already.
ReadType ==
    /\ pc = "sm"
    /\ iSM < nSM
    /\ IF way = "CA" THEN Typed(device.types[iSM + 1]) /\ UNCHANGED mail
       ELSE \E r \in Exchange(Answer(ECT_SDO_SMCOMMTYPE, device.types[iSM + 1])) :
              /\ Take(r)
              /\ IF r.ok THEN Typed(r.value)
                 ELSE iSM' = iSM + 1 /\ UNCHANGED <<slavelist, SMt_bug_add, pc>>
    /\ UNCHANGED <<line, registers, slave, way, nSM, Osize, Isize, PDOdesc, reading>>

--------------------------------------------------------------------------------
(* ecx_readPDOassign: how many PDOs, and of each its index, how many entries, and   *)
(* every entry.  The work counters of these reads are not looked at.                *)

DoneSM(size) ==
    LET type == slavelist[slave].SMtype[iSM]
    IN /\ slavelist' = [slavelist EXCEPT ![slave].SMlength[iSM] = IF size > 0 THEN Bytes(size) ELSE @]
       /\ Osize' = IF type = Out THEN Osize + size ELSE Osize
       /\ Isize' = IF type = In THEN Isize + size ELSE Isize
       /\ iSM' = iSM + 1
       /\ pc' = "sm"
       /\ reading' = NoReading

\* The PDO is through: to the next one, or the assignment is.
NextPdo(here, next) ==
    IF here.idxloop < here.nidx
      THEN /\ reading' = [here EXCEPT !.idxloop = @ + 1]
           /\ pc' = next
           /\ UNCHANGED <<slavelist, Osize, Isize, iSM>>
      ELSE DoneSM(here.size)

Onward(next, here) == pc' = next /\ reading' = here /\ UNCHANGED <<slavelist, Osize, Isize, iSM>>

ReadAssign ==
    /\ pc = "assign" /\ way = "single"
    /\ \E r \in Exchange(Answer(PdoAssign(iSM), Len(device.pdos[iSM]))) :
         /\ Take(r)
         /\ IF ValueOf(r) = 0 THEN DoneSM(0)
            ELSE Onward("index", [NoReading EXCEPT !.nidx = r.value, !.idxloop = 1])
    /\ UNCHANGED <<line, registers, slave, way, nSM, SMt_bug_add, PDOdesc>>

ReadIndex ==
    /\ pc = "index"
    /\ \E r \in Exchange(IF reading.idxloop \in DOMAIN device.pdos[iSM]
                           THEN Answer(PdoAssign(iSM), Pdo(iSM, reading.idxloop)) ELSE AbortAnswer) :
         /\ Take(r)
         /\ IF ValueOf(r) = 0 THEN NextPdo(reading, "index")
            ELSE Onward("entries", [reading EXCEPT !.idx = r.value])
    /\ UNCHANGED <<line, registers, slave, way, nSM, SMt_bug_add, PDOdesc>>

\* The PDO of the device that has the index, no bits if there is none.
Bits(idx) ==
    LET n == idx \div 100
        p == idx % 100
    IN IF n \in SM /\ p \in DOMAIN device.pdos[n] THEN device.pdos[n][p] ELSE <<>>

ReadEntries ==
    /\ pc = "entries" /\ way = "single"
    /\ \E r \in Exchange(Answer(reading.idx, Len(Bits(reading.idx)))) :
         /\ Take(r)
         /\ IF ValueOf(r) = 0 THEN NextPdo(reading, "index")
            ELSE Onward("entry", [reading EXCEPT !.subidx = r.value, !.subidxloop = 1])
    /\ UNCHANGED <<line, registers, slave, way, nSM, SMt_bug_add, PDOdesc>>

ReadEntry ==
    /\ pc = "entry"
    /\ \E r \in Exchange(IF reading.subidxloop \in DOMAIN Bits(reading.idx)
                           THEN Answer(reading.idx, Bits(reading.idx)[reading.subidxloop]) ELSE AbortAnswer) :
         LET added == [reading EXCEPT !.size = @ + ValueOf(r)]
         IN /\ Take(r)
            /\ IF reading.subidxloop < reading.subidx
                 THEN Onward("entry", [added EXCEPT !.subidxloop = @ + 1])
                 ELSE NextPdo(added, "index")
    /\ UNCHANGED <<line, registers, slave, way, nSM, SMt_bug_add, PDOdesc>>

(* ecx_readPDOassignCA: the indices in one transfer, each PDO in another.  The     *)
(* work counter of the latter is not looked at: what is in the buffer counts.  A   *)
(* transfer with several segments that loses one leaves the number of entries and  *)
(* the first of them new, and the rest as the PDO read before left it.             *)

ReadAssignCA ==
    /\ pc = "assign" /\ way = "CA"
    /\ \E r \in Exchange(WholeOf(PdoAssign(iSM))) :
         /\ Take(r)
         /\ IF ~r.ok \/ device.pdos[iSM] = <<>> THEN DoneSM(0)
            ELSE Onward("entries", [NoReading EXCEPT !.nidx = Len(device.pdos[iSM]), !.idxloop = 1])
    /\ UNCHANGED <<line, registers, slave, way, nSM, SMt_bug_add, PDOdesc>>

\* The first "new" entries of the buffer are those of the PDO, and n counts.
Desc(pdo, new, n) == LET d == [e \in Entry |-> IF e \in DOMAIN pdo /\ e <= new THEN pdo[e] ELSE PDOdesc[e]]
                     IN [desc |-> d, size |-> BitsOf([e \in 1 .. n |-> d[e]])]

\* Mutant: "PDOdesc[Thread_n].n = 0" is missing: a failed read counts the buffer.
CountKept(pdo) == Len(pdo)

\* What the buffer counts when nothing came.
CountOfNone(pdo) == 0

ReadPdoCA ==
    LET pdo == device.pdos[iSM][reading.idxloop]
        Counted(d) == PDOdesc' = d.desc /\ NextPdo([reading EXCEPT !.size = @ + d.size], "entries")
    IN /\ pc = "entries" /\ way = "CA"
       /\ \/ \E r \in Exchange(WholeOf(Pdo(iSM, reading.idxloop))) :
               Take(r) /\ Counted(IF r.ok THEN Desc(pdo, Len(pdo), Len(pdo)) ELSE Desc(pdo, 0, CountOfNone(pdo)))
          \/ /\ Len(pdo) > Fits   \* one of the segments is lost
             /\ <<>> \in Flushed
             /\ Lose(1) /\ mistaken' = TRUE /\ behind' = <<>>
             /\ Counted(Desc(pdo, Fits, Len(pdo)))
       /\ UNCHANGED <<line, registers, slave, way, nSM, SMt_bug_add>>

ReadSM == ReadType \/ ReadAssign \/ ReadIndex \/ ReadEntries \/ ReadEntry \/ ReadAssignCA \/ ReadPdoCA

EndCoe ==
    /\ pc = "sm"
    /\ iSM >= nSM
    /\ IF way = "CA" /\ Osize = 0 /\ Isize = 0
         THEN way' = "single" /\ pc' = "count" /\ UNCHANGED <<slavelist, slave, behind, reading, iSM>>
         ELSE AfterCoe(Osize, Isize) /\ UNCHANGED way
    /\ UNCHANGED <<line, registers, nSM, SMt_bug_add, Osize, Isize, PDOdesc, mistaken, lost, failed>>

--------------------------------------------------------------------------------
(* ecx_readIDNmap: of every drive the list of the IDNs in its MDT (which SM2 will   *)
(* carry) and in its AT (SM3), and the attribute of each.  idxloop is the drive,    *)
(* idx the list that came.                                                          *)

Idns(list) == LET drive == device.drives[reading.idxloop] IN IF list = 2 THEN drive.mdt ELSE drive.at
Element(attribute) == Answer(2000 + 10 * reading.idxloop + attribute, 0)

Added(bits) == /\ Osize' = IF iSM = 2 THEN Osize + bits ELSE Osize
               /\ Isize' = IF iSM = 3 THEN Isize + bits ELSE Isize

\* The AT after the MDT, and then the next drive.
NextList ==
    /\ iSM' = 5 - iSM
    /\ IF iSM = 3 /\ reading.idxloop = Len(device.drives)
         THEN /\ slavelist' = [slavelist EXCEPT ![slave].Obits = Osize', ![slave].Ibits = Isize',
                                 ![slave].SMlength[2] = Bytes(Osize'), ![slave].SMlength[3] = Bytes(Isize')]
              /\ slave' = slave + 1
              /\ pc' = "begin"
              /\ reading' = NoReading
         ELSE /\ reading' = [NoReading EXCEPT !.idxloop = IF iSM = 2 THEN reading.idxloop ELSE reading.idxloop + 1]
              /\ pc' = "list"
              /\ UNCHANGED <<slavelist, slave>>

TakeOf(r) == Lose(r.lost) /\ behind' = (IF slave' = slave THEN r.behind ELSE <<>>) /\ mistaken' = (mistaken \/ r.mistaken)

\* "command word (uint16) is always mapped but not in list", and so is the status word.
ReadList ==
    /\ pc = "list"
    /\ \E r \in Exchange([Element(0) EXCEPT !.value = iSM]) :
         /\ IF r.ok /\ Idns(r.value) # <<>>
              THEN /\ Added(16)
                   /\ reading' = [reading EXCEPT !.idx = r.value, !.subidx = Len(Idns(r.value)), !.subidxloop = 1]
                   /\ pc' = "attribute"
                   /\ UNCHANGED <<slavelist, slave, iSM>>
              ELSE Added(0) /\ NextList
         /\ TakeOf(r)
    /\ UNCHANGED <<line, registers, way, nSM, SMt_bug_add, PDOdesc>>

ReadAttribute ==
    /\ pc = "attribute"
    /\ \E r \in Exchange([Element(1) EXCEPT !.value = Idns(reading.idx)[reading.subidxloop]]) :
         /\ Added(ValueOf(r))
         /\ IF reading.subidxloop < reading.subidx
              THEN /\ reading' = [reading EXCEPT !.subidxloop = @ + 1]
                   /\ UNCHANGED <<slavelist, slave, iSM, pc>>
              ELSE NextList
         /\ TakeOf(r)
    /\ UNCHANGED <<line, registers, way, nSM, SMt_bug_add, PDOdesc>>

ReadIDNmap == ReadList \/ ReadAttribute

EndLoop ==
    /\ pc = "begin"
    /\ slave \notin Slave
    /\ pc' = "sii"
    /\ slave' = 1
    /\ UNCHANGED <<line, slavelist, registers, way, nSM, iSM, SMt_bug_add, Osize, Isize, PDOdesc, reading, mail>>

--------------------------------------------------------------------------------
(* ecx_map_sii *)

\* ecx_lookup_mapping: the first of the slaves before it that is of the same kind.
Twins == {i \in 1 .. slave - 1 : line[i].id = device.id}

Copied(s) ==
    IF Twins = {} THEN s
    ELSE LET from == slavelist[Min(Twins)]
         IN [s EXCEPT !.SMlength = from.SMlength, !.SMtype = from.SMtype,
                      !.Obits = from.Obits, !.Ibits = from.Ibits]

\* ecx_siiPDO: the PDOs of one direction; a PDO that belongs to none of the sync
\* managers is not active.
SMbitsize(pdos, n) == MapThenSumSet(LAMBDA p : BitsOf(pdos[p].bits), {p \in DOMAIN pdos : pdos[p].sm = n})

\* Mutant: a sync manager whose bits do not fill its last byte is a byte short.
FromSiiShort(s, pdos, type, bits) ==
    [s EXCEPT !.SMlength = [n \in SM |-> IF SMbitsize(pdos, n) > 0 THEN SMbitsize(pdos, n) \div 8 ELSE @[n]],
              !.SMtype = [n \in SM |-> IF SMbitsize(pdos, n) > 0 THEN type ELSE @[n]],
              ![bits] = MapThenSumSet(LAMBDA n : SMbitsize(pdos, n), SM)]

FromSii(s, pdos, type, bits) ==
    [s EXCEPT !.SMlength = [n \in SM |-> IF SMbitsize(pdos, n) > 0 THEN Bytes(SMbitsize(pdos, n)) ELSE @[n]],
              !.SMtype = [n \in SM |-> IF SMbitsize(pdos, n) > 0 THEN type ELSE @[n]],
              ![bits] = MapThenSumSet(LAMBDA n : SMbitsize(pdos, n), SM)]

Empty(s) == s.Obits = 0 /\ s.Ibits = 0

MapSii ==
    /\ pc = "sii"
    /\ slave \in Slave
    /\ slavelist' = [slavelist EXCEPT ![slave] =
         LET own == @
             copied == IF Empty(own) THEN Copied(own) ELSE own
         IN IF ~Empty(copied) THEN copied
            ELSE FromSii(FromSii(copied, device.sii.in, In, "Ibits"), device.sii.out, Out, "Obits")]
    /\ pc' = "program"
    /\ UNCHANGED <<line, registers, slave, way, nSM, iSM, SMt_bug_add, Osize, Isize, PDOdesc, reading, mail>>

--------------------------------------------------------------------------------
(* ecx_map_sm *)

\* SM0 and SM1 of a slave with a mailbox were written when it was set up.
Written == {n \in SM : device.sm.start[n] /\ (n < 2 => ~device.mailbox)}

\* "check if SM length is zero -> clear enable flag", and set it otherwise.
Enabled(s, n) == IF n \in Written /\ n >= 2 THEN s.SMlength[n] > 0 ELSE s.on[n]

MapSm ==
    /\ pc = "program"
    /\ LET s == slavelist[slave]
           on == [n \in SM |-> Enabled(s, n)]
       IN /\ slavelist' = [slavelist EXCEPT ![slave].on = on,
               ![slave].Obytes = IF s.Obits > 7 THEN Bytes(s.Obits) ELSE @,
               ![slave].Ibytes = IF s.Ibits > 7 THEN Bytes(s.Ibits) ELSE @]
          /\ \E missed \in SUBSET Written :
               /\ Lose(Cardinality(missed))
               /\ registers' = [registers EXCEPT ![slave] = [n \in SM |->
                    IF n \in Written \ missed THEN [len |-> s.SMlength[n], on |-> on[n]] ELSE @[n]]]
    /\ pc' = "sii"
    /\ slave' = slave + 1
    /\ UNCHANGED <<line, way, nSM, iSM, SMt_bug_add, Osize, Isize, PDOdesc, reading, behind, mistaken>>

Mapped == pc = "sii" /\ slave \notin Slave

\* The map of module IoMap begins.
Done == Mapped /\ UNCHANGED vars

Next == BeginSlave \/ ReadCount \/ ReadSM \/ EndCoe \/ ReadIDNmap \/ EndLoop \/ MapSii \/ MapSm \/ Done

Spec == Init /\ [][Next]_vars

--------------------------------------------------------------------------------
(* What the master then goes by. *)

bitsOf(s, type) == IF type = Out THEN slavelist[s].Obits ELSE slavelist[s].Ibits

\* The process data of a slave and the sync managers that carry it.
TrueBits(s, n) == MapThenSumSet(LAMBDA p : BitsOf(line[s].pdos[n][p]), DOMAIN line[s].pdos[n])
Carriers(s, type) == {n \in SM : line[s].dir[n] = type /\ TrueBits(s, n) > 0}

TypeOK ==
    /\ DOMAIN line = DOMAIN slavelist
    /\ slavelist \in [Slave -> [SMlength : [SM -> Nat], SMtype : [SM -> 0 .. 5], on : [SM -> BOOLEAN],
                                Obits : Nat, Ibits : Nat, Obytes : Nat, Ibytes : Nat]]
    /\ registers \in [Slave -> [SM -> [len : Nat, on : BOOLEAN]]]
    /\ pc \in {"begin", "count", "sm", "assign", "index", "entries", "entry", "list", "attribute", "sii", "program"}
    /\ slave \in 1 .. Len(line) + 1
    /\ way \in {"CA", "single"}
    /\ nSM \in 0 .. EC_MAXSM /\ iSM \in 2 .. EC_MAXSM /\ SMt_bug_add \in {0, 1}
    /\ Osize \in Nat /\ Isize \in Nat
    /\ PDOdesc \in [Entry -> Nat]
    /\ reading \in [DOMAIN NoReading -> Nat]
    /\ behind \in Seq([of : Nat, value : Nat]) /\ mistaken \in BOOLEAN
    /\ lost \in 0 .. MaxLoss /\ Len(behind) <= lost
    /\ failed \subseteq Slave

\* A slave of which nothing was lost is mapped as it is, by whichever of the ways it
\* was found and whatever was lost of the others: the bits of both directions, and
\* the sync managers that carry them, which stand enabled with their length in the
\* slave.  (A slave that waits for data of another length refuses SAFE_OP.)
MapIsSlaves ==
    Mapped => \A s \in Slave \ failed, type \in {Out, In} :
        /\ bitsOf(s, type) = MapThenSumSet(LAMBDA n : TrueBits(s, n), Carriers(s, type))
        /\ \A n \in Carriers(s, type) :
             /\ slavelist[s].SMtype[n] = type
             /\ registers[s][n] = [len |-> Bytes(TrueBits(s, n)), on |-> TRUE]

\* Whatever was lost, the sync managers of a direction have room for its bits: the
\* loops of module IoMap that lay the bits out over them (ethercatconfig.c,
\* ecx_config_create_output_mappings) come to an end with every bit in its place.
BitsHaveRoom ==
    Mapped => \A s \in Slave, type \in {Out, In} :
        bitsOf(s, type) <= 8 * MapThenSumSet(LAMBDA n : slavelist[s].SMlength[n],
                                             {n \in SM : slavelist[s].SMtype[n] = type})

\* A read that fails may hide process data, but no bit is mapped that the slave does not
\* have, "total bitlength of PDO assign" (ethercatcoe.c), and none in the wrong direction,
\* as long as no read takes something else for its answer: a late one, or a buffer of which
\* a segment is missing.  Only of slaves whose types are one too low ("SM2 has type 2 ==
\* mailbox out, this is a bug in the slave!") the read that tells so must not fail.
Genuine(S) ==
    \A s \in Slave, type \in {Out, In} :
        /\ bitsOf(s, type) <= MapThenSumSet(LAMBDA n : TrueBits(s, n), Carriers(s, type))
        /\ s \in S => \A n \in Carriers(s, type) : slavelist[s].SMtype[n] \notin {Out, In} \ {type}
TooLow == {s \in Slave : Len(line[s].types) > 2 /\ line[s].types[3] = 2}
NothingInvented == Mapped => mistaken \/ Genuine(Slave \ (TooLow \cap failed))
\* The same without exceptions.
NothingEverInvented == Mapped => Genuine(Slave)

\* "check if SM is unused -> clear enable flag" (ethercatcoe.c): a sync manager the
\* slave reports as unused is not switched on.
UnusedIsOff ==
    Mapped => \A s \in Slave : \A n \in 2 .. Len(line[s].types) - 1 :
        (s \notin failed /\ line[s].types[n + 1] = Unused /\ line[s].dir[n] = Unused)
            => ~registers[s][n].on
================================================================================
