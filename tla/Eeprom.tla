---------------------------------- MODULE Eeprom ---------------------------------
(***************************************************************************)
(* Access to the EEPROM behind every slave (ethercatmain.c): control of    *)
(* its interface changes between master and PDI, a command is written into *)
(* a register, the slave is polled until it is no longer busy, the data    *)
(* register is read or was written before.  A slave is found by its        *)
(* station address (FP) or by its place in the line (AP), or all are       *)
(* addressed at once (B).                                                   *)
(*                                                                         *)
(* One action is one datagram with one send; an operation is the sequence  *)
(* of datagrams with the same op.  The single datagrams with which         *)
(* config_init sets up a slave are operations, too.  A poll that finds the *)
(* interface busy changes nothing and is no action.  The EEPROM is a row   *)
(* of cells: a cell is a field of the header or a word of the SII; a read  *)
(* answers with the cells of one chunk.                                    *)
(***************************************************************************)
EXTENDS Naturals, Sequences, FiniteSets

CONSTANTS N,         \* *(context->slavecount)
          content,   \* content of the EEPROMs at the start
          width,     \* cells of one chunk: EC_ESTAT_R64 or not
          mailbox,   \* where the mailbox of a slave is, 0 for none (external)
          Kept,      \* what the slaves may have kept from an earlier session
          Blank,     \* an unused cell, 0xffff
          Tries,     \* sends of a datagram: EC_DEFAULTRETRIES + 1
          Troubles,  \* what may go wrong: "lost", "nack", "slow", "gone"
          MaxTrouble \* bound on it

Slave == 1 .. N
EepromAssumption ==
    /\ N \in Nat \ {0} /\ Tries \in Nat \ {0} /\ MaxTrouble \in Nat
    /\ content \in [Slave -> Seq(Nat)] /\ width \in [Slave -> {2, 4}]
    /\ mailbox \in [Slave -> Nat]
    /\ \A kept \in Kept : kept \in [Slave -> [station : Nat, error : BOOLEAN, ctl : {"pdi", "master"}, sm : Nat, state : {"INIT", "OP"}]]
    /\ Blank \in Nat
    /\ Troubles \subseteq {"lost", "nack", "slow", "gone"}
ASSUME EepromAssumption

VARIABLES dev,       \* station address, EEPROM interface and EEPROM of every slave, first sync
                     \* manager and EtherCAT state (external)
          slavelist, \* configadr, eep_8byte and eep_pdi of every slave
          job,       \* the operation at work, its arguments and local variables
          answer,    \* what the last operation returned
          happened,  \* troubles the slave has had; "cut": all sends of a datagram lost
          troubles   \* how many troubles so far

eepromVars == <<dev, slavelist, job, answer, happened, troubles>>

Cell(rom, a) == IF a < Len(rom) THEN rom[a + 1] ELSE Blank
ChunkAt(s, rom, a) == [i \in 1 .. 4 |-> IF i <= width[s] THEN Cell(rom, a + i - 1) ELSE 0]
Zeros == [i \in 1 .. 4 |-> 0]

Idle == [pc |-> "idle"]
Quiet == job = Idle
Gone(s) == "gone" \in happened[s]

EepromInit ==
    /\ \E kept \in Kept :
         dev = [s \in Slave |-> [station |-> kept[s].station, ctl |-> kept[s].ctl, busy |-> FALSE, error |-> kept[s].error,
                                cmd |-> "nop", addr |-> 0, data |-> Zeros, rom |-> content[s],
                                sm |-> kept[s].sm, state |-> kept[s].state]]
    /\ slavelist = [s \in Slave |-> [configadr |-> 0, eep_8byte |-> FALSE, eep_pdi |-> FALSE]]
    /\ job = Idle
    /\ answer = <<>>
    /\ happened = [s \in Slave |-> {}]
    /\ troubles = 0

Suffer(S, kinds) ==
    /\ kinds \cap Troubles # {}
    /\ troubles < MaxTrouble
    /\ troubles' = troubles + 1
    /\ happened' = [s \in Slave |-> IF s \in S THEN happened[s] \cup kinds ELSE happened[s]]

--------------------------------------------------------------------------------
(* Who takes a datagram: all slaves, those with the station address, or the one at the place; *)
(* of several that answer the last in the line is heard.                                *)

WithAddress(a) == {s \in Slave : ~Gone(s) /\ dev[s].station = a}
AtPlace(n) == {s \in Slave : ~Gone(s) /\ Cardinality({i \in 1 .. s : ~Gone(i)}) = n}
Writing == job.op \in {"write", "writeAP"}
\* Datagrams to all slaves: ecx_BWR, ecx_BRD.
Broadcast == {"init", "count", "smreset", "force", "take"}
ToAll == job.op \in Broadcast
ByPlace == job.pc \in {"stadr", "confirm"} \/ (job.op \in {"readAP", "writeAP"} /\ job.pc \notin {"force", "take"})
Listening == CASE ToAll -> {s \in Slave : ~Gone(s)}
               [] ~ToAll /\ ByPlace -> AtPlace(job.slave)
               [] OTHER -> WithAddress(slavelist[job.slave].configadr)
Speaker == CHOOSE s \in Listening : \A i \in Listening : i <= s

--------------------------------------------------------------------------------
(* The slave (external). *)

\* Slaves share nothing: what one does between two operations of the master on it shows
\* at the next of them and is done there.
Watched(s) == ~Quiet /\ (s = job.slave \/ s \in Listening)

Perform(s) ==
    /\ Watched(s) /\ dev[s].busy
    /\ dev' = [dev EXCEPT ![s].busy = FALSE,
                          ![s].data = IF dev[s].cmd = "read" THEN ChunkAt(s, dev[s].rom, dev[s].addr) ELSE @,
                          ![s].rom = IF dev[s].cmd = "write" THEN [@ EXCEPT ![dev[s].addr + 1] = dev[s].data[1]] ELSE @]
    /\ UNCHANGED <<slavelist, job, answer, happened, troubles>>

\* The EEPROM does not acknowledge: the data register keeps what it had.
Nack(s) ==
    /\ Watched(s) /\ dev[s].busy
    /\ Suffer({s}, {"nack"})
    /\ dev' = [dev EXCEPT ![s].busy = FALSE, ![s].error = TRUE]
    /\ UNCHANGED <<slavelist, job, answer>>

Unplug(s) ==
    /\ Watched(s) /\ ~Gone(s)
    /\ Suffer({s}, {"gone"})
    /\ UNCHANGED <<dev, slavelist, job, answer>>

\* A slave goes up to PRE_OP when its EEPROM is accessible to it and its mailbox is where it should be.
PreOpPossible(s) == dev[s].state = "INIT" => dev[s].ctl = "pdi" /\ dev[s].sm = mailbox[s]

\* Registers of the interface take commands and data from its owner when not busy.
Command(d, cmd, addr) == [d EXCEPT !.busy = TRUE, !.error = FALSE, !.cmd = cmd, !.addr = addr]
Takes(s, pc) ==
    LET d == dev[s]
        mine == d.ctl = "master" /\ ~d.busy
    IN CASE pc = "stadr" -> [d EXCEPT !.station = job.val]
         [] pc = "init" -> [d EXCEPT !.state = "INIT"]
         [] pc = "smreset" -> [d EXCEPT !.sm = 0]
         [] pc = "sm" -> [d EXCEPT !.sm = job.val]
         [] pc = "preop" -> [d EXCEPT !.state = IF PreOpPossible(s) THEN "PRE_OP" ELSE @]
         [] pc = "force" -> [d EXCEPT !.ctl = IF @ = "pdi" THEN "forced" ELSE @]
         [] pc = "take" -> [d EXCEPT !.ctl = IF @ = "forced" THEN "master" ELSE @]
         [] pc = "give" -> [d EXCEPT !.ctl = "pdi"]
         [] pc = "clear" /\ mine -> [d EXCEPT !.error = FALSE]
         [] pc = "data" /\ mine -> [d EXCEPT !.data[1] = job.val]
         [] pc = "command" /\ mine -> Command(d, IF Writing THEN "write" ELSE "read", job.addr)
         [] OTHER -> d

--------------------------------------------------------------------------------
(* The master. *)

\* Operations of a single datagram.
Single == Broadcast \cup {"stadr", "confirm", "estat", "sm", "preop"}

\* Mutant: the PDI is not made to let go.
FirstOf_NoForce(op, s) ==
    CASE op = "eeprom2pdi" -> IF slavelist[s].eep_pdi THEN "idle" ELSE "give"
      [] op \in Single -> op
      [] op = "readeeprom2" -> "wait"
      [] OTHER -> IF slavelist[s].eep_pdi THEN "take" ELSE "wait"
FirstOf(op, s) ==
    CASE op = "eeprom2pdi" -> IF slavelist[s].eep_pdi THEN "idle" ELSE "give"
      [] op \in Single -> op
      [] op = "readeeprom2" -> "wait"
      [] OTHER -> IF slavelist[s].eep_pdi THEN "force" ELSE "wait"

\* Nothing to do when the control is already there.
Start(op, s, a, v) ==
    /\ Quiet
    /\ job' = IF FirstOf(op, s) = "idle" THEN Idle
              ELSE [pc |-> FirstOf(op, s), op |-> op, slave |-> s, addr |-> a, val |-> v, tries |-> 0, nackcnt |-> 0,
                    half |-> FALSE]
    /\ UNCHANGED <<dev, slavelist, answer, happened, troubles>>

GoTo(pc) == job' = [job EXCEPT !.pc = pc, !.tries = 0] /\ UNCHANGED <<answer, slavelist>>
Return(value) == job' = Idle /\ answer' = value /\ UNCHANGED slavelist
Nothing == IF Writing THEN <<0>> ELSE Zeros

\* edat32 or edat64, as the status last read says.
Fetched == [i \in 1 .. 4 |-> IF job.half /\ i > 2 THEN 0 ELSE dev[Speaker].data[i]]

First == IF Writing THEN "data" ELSE "command"

\* while ((nackcnt > 0) && (nackcnt < 3))
Again(nackcnt) ==
    IF nackcnt \in 1 .. 2
    THEN job' = [job EXCEPT !.pc = First, !.tries = 0, !.nackcnt = nackcnt] /\ UNCHANGED <<answer, slavelist>>
    ELSE Return(Nothing)

\* ecx_readeeprom1 leaves the answer to be collected; the others wait for it, if (wkc).
AfterCommand(wkc) ==
    CASE job.op = "readeeprom1" -> Return(<<>>)
      [] job.op # "readeeprom1" /\ wkc = "none" -> Again(job.nackcnt)
      [] OTHER -> GoTo("wait2")

Learn(f, value) == slavelist' = [slavelist EXCEPT ![job.slave][f] = value] /\ job' = Idle /\ UNCHANGED answer

\* estat & EC_ESTAT_R64; without an answer estat is what it was for the slave before, and
\* nothing at the first one.
CanRead8(wkc) ==
    IF wkc = "one" THEN {width[Speaker] > 2}
    ELSE IF job.slave = 1 THEN BOOLEAN ELSE {slavelist[job.slave - 1].eep_8byte}

\* After the last send of a datagram: wkc is 1, 0 when nobody answers, or EC_NOFRAME.
Proceed(wkc) ==
    CASE job.pc = "count" -> Return(<<IF wkc = "one" THEN Cardinality(Listening) ELSE 0>>)
      [] (ToAll /\ job.pc # "count") \/ job.pc \in {"stadr", "sm", "preop"} -> Return(<<>>)
      [] job.pc = "confirm" -> Learn("configadr", IF wkc = "one" THEN dev[Speaker].station ELSE 0)
      [] job.pc = "estat" -> \E can \in CanRead8(wkc) : Learn("eep_8byte", can)
      [] job.pc = "force" /\ ~ToAll -> GoTo("take")
      [] job.pc = "take" /\ ~ToAll ->
                            /\ slavelist' = [slavelist EXCEPT ![job.slave].eep_pdi = FALSE]
                            /\ job' = [job EXCEPT !.pc = "wait", !.tries = 0]
                            /\ UNCHANGED answer
      [] job.pc = "give" -> Learn("eep_pdi", TRUE)
      [] job.pc = "clear" -> GoTo(First)
      [] job.pc = "data" -> GoTo("command")
      [] job.pc = "command" -> AfterCommand(wkc)
      [] job.pc = "fetch" -> Return(IF wkc = "one" THEN Fetched ELSE Nothing)

Sending == job.pc \in {"force", "take", "give", "clear", "data", "command", "fetch"} \cup Single

\* The datagram has passed the slaves up to this one.
TakenBy(last) == [s \in Slave |-> IF s \in Listening /\ s <= last THEN Takes(s, job.pc) ELSE dev[s]]
Concerned == IF ToAll THEN Slave ELSE {job.slave}

Answered ==
    /\ Sending /\ Listening # {}
    /\ dev' = TakenBy(N)
    /\ Proceed("one")
    /\ UNCHANGED <<happened, troubles>>

\* A frame is lost before the slaves or behind one of them; the datagram is sent again, or
\* given up.
Lost(last) ==
    /\ Sending /\ Listening # {}
    /\ last \in Listening \cup {0}
    /\ dev' = TakenBy(last)
    /\ IF job.tries + 1 < Tries
       THEN /\ Suffer(Concerned, {"lost"})
            /\ job' = [job EXCEPT !.tries = @ + 1]
            /\ UNCHANGED <<answer, slavelist>>
       ELSE /\ Suffer(Concerned, {"lost", "cut"})
            /\ Proceed("noframe")

\* Nobody takes the datagram, it comes back with work counter 0 every time.
Unanswered ==
    /\ Sending /\ Listening = {}
    /\ Proceed("none")
    /\ UNCHANGED <<dev, happened, troubles>>

Waiting == job.pc \in {"wait", "wait2"}

\* ecx_readeeprom2 fetches the data whatever the error bits are.
AfterFirstWait(error) ==
    CASE job.op = "readeeprom2" -> "fetch"
      [] job.op # "readeeprom2" /\ error -> "clear"
      [] OTHER -> First

\* Mutant: a command that was not acknowledged is taken for done.
Ready_NackIgnored(error, r64) ==
    IF job.pc = "wait"
    THEN GoTo(AfterFirstWait(error))
    ELSE IF Writing THEN Return(<<1>>) ELSE GoTo("fetch")

\* ecx_eeprom_waitnotbusyFP returned 1 and a status with these bits.
Ready(error, r64) ==
    IF job.pc = "wait"
    THEN GoTo(AfterFirstWait(error))
    ELSE IF error THEN Again(job.nackcnt + 1)
    ELSE IF Writing THEN Return(<<1>>)
    ELSE /\ job' = [job EXCEPT !.pc = "fetch", !.tries = 0, !.half = ~r64]
         /\ UNCHANGED <<answer, slavelist>>

Poll ==
    /\ Waiting /\ Listening # {}
    /\ ~dev[Speaker].busy
    /\ Ready(dev[Speaker].error, width[Speaker] > 2)
    /\ UNCHANGED <<dev, happened, troubles>>

\* The timer runs out with a poll nobody answered: the status is 0, and 0 is not busy.
PollsUnanswered ==
    /\ Waiting
    /\ IF Listening = {} THEN UNCHANGED <<happened, troubles>> ELSE Suffer({job.slave}, {"slow"})
    /\ Ready(FALSE, FALSE)
    /\ UNCHANGED dev

\* The timer runs out and the slave is still busy.
StillBusy ==
    /\ Waiting /\ Listening # {}
    /\ dev[Speaker].busy
    /\ Suffer({job.slave}, {"slow"})
    /\ IF job.pc = "wait" THEN Return(Nothing) ELSE Again(job.nackcnt)
    /\ UNCHANGED dev

Master ==
    \/ Answered
    \/ \E last \in 0 .. N : Lost(last)
    \/ Unanswered
    \/ Poll
    \/ PollsUnanswered
    \/ StillBusy
SlaveActs == \E s \in Slave : Perform(s) \/ Nack(s) \/ Unplug(s)

DevType == [station : Nat, ctl : {"pdi", "forced", "master"}, busy : BOOLEAN, error : BOOLEAN,
            cmd : {"nop", "read", "write"}, addr : Nat, data : Seq(Nat), rom : Seq(Nat),
            sm : Nat, state : {"INIT", "PRE_OP", "OP"}]
JobType == [pc : {"force", "take", "give", "wait", "clear", "data", "command", "wait2", "fetch"} \cup Single,
            op : {"read", "write", "readAP", "writeAP", "readeeprom1", "readeeprom2", "eeprom2pdi"} \cup Single,
            slave : Slave, addr : Nat, val : Nat, tries : 0 .. Tries - 1, nackcnt : 0 .. 2, half : BOOLEAN]
EepromTypeOK ==
    /\ dev \in [Slave -> DevType]
    /\ slavelist \in [Slave -> [configadr : Nat, eep_8byte : BOOLEAN, eep_pdi : BOOLEAN]]
    /\ job \in JobType \cup {Idle}
    /\ answer \in Seq(Nat)
    /\ happened \in [Slave -> SUBSET (Troubles \cup {"cut"})]
    /\ troubles \in 0 .. MaxTrouble
================================================================================
