--------------------------------- MODULE StartUp ---------------------------------
(***************************************************************************)
(* How the motor program gets to its cycle (test/EPOS4/src/main.cpp): the  *)
(* hook of the drive, which ecx_map_coe_soe calls before it reads the      *)
(* assignment, writes the assignment over CoE (SetupParam, PdoMapping);    *)
(* simpletest lays the structs RX_PDO and TX_PDO over the image that comes *)
(* of it, leads the slaves to operational and starts the cycle of          *)
(* ecatthread.  No result is looked at but the last state.                 *)
(*                                                                         *)
(* The map itself is what module FindMappings found; where its bits lie in *)
(* the image is the subject of IoMap.  The state of a slave and what it    *)
(* accepts are external.                                                   *)
(***************************************************************************)
EXTENDS FindMappings, SequencesExt

CONSTANTS EPOS4,   \* number of the drive
          Prompt   \* TRUE: ecatthread has begun when simpletest is through

\* A device has the field objects: what 1600 and 1A00 hold when it is switched on, if
\* they can be written, and none otherwise.
Programmable(d) == d.objects # {}

ASSUME StartAssumption == EPOS4 \in Nat \ {0} /\ Prompt \in BOOLEAN

VARIABLES od,       \* objects of the drive: entries and number of entries of 1600 and 1A00, and what 1C12 and 1C13 assign
          step,     \* write of the hook that is next
          main,     \* where simpletest is
          rt,       \* where ecatthread is
          dorun, inOP,
          rxPDO,    \* what rxPDO points to: bits of output, NULL is 0
          state     \* EtherCAT state of every slave
startVars == <<main, rt, dorun, inOP, rxPDO, state>>

E(obj, bits) == [obj |-> obj, bits |-> bits]

\* struct RX_PDO and TX_PDO
RX_PDO == <<E("control_word", 16), E("mode_of_operation", 8), E("target_torque", 16),
            E("target_velocity", 32), E("target_position", 32), E("profile_velocity", 32)>>
TX_PDO == <<E("status_word", 16), E("mode_of_operation_display", 8), E("position_actual_value", 32),
            E("velocity_actual_value", 32), E("torque_actual_value", 16), E("current_actual_value", 32)>>

--------------------------------------------------------------------------------
(* PdoMapping: a write is <<index, sub-index, value>>. *)

Disable == <<<<"1600", 0, 0>>, <<"1A00", 0, 0>>, <<"1C12", 0, 0>>, <<"1C13", 0, 0>>>>
RxPDO == <<E("control_word", 16), E("mode_of_operation", 8), E("target_torque", 16),
           E("target_velocity", 32), E("target_position", 32), E("profile_velocity", 32)>>
TxPDO == <<E("status_word", 16), E("mode_of_operation_display", 8), E("position_actual_value", 32),
           E("velocity_actual_value", 32), E("torque_actual_value", 16), E("current_actual_value", 32)>>
Entries(index, pdo) == [i \in DOMAIN pdo |-> <<index, i, pdo[i]>>]
Effective == <<<<"1600", 0, Len(RxPDO)>>, <<"1A00", 0, Len(TxPDO)>>,
               <<"1C12", 1, "1600">>, <<"1C13", 1, "1A00">>, <<"1C12", 0, 1>>, <<"1C13", 0, 1>>>>

\* Mutant: the PDOs are not taken out of use before their entries are written.
WritesInUse == Entries("1600", RxPDO) \o Entries("1A00", TxPDO) \o Effective

Writes == Disable \o Entries("1600", RxPDO) \o Entries("1A00", TxPDO) \o Effective

(* The drive (external): the entries of a PDO, and the PDO an assignment names, can be *)
(* written while its count is 0; a count only as far as there are entries.             *)
Accepted(index, sub, value) ==
    IF sub = 0 THEN \A i \in 1 .. value : i \in DOMAIN od[index].of ELSE od[index].count = 0

Stored(index, sub, value) ==
    IF sub = 0 THEN [od EXCEPT ![index].count = value]
    ELSE [od EXCEPT ![index].of = [i \in DOMAIN @ \cup {sub} |-> IF i = sub THEN value ELSE @[i]]]

\* The entries a sync manager exchanges.
Layout(o, assignment) ==
    LET pdos == [n \in 1 .. o[assignment].count |-> o[o[assignment].of[n]]]
    IN FlattenSeq([n \in DOMAIN pdos |-> [i \in 1 .. pdos[n].count |-> pdos[n].of[i]]])
BitsIn(o, assignment) ==
    [n \in 1 .. o[assignment].count |-> [i \in 1 .. o[o[assignment].of[n]].count |-> o[o[assignment].of[n]].of[i].bits]]

Hooked == pc = "begin" /\ slave = EPOS4 /\ step <= Len(Writes)

\* One ec_SDOwrite, whose result is not looked at: lost, aborted or done, and its answer
\* may come late.
Number(index) == CASE index = "1C12" -> PdoAssign(2) [] index = "1C13" -> PdoAssign(3)
                   [] index = "1600" -> Pdo(2, 1) [] index = "1A00" -> Pdo(3, 1)
HookWrite ==
    /\ Hooked /\ Programmable(device)
    /\ LET w == Writes[step]
           accepted == Accepted(w[1], w[2], w[3])
       IN \E r \in Exchange(IF accepted THEN Answer(Number(w[1]), 0) ELSE AbortAnswer) :
            /\ Take(r)
            /\ \/ od' = IF accepted THEN Stored(w[1], w[2], w[3]) ELSE od
               \/ r.lost = 1 /\ UNCHANGED od
    /\ step' = step + 1
    /\ line' = [line EXCEPT ![EPOS4].pdos[2] = BitsIn(od', "1C12"), ![EPOS4].pdos[3] = BitsIn(od', "1C13")]
    /\ UNCHANGED <<slavelist, registers, loops, startVars>>

\* A device that has no such objects refuses them all.
HookRefused ==
    /\ Hooked /\ ~Programmable(device)
    /\ step' = Len(Writes) + 1
    /\ UNCHANGED <<vars, od, startVars>>

--------------------------------------------------------------------------------
(* simpletest, from the end of ec_config_map on *)

\* A slave takes SAFE_OP if its sync managers are as long as its process data.
LengthsFit(s) == \A type \in {Out, In} : \A n \in Carriers(s, type) :
                    registers[s][n] = [len |-> Bytes(TrueBits(s, n)), on |-> TRUE]

Taken(s, requested) ==
    IF requested = "SAFE_OP" /\ state[s] = "PRE_OP" /\ LengthsFit(s) THEN "SAFE_OP"
    ELSE IF requested = "OPERATIONAL" /\ state[s] = "SAFE_OP" THEN "OPERATIONAL"
    ELSE state[s]

At(here, next) == main = here /\ main' = next /\ UNCHANGED <<line, slavelist, registers, loops, behind, mistaken, od, step>>

\* "request safe_op for slave", one after the other.
RequestSafeOp ==
    /\ Mapped /\ EPOS4 \in Slave /\ Programmable(line[EPOS4])
    /\ At("map", "connect")
    /\ \E missed \in SUBSET Slave :
         /\ lost + Cardinality(missed) <= MaxLoss
         /\ lost' = lost + Cardinality(missed)
         /\ failed' = failed \cup missed
         /\ state' = [s \in Slave |-> IF s \in missed THEN state[s] ELSE Taken(s, "SAFE_OP")]
    /\ UNCHANGED <<rt, dorun, inOP, rxPDO>>

\* "connect struct pointers to slave I/O pointers": a slave without outputs has none.
Connect ==
    /\ At("connect", "request")
    /\ rxPDO' = slavelist[EPOS4].Obits
    /\ UNCHANGED <<lost, failed, rt, dorun, inOP, state>>

\* "request OP state for all slaves", one datagram for all of them.
RequestOp ==
    /\ At("request", "check")
    /\ \/ state' = [s \in Slave |-> Taken(s, "OPERATIONAL")] /\ UNCHANGED <<lost, failed>>
       \/ lost < MaxLoss /\ lost' = lost + 1 /\ failed' = Slave /\ UNCHANGED state
    /\ UNCHANGED <<rt, dorun, inOP, rxPDO>>

\* ecx_statecheck of slave 0 ends with the state that all of them have, or with another
\* when its time is over; a read that is lost is repeated.
AllOperational == \A s \in Slave : state[s] = "OPERATIONAL"

ReachOp ==
    /\ AllOperational
    /\ Prompt => rt # "begin"
    /\ At("check", "acyclic")
    /\ inOP' = TRUE /\ dorun' = TRUE
    /\ UNCHANGED <<lost, failed, rt, rxPDO, state>>

\* "Not all slaves reached operational state": the program ends, and ecatthread with it.
GiveUp ==
    /\ ~AllOperational
    /\ At("check", "ended")
    /\ state' = [s \in Slave |-> IF state[s] = "OPERATIONAL" THEN "SAFE_OP" ELSE state[s]]
    /\ UNCHANGED <<lost, failed, rt, dorun, inOP, rxPDO>>

--------------------------------------------------------------------------------
(* ecatthread *)

\* "toff = 0; dorun = 0; ec_send_processdata();"
RtBegin ==
    /\ rt = "begin" /\ main # "ended"
    /\ dorun' = FALSE
    /\ rt' = "idle"
    /\ UNCHANGED <<vars, od, step, main, inOP, rxPDO, state>>

\* The first turn with dorun set: it writes through rxPDO.
RtCycle ==
    /\ rt = "idle" /\ dorun
    /\ rt' = IF rxPDO = 0 THEN "crashed" ELSE "cycle"
    /\ UNCHANGED <<vars, od, step, main, dorun, inOP, rxPDO, state>>

--------------------------------------------------------------------------------
StartInit ==
    /\ Init
    /\ od = IF EPOS4 \in Slave /\ Programmable(line[EPOS4]) THEN CHOOSE o \in line[EPOS4].objects : TRUE ELSE <<>>
    /\ step = 1
    /\ main = "map" /\ rt = "begin"
    /\ dorun = FALSE /\ inOP = FALSE /\ rxPDO = 0
    /\ state = [s \in Slave |-> "PRE_OP"]

SimpleTest == RequestSafeOp \/ Connect \/ RequestOp \/ ReachOp \/ GiveUp
Configure == HookWrite \/ HookRefused \/ (~Hooked /\ Next /\ UNCHANGED <<od, step, startVars>>)

StartNext == Configure \/ SimpleTest \/ RtBegin \/ RtCycle

allVars == <<vars, od, step, startVars>>
StartSpec == StartInit /\ [][StartNext]_allVars
\* Both threads run.
FairStart == StartSpec /\ WF_allVars(StartNext)

--------------------------------------------------------------------------------
\* Every field of the structs is where the drive has its object.
Lands == Layout(od, "1C12") = RX_PDO /\ Layout(od, "1C13") = TX_PDO

Started == main = "acyclic" /\ rt = "cycle" /\ Lands /\ rxPDO = MapThenSumSet(LAMBDA i : RX_PDO[i].bits, DOMAIN RX_PDO)

\* If the drive is there and none of its reads and writes fails, the program comes to
\* its cycle, and the fields it writes are the objects of the drive they are named for;
\* unless another slave has failed and keeps all of them out of operational.
StartsUp == <>[](\/ EPOS4 \notin Slave \/ EPOS4 \in failed \/ ~Programmable(line[EPOS4])
                 \/ Started
                 \/ main = "ended" /\ failed # {})

\* The same for the safety of the cycle, whatever failed: commands land where they should.
CommandsLand == rt = "cycle" => Lands
NoCrash == rt # "crashed"

\* "activate cyclic rt process": what simpletest has started runs.
CycleRuns == [](main = "acyclic" => <>(rt # "idle"))
================================================================================
