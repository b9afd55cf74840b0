------------------------------- MODULE SlaveGuard -------------------------------
(***************************************************************************)
(* Supervision of the slaves: the thread ecatcheck of the programs with    *)
(* ecx_readstate, ecx_writestate and ecx_statecheck (ethercatmain.c),      *)
(* ecx_recover_slave and ecx_reconfig_slave (ethercatconfig.c).  When the  *)
(* work counter of the process data is short, it reads the AL states of    *)
(* all slaves and takes those that are not OPERATIONAL back to it.         *)
(*                                                                         *)
(* Slaves lose and regain their power while the thread works; every        *)
(* datagram may be lost before or behind the slaves.  A slave is known to  *)
(* the master by its number, which stands for its station address, too.    *)
(* States are read in the lower four bits and the error flag.              *)
(*                                                                         *)
(* A slave that has no address has just got its power, and its EEPROM      *)
(* belongs to the master as it does then: ecx_eeprom2pdi and               *)
(* ecx_eeprom2master change nothing that a recovery sees.  The SM          *)
(* registers are written all or not at all, and so are the FMMUs and the   *)
(* objects that the hook between PRE_OP and SAFE_OP sets.                  *)
(***************************************************************************)
EXTENDS Naturals, FiniteSets

CONSTANTS slavecount,  \* *context->slavecount
          upstream,    \* slaves the frames pass on the way to each slave
          type,        \* identity of each slave; 0 is also what a failed read brings
          PO2SOconfig, \* the slaves with a hook between PRE_OP and SAFE_OP
          MaxLoss,     \* bound: lost datagrams of the thread
          MaxOff       \* bound: losses of power

Slave == 1 .. slavecount
TEMPNODE == slavecount + 1   \* EC_TEMPNODE
NoAddress == 0
Address == {NoAddress, TEMPNODE} \cup Slave
\* The alias register and three words of the EEPROM.
Field == {"alias", "id", "man", "rev"}

ASSUME GuardAssumption ==
    /\ slavecount \in Nat \ {0}
    /\ upstream \in [Slave -> SUBSET Slave]
    /\ \A s \in Slave : \A u \in upstream[s] : u < s
    /\ type \in [Slave -> [Field -> Nat]]
    /\ PO2SOconfig \subseteq Slave
    /\ MaxLoss \in Nat /\ MaxOff \in Nat

\* AL states; BOOT is what INIT and PRE_OP give when they are read as one.
States == {"NONE", "INIT", "PRE_OP", "BOOT", "SAFE_OP", "OPERATIONAL"}
AlStatus == [state : States, error : BOOLEAN]
Al(s) == [state |-> s, error |-> FALSE]
AlError(s) == [state |-> s, error |-> TRUE]
Device == [on : BOOLEAN, al : AlStatus, addr : Address, sm : BOOLEAN, pdo : BOOLEAN, fmmu : BOOLEAN]
\* Writes whose work counter the code does not look at.
Unchecked == {"clear", "address", "fmmu"}

VARIABLES dev,           \* the slaves themselves (external)
          slavelist,     \* what the master believes: AL status and islost
          docheckstate,  \* group[0].docheckstate
          short,         \* wkc < expectedWKC after the last receive
          pc,            \* the next datagram of ecatcheck
          slave,         \* the slave its loop is at
          missed,        \* unchecked writes that did not reach a slave they were for
          losses, offs

guardVars == <<slavelist, docheckstate, pc, slave>>
vars == <<dev, guardVars, short, missed, losses, offs>>

Running == [on |-> TRUE, al |-> Al("OPERATIONAL"), addr |-> NoAddress,
            sm |-> TRUE, pdo |-> TRUE, fmmu |-> TRUE]
PowerUp(s) == [on |-> TRUE, al |-> Al("INIT"), addr |-> NoAddress,
               sm |-> FALSE, pdo |-> s \notin PO2SOconfig, fmmu |-> FALSE]

\* inOP: simpletest has brought all slaves to OPERATIONAL.
Init == /\ dev = [s \in Slave |-> [Running EXCEPT !.addr = s]]
        /\ slavelist = [s \in Slave |-> [al |-> Al("OPERATIONAL"), islost |-> FALSE]]
        /\ docheckstate = FALSE
        /\ short = FALSE
        /\ pc = "sleep"
        /\ slave = 1
        /\ missed = {}
        /\ losses = 0 /\ offs = 0

--------------------------------------------------------------------------------
(* The slaves (external). *)

Reachable(s) == dev[s].on /\ \A u \in upstream[s] : dev[u].on
At(a) == {s \in Slave : Reachable(s) /\ dev[s].addr = a}
\* Of several slaves with one address the last in the line is heard.
Heard(a) == CHOOSE s \in At(a) : \A r \in At(a) : r <= s
\* The slave an auto increment address reaches is found by counting.
AtPosition(p) == {s \in Slave : Reachable(s) /\ Cardinality({r \in 1 .. s : Reachable(r)}) = p}

Exchanging(s) == Reachable(s) /\ dev[s].fmmu /\ dev[s].al = Al("OPERATIONAL")

\* What a write to the AL control register makes of a slave.
AlControl(d, req, ack) ==
    [d EXCEPT !.al =
        CASE req = "INIT" -> Al("INIT")
          [] req = "PRE_OP" /\ @.state = "INIT" -> IF d.sm THEN Al("PRE_OP") ELSE AlError("INIT")
          [] req = "PRE_OP" /\ @ \in {Al("SAFE_OP"), Al("OPERATIONAL")} -> Al("PRE_OP")
          [] req = "SAFE_OP" /\ @.state = "PRE_OP" -> IF d.sm /\ d.pdo THEN Al("SAFE_OP") ELSE AlError("PRE_OP")
          [] req = "SAFE_OP" /\ @ = AlError("SAFE_OP") /\ ack -> Al("SAFE_OP")
          [] req = "SAFE_OP" /\ @ = Al("OPERATIONAL") -> Al("SAFE_OP")
          [] req = "OPERATIONAL" /\ @ = Al("SAFE_OP") -> Al("OPERATIONAL")
          [] OTHER -> @]

PowerOff ==
    /\ offs < MaxOff
    /\ offs' = offs + 1
    /\ \E s \in Slave : dev[s].on /\ dev' = [dev EXCEPT ![s].on = FALSE]
    /\ UNCHANGED <<guardVars, short, missed, losses>>

PowerOn ==
    /\ \E s \in Slave : ~dev[s].on /\ dev' = [dev EXCEPT ![s] = PowerUp(s)]
    /\ UNCHANGED <<guardVars, short, missed, losses, offs>>

--------------------------------------------------------------------------------
(* Datagrams. *)

Lose == losses < MaxLoss /\ losses' = losses + 1
Arrive == UNCHANGED losses

\* An operational slave that gets no process data falls back: it is cut off or has
\* no FMMUs, or the frames of many cycles are lost.
Watchdog ==
    /\ \E s \in Slave : /\ dev[s].on /\ dev[s].al = Al("OPERATIONAL")
                        /\ IF Exchanging(s) THEN Lose ELSE Arrive
                        /\ dev' = [dev EXCEPT ![s].al = AlError("SAFE_OP")]
    /\ UNCHANGED <<guardVars, short, missed, offs>>

\* A write to the slaves S, each of which becomes F(dev[s]): ok says that an answer
\* with a positive work counter came back.
Write(S, F(_), ok) ==
    LET written == [s \in Slave |-> IF s \in S THEN F(dev[s]) ELSE dev[s]]
    IN \/ Arrive /\ dev' = written /\ ok = (S # {})
       \/ Lose /\ dev' \in {dev, written} /\ ok = FALSE

\* A write to the address a whose work counter the code does not look at. It is missed
\* if it would have changed a slave with that address and did not.
WriteUnchecked(kind, a, F(_)) ==
    LET reached == IF losses' = losses THEN At(a) ELSE {}
        wanted == {s \in Slave : dev[s].on /\ dev[s].addr = a /\ F(dev[s]) # dev[s]}
    IN /\ Arrive \/ Lose
       /\ dev' = [s \in Slave |-> IF s \in reached THEN F(dev[s]) ELSE dev[s]]
       /\ missed' = IF wanted \subseteq reached THEN missed ELSE missed \cup {kind}

\* The real time thread: wkc = ec_receive_processdata().
Cycle ==
    /\ \/ Arrive /\ short' = \E s \in Slave : ~Exchanging(s)
       \/ Lose /\ short' = TRUE
    /\ UNCHANGED <<dev, guardVars, missed, offs>>

\* What a read of the AL status at the address of slave s brings; an answer that
\* does not come leaves the 0 that was there before.
AlOf(s) == IF At(s) = {} THEN Al("NONE") ELSE dev[Heard(s)].al
ReadAl(s, al) == \/ Arrive /\ al = AlOf(s)
                 \/ Lose /\ al = Al("NONE")

AlControlTo(req, ack, ok) == Write(At(slave), LAMBDA d : AlControl(d, req, ack), ok)

Goto(step) == pc' = step /\ UNCHANGED slave

NextSlave == IF slave < slavecount THEN slave' = slave + 1 /\ pc' = "check"
                                   ELSE slave' = 1 /\ pc' = "sleep"
Believe(al) == slavelist' = [slavelist EXCEPT ![slave].al = al]
Found == slavelist' = [slavelist EXCEPT ![slave].islost = FALSE]

--------------------------------------------------------------------------------
(* ecx_readstate *)

Start ==
    /\ pc = "sleep"
    /\ short \/ docheckstate
    /\ docheckstate' = FALSE
    /\ Goto("broadcast")
    /\ UNCHANGED <<dev, slavelist, short, missed, losses, offs>>

\* The answer to a broadcast read is the or of all states.
BitwiseState(S) ==
    IF Cardinality(S) = 1 THEN CHOOSE s \in S : TRUE
    ELSE IF S = {"INIT", "PRE_OP"} THEN "BOOT" ELSE "NONE"

\* Mutant: the work counter of the broadcast is not compared with slavecount.
BroadcastAnyPresent ==
    /\ pc = "broadcast"
    /\ \/ /\ Arrive
          /\ LET present == {s \in Slave : Reachable(s)}
                 bitwisestate == BitwiseState({dev[s].al.state : s \in present})
             IN IF bitwisestate # "NONE" /\ \A s \in present : ~dev[s].al.error
                  THEN /\ slavelist' = [s \in Slave |-> [slavelist[s] EXCEPT !.al = Al(bitwisestate)]]
                       /\ pc' = "check"
                  ELSE pc' = "multi" /\ UNCHANGED slavelist
       \/ Lose /\ pc' = "multi" /\ UNCHANGED slavelist
    /\ UNCHANGED <<dev, docheckstate, short, slave, missed, offs>>

Broadcast ==
    /\ pc = "broadcast"
    /\ \/ /\ Arrive
          /\ LET present == {s \in Slave : Reachable(s)}
                 bitwisestate == BitwiseState({dev[s].al.state : s \in present})
                 same == /\ bitwisestate # "NONE"
                         /\ present = Slave
                         /\ \A s \in present : ~dev[s].al.error
             IN IF same
                  THEN /\ slavelist' = [s \in Slave |-> [slavelist[s] EXCEPT !.al = Al(bitwisestate)]]
                       /\ pc' = "check"
                  ELSE pc' = "multi" /\ UNCHANGED slavelist
       \/ Lose /\ pc' = "multi" /\ UNCHANGED slavelist
    /\ UNCHANGED <<dev, docheckstate, short, slave, missed, offs>>

\* ecx_FPRD_multi: the states of all slaves in one frame.
ReadEach ==
    /\ pc = "multi"
    /\ \/ Arrive /\ slavelist' = [s \in Slave |-> [slavelist[s] EXCEPT !.al = AlOf(s)]]
       \/ Lose /\ slavelist' = [s \in Slave |-> [slavelist[s] EXCEPT !.al = Al("NONE")]]
    /\ Goto("check")
    /\ UNCHANGED <<dev, docheckstate, short, missed, offs>>

--------------------------------------------------------------------------------
(* ecatcheck: one turn of the loop over the slaves, up to "if (islost)". *)

al == slavelist[slave].al

CheckOperational ==
    /\ pc = "check"
    /\ al = Al("OPERATIONAL")
    /\ Goto("lost")
    /\ UNCHANGED <<dev, slavelist, docheckstate, short, missed, losses, offs>>

\* SAFE_OP + EC_STATE_ACK reads the same as SAFE_OP + EC_STATE_ERROR.
CheckSafeOp ==
    /\ pc = "check"
    /\ al.state = "SAFE_OP"
    /\ docheckstate' = TRUE
    /\ \E ok \in BOOLEAN :
         IF al.error THEN AlControlTo("SAFE_OP", TRUE, ok) /\ UNCHANGED slavelist
                     ELSE AlControlTo("OPERATIONAL", FALSE, ok) /\ Believe(Al("OPERATIONAL"))
    /\ Goto("lost")
    /\ UNCHANGED <<short, missed, offs>>

CheckOther ==
    /\ pc = "check"
    /\ al.state \notin {"NONE", "SAFE_OP"} /\ al # Al("OPERATIONAL")
    /\ docheckstate' = TRUE
    /\ Goto("init")
    /\ UNCHANGED <<dev, slavelist, short, missed, losses, offs>>

\* Mutant: a slave whose state could not be read is configured anew at once.
CheckNoneReconfigures ==
    /\ pc = "check"
    /\ al.state = "NONE"
    /\ docheckstate' = TRUE
    /\ Goto(IF slavelist[slave].islost THEN "lost" ELSE "init")
    /\ UNCHANGED <<dev, slavelist, short, missed, losses, offs>>

CheckNone ==
    /\ pc = "check"
    /\ al.state = "NONE"
    /\ docheckstate' = TRUE
    /\ Goto(IF slavelist[slave].islost THEN "lost" ELSE "statecheck")
    /\ UNCHANGED <<dev, slavelist, short, missed, losses, offs>>

\* "re-check state"
RecheckState ==
    /\ pc = "statecheck"
    /\ \E found \in AlStatus :
         /\ ReadAl(slave, found)
         /\ slavelist' = [slavelist EXCEPT ![slave].al = found,
                                           ![slave].islost = @ \/ found.state = "NONE"]
    /\ Goto("lost")
    /\ UNCHANGED <<dev, docheckstate, short, missed, offs>>

\* The second half of the turn.
CheckLost ==
    /\ pc = "lost"
    /\ IF slavelist[slave].islost /\ al.state = "NONE"
         THEN Goto("position") /\ UNCHANGED slavelist
         ELSE Found /\ NextSlave
    /\ UNCHANGED <<dev, docheckstate, short, missed, losses, offs>>

--------------------------------------------------------------------------------
(* ecx_reconfig_slave *)

ReconfigInit ==
    /\ pc = "init"
    /\ \E ok \in BOOLEAN :
         /\ AlControlTo("INIT", FALSE, ok)
         /\ Goto(IF ok THEN "initcheck" ELSE "lost")
    /\ UNCHANGED <<slavelist, docheckstate, short, missed, offs>>

\* ecx_statecheck after the polls: the state asked for leads on, any other ends
\* the function, which returns it; ecatcheck clears islost unless it is 0.
StateCheck(step, reqstate, next) ==
    /\ pc = step
    /\ \E found \in AlStatus :
         /\ ReadAl(slave, found)
         /\ slavelist' = [slavelist EXCEPT ![slave].al = found,
                             ![slave].islost = @ /\ (found.state = reqstate \/ found.state = "NONE")]
         /\ Goto(IF found.state = reqstate THEN next ELSE "lost")
    /\ UNCHANGED <<dev, docheckstate, short, missed, offs>>

CheckInit == StateCheck("initcheck", "INIT", "sm")
CheckPreOp == StateCheck("preopcheck", "PRE_OP", "hook")

\* The sync managers; a slave that did not get them refuses PRE_OP.
ReconfigSM ==
    /\ pc = "sm"
    /\ \E ok \in BOOLEAN : Write(At(slave), LAMBDA d : [d EXCEPT !.sm = TRUE], ok)
    /\ Goto("preop")
    /\ UNCHANGED <<slavelist, docheckstate, short, missed, offs>>

ReconfigPreOp ==
    /\ pc = "preop"
    /\ \E ok \in BOOLEAN : AlControlTo("PRE_OP", FALSE, ok)
    /\ Goto("preopcheck")
    /\ UNCHANGED <<slavelist, docheckstate, short, missed, offs>>

\* "execute special slave configuration hook": a slave whose objects are not those the
\* sync managers were made for refuses SAFE_OP.
Hook ==
    /\ pc = "hook"
    /\ IF slave \in PO2SOconfig
         THEN \E ok \in BOOLEAN : Write(At(slave), LAMBDA d : [d EXCEPT !.pdo = TRUE], ok)
         ELSE Arrive /\ UNCHANGED dev
    /\ Goto("safeop")
    /\ UNCHANGED <<slavelist, docheckstate, short, missed, offs>>

ReconfigSafeOp ==
    /\ pc = "safeop"
    /\ \E ok \in BOOLEAN : AlControlTo("SAFE_OP", FALSE, ok)
    /\ Goto("safeopcheck")
    /\ UNCHANGED <<slavelist, docheckstate, short, missed, offs>>

\* Whatever state is found, the FMMUs follow.
CheckSafeOpReached ==
    /\ pc = "safeopcheck"
    /\ \E found \in AlStatus :
         /\ ReadAl(slave, found)
         /\ Believe(found)
    /\ Goto("fmmu")
    /\ UNCHANGED <<dev, docheckstate, short, missed, offs>>

ReconfigFMMU ==
    /\ pc = "fmmu"
    /\ WriteUnchecked("fmmu", slave, LAMBDA d : [d EXCEPT !.fmmu = TRUE])
    /\ slavelist' = [slavelist EXCEPT ![slave].islost = @ /\ al.state = "NONE"]
    /\ Goto("lost")
    /\ UNCHANGED <<docheckstate, short, offs>>

--------------------------------------------------------------------------------
(* ecx_recover_slave *)

\* The address of the slave that stands at this position: "correct slave found",
\* no address yet, or neither.
ReadAddress ==
    /\ pc = "position"
    /\ \/ /\ Arrive
          /\ LET readadr == {dev[s].addr : s \in AtPosition(slave)}
             IN \/ readadr = {slave} /\ Found /\ NextSlave
                \/ readadr = {NoAddress} /\ Goto("clear") /\ UNCHANGED slavelist
                \/ readadr \notin {{slave}, {NoAddress}} /\ NextSlave /\ UNCHANGED slavelist
       \/ Lose /\ NextSlave /\ UNCHANGED slavelist
    /\ UNCHANGED <<dev, docheckstate, short, missed, offs>>

SetAddress(kind, a) == WriteUnchecked(kind, TEMPNODE, LAMBDA d : [d EXCEPT !.addr = a])

\* "clear possible slaves at EC_TEMPNODE"
ClearNode ==
    /\ pc = "clear"
    /\ SetAddress("clear", NoAddress)
    /\ Goto("temp")
    /\ UNCHANGED <<slavelist, docheckstate, short, offs>>

\* Mutant: after a failed write nobody clears the temporary address.
SetTempKeeps ==
    /\ pc = "temp"
    /\ \E ok \in BOOLEAN :
         /\ Write(AtPosition(slave), LAMBDA d : [d EXCEPT !.addr = TEMPNODE], ok)
         /\ IF ok THEN Goto("alias") ELSE NextSlave
    /\ UNCHANGED <<slavelist, docheckstate, short, missed, offs>>

\* "set temporary node address of slave", which is found by its position again.
SetTemp ==
    /\ pc = "temp"
    /\ \E ok \in BOOLEAN :
         /\ Write(AtPosition(slave), LAMBDA d : [d EXCEPT !.addr = TEMPNODE], ok)
         /\ Goto(IF ok THEN "alias" ELSE "remove")
    /\ UNCHANGED <<slavelist, docheckstate, short, missed, offs>>

\* Mutant: any slave that answers at the position is taken for the one that is lost.
CompareAny(step, field, next) ==
    /\ pc = step
    /\ \/ Arrive /\ Goto(IF At(TEMPNODE) # {} THEN next ELSE "remove")
       \/ Lose /\ Goto("remove")
    /\ UNCHANGED <<dev, slavelist, docheckstate, short, missed, offs>>

\* "check if slave is the same as configured before", one field of its identity; a
\* read that fails brings 0.
Compare(step, field, next) ==
    /\ pc = step
    /\ \E found \in {0} \cup {type[s][field] : s \in Slave} :
         /\ \/ Arrive /\ found = IF At(TEMPNODE) = {} THEN 0 ELSE type[Heard(TEMPNODE)][field]
            \/ Lose /\ found = 0
         /\ Goto(IF found = type[slave][field] THEN next ELSE "remove")
    /\ UNCHANGED <<dev, slavelist, docheckstate, short, missed, offs>>

CompareAlias == Compare("alias", "alias", "id")
CompareId == Compare("id", "id", "man")
CompareManufacturer == Compare("man", "man", "rev")
CompareRevision == Compare("rev", "rev", "address")

\* The function returns the work counter: EC_NOFRAME is not 0 either.
SetConfigAddress ==
    /\ pc = "address"
    /\ \E returned \in {"wkc", "0"} :
         /\ SetAddress("address", slave)
         /\ returned = "0" <=> At(TEMPNODE) = {} /\ losses' = losses
         /\ IF returned = "wkc" THEN Found ELSE UNCHANGED slavelist
    /\ NextSlave
    /\ UNCHANGED <<docheckstate, short, offs>>

\* "slave is not the expected one, remove config address", or it did not answer.
RemoveAddress ==
    /\ pc = "remove"
    /\ SetAddress("address", NoAddress)
    /\ NextSlave
    /\ UNCHANGED <<slavelist, docheckstate, short, offs>>

--------------------------------------------------------------------------------
Readstate == Start \/ Broadcast \/ ReadEach
Turn == CheckOperational \/ CheckSafeOp \/ CheckOther \/ CheckNone \/ RecheckState \/ CheckLost
Reconfig == \/ ReconfigInit \/ CheckInit \/ ReconfigSM \/ ReconfigPreOp \/ CheckPreOp
            \/ Hook \/ ReconfigSafeOp \/ CheckSafeOpReached \/ ReconfigFMMU
Recover == \/ ReadAddress \/ ClearNode \/ SetTemp
           \/ CompareAlias \/ CompareId \/ CompareManufacturer \/ CompareRevision
           \/ SetConfigAddress \/ RemoveAddress

ecatcheck == Readstate \/ Turn \/ Reconfig \/ Recover

Next == ecatcheck \/ Cycle \/ PowerOff \/ PowerOn \/ Watchdog

Spec == Init /\ [][Next]_vars
\* Both threads run for ever, and power comes back.
FairSpec == Spec /\ WF_vars(ecatcheck) /\ WF_vars(Cycle) /\ WF_vars(PowerOn)

--------------------------------------------------------------------------------
(* Properties. *)

\* Datagrams of ecx_reconfig_slave, of ecx_recover_slave after the position, and all.
Reconfiguring == {"init", "initcheck", "sm", "preop", "preopcheck", "hook", "safeop", "safeopcheck", "fmmu"}
Identifying == {"alias", "id", "man", "rev", "address", "remove"}
Steps == {"sleep", "broadcast", "multi", "check", "statecheck", "lost", "position", "clear", "temp"}
            \cup Reconfiguring \cup Identifying

TypeOK ==
    /\ dev \in [Slave -> Device]
    /\ slavelist \in [Slave -> [al : AlStatus, islost : BOOLEAN]]
    /\ docheckstate \in BOOLEAN /\ short \in BOOLEAN
    /\ pc \in Steps /\ slave \in Slave
    /\ missed \in SUBSET Unchecked
    /\ losses \in 0 .. MaxLoss /\ offs \in 0 .. MaxOff

\* The reads of a recovery cannot tell slave s from slave t in this field, or in any.
AlikeIn(s, t, field) == type[t][field] \in {0, type[s][field]}
Alike(s, t) == \A field \in Field : AlikeIn(s, t, field)

\* A slave only ever gets its own address, or that of a slave that the reads of the
\* recovery cannot tell it from, although recovery finds it by its position and
\* positions shift while slaves are missing, and although slaves are cut off from the
\* master with the temporary address and come back with it: it is enough that before
\* each recovery "clear possible slaves at EC_TEMPNODE" has reached them.
OwnAddresses == \A s, t \in Slave : dev[s].addr = t => Alike(s, t)
AddressIsOwn == "clear" \in missed \/ OwnAddresses

\* The same for slaves that it cannot tell apart.
AlwaysOwn == \A s \in Slave : dev[s].addr \in {NoAddress, TEMPNODE, s}

\* Nobody has the temporary address when recovery gives it, at most one slave has it
\* afterwards, and the fields compared so far are those of the slave looked for.
HasTemp(s) == dev[s].on /\ dev[s].addr = TEMPNODE
Compared == CASE pc = "id" -> {"alias"}
              [] pc = "man" -> {"alias", "id"}
              [] pc = "rev" -> {"alias", "id", "man"}
              [] pc = "address" -> Field
              [] OTHER -> {}
TempIsOne ==
    /\ pc = "temp" => \A s \in Slave : ~HasTemp(s)
    /\ \A s, t \in Slave : HasTemp(s) /\ HasTemp(t) => s = t
    /\ \A s \in Slave : HasTemp(s) => \A field \in Compared : AlikeIn(s, slave, field)

\* A slave that is to be taken down, or will be because of the state that was read of it,
\* is not in OPERATIONAL: only the turn of the loop that is at it can take it there.
Below(shown) == shown.state # "NONE" /\ shown # Al("OPERATIONAL")
Due(s) == /\ pc \notin {"sleep", "broadcast", "multi"}
          /\ s > slave \/ (s = slave /\ pc = "check")
          /\ Below(slavelist[s].al)
InHand(s) == s = slave /\ pc \in Reconfiguring
BeliefHolds ==
    \A s \in Slave : dev[s].addr = s /\ (Due(s) \/ InHand(s)) => dev[s].al # Al("OPERATIONAL")

\* The inductive invariants, for slaves that may be alike and for such that are not.
AddressInv == TypeOK /\ AddressIsOwn /\ ("clear" \in missed \/ TempIsOne)
Distinct == \A s, t \in Slave : Alike(s, t) => s = t
GuardInv == AddressInv /\ ("clear" \in missed \/ BeliefHolds)

\* ecatcheck never takes a slave that exchanges its data out of OPERATIONAL,
\* however stale the states are that it acts on, as long as the temporary address
\* was taken from every slave that had it.
HealthyLeftAlone ==
    [][ecatcheck /\ "clear" \notin missed => \A s \in Slave : Exchanging(s) => Exchanging(s)']_vars

\* The same even so.
AlwaysLeftAlone == [][ecatcheck => \A s \in Slave : Exchanging(s) => Exchanging(s)']_vars

\* What a read at its own address would say of a slave; INIT and PRE_OP together read
\* as BOOT.
Shown(s, shown) == \/ shown = AlOf(s)
                   \/ shown = Al("BOOT") /\ AlOf(s) \in {Al("INIT"), Al("PRE_OP")}

\* The state that ecx_readstate stores for all slaves after a single broadcast is, for
\* every slave that has its station address, the state of that slave: "the slaves have
\* reached the same state so the internal state can be updated without sending any
\* datagram".
StateIsSlaves ==
    [][pc = "broadcast" /\ pc' = "check" =>
        \A s \in Slave : dev[s].addr = s => Shown(s, slavelist'[s].al)]_vars

\* The same of slaves that have no address: their states are stored under numbers at
\* which nobody answers.
StateIsAddressed ==
    [][pc = "broadcast" /\ pc' = "check" =>
        \A s \in Slave : Shown(s, slavelist'[s].al)]_vars

\* After the last loss of power or of a datagram all slaves come to exchange
\* their data again ("OK : all slaves resumed OPERATIONAL"), if every unchecked write
\* reached the slave it was for, and unless all of them have lost their power: then
\* ecx_readstate takes the one state they all answer for that of the configured slaves,
\* and nobody looks for them.
Nameless == \A s \in Slave : dev[s].addr = NoAddress
Restored == <>[](missed # {} \/ Nameless \/ \A s \in Slave : Exchanging(s))

\* The same with neither condition, and with one of them.
AlwaysRestored == <>[](missed # {} \/ \A s \in Slave : Exchanging(s))
RestoredAnyway == <>[](Nameless \/ \A s \in Slave : Exchanging(s))
================================================================================
