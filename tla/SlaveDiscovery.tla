------------------------------- MODULE SlaveDiscovery ------------------------------
(***************************************************************************)
(* How ecx_config_init (ethercatconfig.c) counts the slaves and takes them *)
(* back from an earlier session, gives them their addresses, reads their   *)
(* EEPROMs, sets up their mailboxes and requests PRE_OP, and the reads and *)
(* writes of a program afterwards.                                         *)
(*                                                                         *)
(* The fields of the header are read from all slaves in parallel: a field  *)
(* is requested from every slave, and when a slave's answer is collected   *)
(* the next one is requested from it.  The agenda is this sequence; a step *)
(* on the read mailbox or the protocols is left out for a slave without    *)
(* mailbox.  The SII is walked unless an earlier slave is of the same kind.*)
(* Of the broadcasts those are modelled that undo what the slaves have     *)
(* kept; the others reset registers nobody here looks at.  A station       *)
(* address is the number of the slave; a mailbox is where its sync manager *)
(* 0 is.                                                                   *)
(***************************************************************************)
EXTENDS Sii, SequencesExt

CONSTANTS Targets, \* slaves and cells the program reads and writes
          NewWord, \* what it writes
          EC_DEFAULTMBXSM0, \* the mailbox of a slave that has none in its configuration
          MaxCalls \* bound on its calls

ASSUME DiscoveryAssumption == Targets \subseteq Slave \X Nat /\ NewWord \in Nat /\ MaxCalls \in Nat
                             /\ EC_DEFAULTMBXSM0 \in Nat

VARIABLES slavecount,
          at,      \* step of the agenda
          begun,   \* the operation of this step has been started
          field,   \* eep_man, eep_id, eep_rev, mbx_l, mbx_rl, mbx_proto of every slave
          SM0,     \* slavelist[slave].SM[0]
          call,    \* the call of the program, with what it has returned
          calls

agendaVars == <<slavecount, at, begun, field, SM0>>
callVars == <<call, calls>>
vars == <<eepromVars, siiVars, agendaVars, callVars>>

Header == <<"eep_man", "eep_id", "eep_rev", "mbx_l", "mbx_rl", "mbx_proto">>
AddressOf(f) == (CHOOSE i \in DOMAIN Header : Header[i] = f) - 1

Step(op, s, f) == [op |-> op, slave |-> s, field |-> f]
Request(s, f) == Step("readeeprom1", s, f)
Collect(s, f) == Step("readeeprom2", s, f)
\* Mutant: the next field is requested before this one is collected.
Round_TooEarly(s, i) == <<Request(s, Header[i + 1]), Collect(s, Header[i])>>
Round(s, i) == <<Collect(s, Header[i]), Request(s, Header[i + 1])>>
\* ecx_detect_slaves and ecx_set_slaves_to_default
All(op) == Step(op, 1, "none")
detect_slaves == <<All("init"), All("init"), All("count")>>
set_slaves_to_default == <<All("smreset"), All("init"), All("force"), All("take")>>
FirstRound(s) == <<Step("stadr", s, "none"), Step("confirm", s, "none"), Step("estat", s, "none"), Request(s, "eep_man")>>
\* Mutant: PRE_OP is requested before the slave can read its EEPROM.
LastSteps_PreOpFirst(s) == <<Step("sm", s, "mailbox"), Step("preop", s, "none"), Step("eeprom2pdi", s, "none")>>
LastSteps(s) == <<Step("sm", s, "mailbox"), Step("eeprom2pdi", s, "none"), Step("preop", s, "none")>>
LastRound(s) == Round(s, 5) \o <<Collect(s, "mbx_proto"), Step("sii", s, "none")>> \o LastSteps(s)
Agenda ==
    detect_slaves \o set_slaves_to_default
    \o FlattenSeq([s \in Slave |-> FirstRound(s)])
    \o FlattenSeq([i \in 1 .. 4 |-> FlattenSeq([s \in Slave |-> Round(s, i)])])
    \o FlattenSeq([s \in Slave |-> LastRound(s)])
Discovering == at <= Len(Agenda)
Now == Agenda[at]

NoCall == [op |-> "none", pending |-> FALSE]

\* ecx_init_context
Init ==
    /\ EepromInit /\ SiiInit
    /\ slavecount = 0
    /\ at = 1
    /\ begun = FALSE
    /\ field = [s \in Slave |-> [f \in Range(Header) |-> 0]]
    /\ SM0 = [s \in Slave |-> 0]
    /\ call = NoCall
    /\ calls = 0

--------------------------------------------------------------------------------
(* ecx_config_init. *)

Free == Quiet /\ walk = NoWalk
NextStep == at' = at + 1 /\ begun' = FALSE

\* With no slave at all config_init returns after the count.
Skipped == \/ at > Len(detect_slaves) /\ Now.slave > slavecount
           \/ Now.field \in {"mbx_rl", "mbx_proto", "mailbox"} /\ field[Now.slave].mbx_l = 0
Skip == Discovering /\ Skipped /\ NextStep /\ UNCHANGED <<eepromVars, siiVars, slavecount, field, SM0, callVars>>

\* "should never happen": a slave with a mailbox that is nowhere.
Mailbox(s) == IF SM0[s] = 0 THEN EC_DEFAULTMBXSM0 ELSE SM0[s]

ValueOf(op, s) ==
    CASE op = "stadr" -> s
      [] op = "sm" -> Mailbox(s)
      [] OTHER -> 0

Begin ==
    /\ Discovering /\ ~Skipped /\ ~begun /\ Free
    /\ Now.op # "sii"
    /\ Start(Now.op, Now.slave, IF Now.field \in Range(Header) THEN AddressOf(Now.field) ELSE 0, ValueOf(Now.op, Now.slave))
    /\ begun' = TRUE
    /\ SM0' = IF Now.op = "sm" THEN [SM0 EXCEPT ![Now.slave] = Mailbox(Now.slave)] ELSE SM0
    /\ UNCHANGED <<siiVars, slavecount, at, field, callVars>>

\* A read mailbox of length 0 is as long as the other one.
Learnt(s, f, value) ==
    IF f = "mbx_rl" /\ value = 0 THEN field[s].mbx_l ELSE value

\* The section of the sync managers says where the mailbox is, if there is one; else the
\* header does.
SMSection == CHOOSE k \in DOMAIN Wanted : Wanted[k] = 41

Finish ==
    /\ Discovering /\ begun /\ Free
    /\ field' = IF Now.op = "readeeprom2"
                THEN [field EXCEPT ![Now.slave][Now.field] = Learnt(Now.slave, Now.field, Head(answer))]
                ELSE field
    /\ SM0' = IF Now.field = "mbx_proto" /\ Now.op = "readeeprom2" THEN [SM0 EXCEPT ![Now.slave] = field[Now.slave].mbx_l]
              ELSE IF Now.op = "sii" /\ section[Now.slave][SMSection] # Missing
              THEN [SM0 EXCEPT ![Now.slave] = section[Now.slave][SMSection]]
              ELSE SM0
    /\ slavecount' = IF Now.op = "count" THEN Head(answer) ELSE slavecount
    /\ NextStep
    /\ UNCHANGED <<eepromVars, siiVars, callVars>>

\* ecx_lookup_prev_sii: the same manufacturer, product and revision.
Kind(s) == [f \in {"eep_man", "eep_id", "eep_rev"} |-> field[s][f]]
SameKind(s) == {i \in 1 .. s - 1 : Kind(i) = Kind(s)}

CopySii ==
    /\ Discovering /\ ~Skipped /\ ~begun /\ Free
    /\ Now.op = "sii"
    /\ SameKind(Now.slave) # {}
    /\ section' = [section EXCEPT ![Now.slave] = section[Min(SameKind(Now.slave))]]
    /\ SM0' = [SM0 EXCEPT ![Now.slave] = SM0[Min(SameKind(Now.slave))]]
    /\ NextStep
    /\ UNCHANGED <<eepromVars, esislave, esibuf, walk, dumped, slavecount, field, callVars>>

FindSii ==
    /\ Discovering /\ ~Skipped /\ ~begun /\ Free
    /\ Now.op = "sii"
    /\ SameKind(Now.slave) = {}
    /\ StartWalk(Now.slave)
    /\ begun' = TRUE
    /\ UNCHANGED <<slavecount, at, field, SM0, callVars>>

--------------------------------------------------------------------------------
(* A program that uses ecx_readeeprom, ecx_writeeeprom and the functions on sections. *)

Calling == call.pending
Found == {t \in Targets : t[1] <= slavecount}
MayCall == ~Discovering /\ ~Calling /\ calls < MaxCalls
NewCall(op, s, a) ==
    /\ call' = [op |-> op, slave |-> s, addr |-> a, pending |-> TRUE, result |-> 0]
    /\ calls' = calls + 1

\* ecx_readeepromAP and ecx_writeeepromAP leave the control to their caller: a program has
\* called ecx_eeprom2master before, which is their first part here.
Access(op, s, a) ==
    /\ MayCall
    /\ Start(op, s, a, NewWord)
    /\ NewCall(op, s, a)
    /\ UNCHANGED <<siiVars, agendaVars>>

Search(s) ==
    /\ MayCall
    /\ StartWalk(s)
    /\ NewCall("sii", s, 0)
    /\ UNCHANGED agendaVars

Dump(s) ==
    /\ MayCall
    /\ StartDump(s)
    /\ NewCall("dump", s, SiiStart)
    /\ UNCHANGED agendaVars

CallEnds ==
    /\ Calling /\ Free
    /\ call' = [call EXCEPT !.pending = FALSE, !.result = IF call.op \in {"sii", "dump"} THEN 1 ELSE Head(answer)]
    /\ UNCHANGED <<eepromVars, siiVars, agendaVars, calls>>

ConfigInit == Skip \/ Begin \/ Finish \/ CopySii \/ FindSii
Program ==
    \/ \E t \in Found, op \in {"read", "write", "readAP", "writeAP"} : Access(op, t[1], t[2])
    \/ \E t \in Found : Search(t[1]) \/ Dump(t[1])
    \/ CallEnds

SiiWalk == Walk /\ UNCHANGED <<agendaVars, callVars>>
Below == UNCHANGED <<siiVars, agendaVars, callVars>>
Next ==
    \/ ConfigInit
    \/ Program
    \/ SiiWalk
    \/ (Master \/ SlaveActs) /\ Below

Spec == Init /\ [][Next]_vars

\* The master goes on; an EEPROM gets done.
FairSpec ==
    /\ Spec
    /\ WF_vars(ConfigInit \/ CallEnds \/ SiiWalk)
    /\ WF_vars((Answered \/ Unanswered \/ Poll \/ PollsUnanswered) /\ Below)
    /\ \A s \in Slave : WF_vars(Perform(s) /\ Below)

--------------------------------------------------------------------------------
Healthy(s, spared) == happened[s] \cap (spared \cup {"cut", "slow", "gone"}) = {}
\* The slave has its number for an address, and it alone.
Known(s) == slavelist[s].configadr = s /\ {i \in Slave : dev[i].station = s} = {s}
\* It is where it was.
InPlace(s) == \A i \in 1 .. s : ~Gone(i)
Own(s) ==
    LET raw == [f \in Range(Header) |-> Cell(content[s], AddressOf(f))]
    IN CASE raw.mbx_l = 0 -> [raw EXCEPT !.mbx_rl = 0, !.mbx_proto = 0]
         [] raw.mbx_l # 0 /\ raw.mbx_rl = 0 -> [raw EXCEPT !.mbx_rl = raw.mbx_l]
         [] OTHER -> raw

TypeOK ==
    /\ EepromTypeOK /\ SiiTypeOK
    /\ slavecount \in 0 .. N
    /\ at \in 1 .. Len(Agenda) + 1
    /\ begun \in BOOLEAN
    /\ field \in [Slave -> [Range(Header) -> Nat]]
    /\ SM0 \in [Slave -> Nat]
    /\ call = NoCall \/ call \in [op : {"read", "write", "readAP", "writeAP", "sii", "dump"}, slave : Slave, addr : Nat,
                                  pending : BOOLEAN, result : Nat]
    /\ calls \in 0 .. MaxCalls

\* The slaves get their addresses one by one, and the discovery reads one field of all of
\* them at a time through registers that keep what was read before, and takes the sections
\* over from a slave of the same kind: in the end every slave has its own fields and
\* sections, whatever single frames were lost and whatever the slaves have kept from an
\* earlier session.  A slave is excepted that did not acknowledge a read (ecx_readeeprom2
\* does not look at it), was too slow or cut off, or shares its address, because a slave
\* disappeared while they were given; and for its sections so is every slave after it.
FoundIsOwn ==
    ~Discovering => \A s \in Slave : Known(s) =>
        /\ Healthy(s, {"nack"}) => field[s] = Own(s)
        /\ (\A i \in 1 .. s : Healthy(i, {})) => \A k \in DOMAIN Wanted :
              section[s][k] \in {FirstWord(rom, Wanted[k]) : rom \in {content[s], dev[s].rom}}

\* The mailbox is set up from the header, from a section or from an earlier slave, before
\* the slave gets its EEPROM back, and only then PRE_OP is requested: every slave reaches
\* it, unless something happened to it or to one before it.
ReachesPreOp ==
    ~Discovering => \A s \in Slave :
        (\A i \in 1 .. s : Healthy(i, {"nack"})) => dev[s].state = "PRE_OP"

\* ecx_readeeprom, ecx_readeepromAP and ecx_esidump return the content of the cells,
\* ecx_writeeeprom and ecx_writeeepromAP return 1 only if the cell has the new content, after
\* lost frames and up to two refused commands, too.  A slave that moved up in the line is
\* another one for AP.
AnswersAreTrue ==
    /\ call # NoCall /\ ~Calling
    /\ Healthy(call.slave, {}) /\ Known(call.slave)
    /\ call.op \in {"readAP", "writeAP"} => InPlace(call.slave)
    => LET now(a) == Cell(dev[call.slave].rom, a)
       IN CASE call.op \in {"read", "readAP"} -> call.result = now(call.addr)
            [] call.op \in {"write", "writeAP"} -> call.result = 1 /\ now(call.addr) = NewWord
            [] call.op = "dump" -> dumped = [i \in 1 .. Len(dumped) |-> now(SiiStart + i - 1)] /\ Len(dumped) > 2
            [] OTHER -> TRUE

\* Between two operations eep_pdi says who controls the EEPROM of the slave, unless all sends
\* of a datagram were lost: the flag is what ecx_eeprom2master and ecx_eeprom2pdi decide by.
FlagIsControl ==
    Free /\ ~begun => \A s \in Slave :
        happened[s] \cap {"cut", "gone"} = {} /\ Known(s)
            => (dev[s].ctl = IF slavelist[s].eep_pdi THEN "pdi" ELSE "master")

\* The discovery ends and every call returns, as long as no slave disappears.
EveryCallReturns ==
    []<>((~Discovering /\ ~Calling) \/ \E s \in Slave : Gone(s))
EveryCallReturnsAnyway == []<>(~Discovering /\ ~Calling)

\* Sections do not depend on what happened to other slaves.
SectionsAreOwn ==
    ~Discovering => \A s \in Slave : Healthy(s, {"nack"}) => \A k \in DOMAIN Wanted :
        section[s][k] \in {FirstWord(rom, Wanted[k]) : rom \in {content[s], dev[s].rom}}
================================================================================
