----------------------------- MODULE MCFindMappings -----------------------------
(* Devices with five sync managers: a drive with CoE and the same with Complete     *)
(* Access, two that number or leave out the types wrongly, one with CoE but without *)
(* the objects, one with two output sync managers that reports more than the master   *)
(* can hold, servo drives with SoE, valves without a mailbox, a coupler.            *)
EXTENDS StartUp

Fn(a, b, c, d, e) == [n \in SM |-> <<a, b, c, d, e>>[n + 1]]
None == Fn(0, 0, 0, 0, 0)
NoSii == [in |-> <<>>, out |-> <<>>]
Default(len, type) == [start |-> [n \in SM |-> len[n] > 0], len |-> len, type |-> type,
                       on |-> [n \in SM |-> n < 4]]

DriveData == Fn(<<>>, <<>>, <<<<16>>, <<8, 8>>>>, <<<<8, 16>>>>, <<>>)
Drive(id, ca, types, pdos) ==
    [id |-> id, mailbox |-> TRUE, coe |-> TRUE, ca |-> ca, types |-> types,
     sm |-> Default(Fn(64, 64, 2, 6, 0), Fn(1, 2, 3, 4, 0)),
     dir |-> Fn(0, 0, 3, 4, 0), pdos |-> pdos, sii |-> NoSii, drives |-> <<>>, objects |-> {}]

Epos == Drive("Epos", FALSE, <<1, 2, 3, 4>>, DriveData)
EposCA == Drive("EposCA", TRUE, <<1, 2, 3, 4>>, DriveData)
FromZero == Drive("FromZero", TRUE, <<0, 1, 2, 3>>, DriveData)
NoTypes == Drive("NoTypes", TRUE, <<0, 0, 0, 0>>, DriveData)
ReadOnly == Drive("ReadOnly", TRUE, <<1, 2, 3, 4, 0>>, Fn(<<>>, <<>>, <<>>, <<<<1, 1, 1>>>>, <<>>))
NoObjects == [Drive("NoObjects", TRUE, <<>>, DriveData) EXCEPT
    !.sii = [in |-> <<[sm |-> 3, bits |-> <<8, 16>>]>>,
             out |-> <<[sm |-> 2, bits |-> <<16>>], [sm |-> 9, bits |-> <<32>>], [sm |-> 2, bits |-> <<8, 8>>]>>]]
TwoOutputs == [Drive("TwoOutputs", FALSE, <<1, 2, 3, 4, 3, 0>>,
                     Fn(<<>>, <<>>, <<<<16>>>>, <<<<4, 4>>>>, <<<<1, 2>>>>))
               EXCEPT !.dir = Fn(0, 0, 3, 4, 3), !.sm = Default(Fn(64, 64, 2, 1, 1), Fn(1, 2, 3, 4, 0))]
Valves == [id |-> "Valves", mailbox |-> FALSE, coe |-> FALSE, ca |-> FALSE, types |-> <<>>,
           sm |-> Default(Fn(1, 2, 0, 0, 0), None), dir |-> Fn(3, 4, 0, 0, 0),
           pdos |-> Fn(<<<<1, 1, 1>>>>, <<<<8>>, <<2>>>>, <<>>, <<>>, <<>>),
           sii |-> [in |-> <<[sm |-> 1, bits |-> <<8>>], [sm |-> 1, bits |-> <<2>>]>>,
                    out |-> <<[sm |-> 0, bits |-> <<1, 1, 1>>]>>],
           drives |-> <<>>, objects |-> {}]
Coupler == [Valves EXCEPT !.id = "Coupler", !.sm = Default(None, None), !.dir = None,
                          !.pdos = Fn(<<>>, <<>>, <<>>, <<>>, <<>>), !.sii = NoSii]

\* The drive of the motor program: its hook writes both PDOs, which differ from those it
\* is switched on with.
AsDelivered ==
    [i \in {"1600", "1A00", "1C12", "1C13"} |->
       CASE i = "1600" -> [count |-> 2, of |-> <<E("control_word", 16), E("target_position", 32)>>]
         [] i = "1A00" -> [count |-> 2, of |-> <<E("status_word", 16), E("position_actual_value", 32)>>]
         [] i = "1C12" -> [count |-> 1, of |-> <<"1600">>]
         [] i = "1C13" -> [count |-> 1, of |-> <<"1A00">>]]
Epos4(ca) == [Drive("Epos4", ca, <<1, 2, 3, 4>>, Fn(<<>>, <<>>, <<<<16, 32>>>>, <<<<16, 32>>>>, <<>>)) EXCEPT
                !.objects = {AsDelivered}]

\* Two drives: a velocity and a list in one telegram, a position in the other; the
\* second takes nothing.  Its CoE, if it has any, knows no objects.
Servo(id, coe) ==
    [Drive(id, FALSE, <<>>, Fn(<<>>, <<>>, <<<<16, 32>>>>, <<<<16, 16>>, <<16, 8>>>>, <<>>)) EXCEPT
       !.coe = coe,
       !.drives = <<[mdt |-> <<32, 0>>, at |-> <<16>>], [mdt |-> <<>>, at |-> <<8>>]>>]

Kinds == {Servo("Servo", FALSE), Servo("ServoCoE", TRUE), Epos, EposCA, FromZero, NoTypes, ReadOnly, NoObjects, TwoOutputs, Valves, Coupler}
Pairs == {<<a, b>> : a, b \in Kinds}
Programmed == {<<Epos4(FALSE)>>, <<Epos4(TRUE)>>, <<Epos4(FALSE), Epos>>, <<Epos4(FALSE), Valves>>}
PairsAndProgrammed == Pairs \cup Programmed

\* A slave of the same kind whose program took all assignments away.
Emptied == {<<Epos, [Epos EXCEPT !.pdos = Fn(<<>>, <<>>, <<>>, <<>>, <<>>)]>>}
\* One whose types lack that of the inputs.
HalfTypes == {<<Drive("HalfTypes", ca, <<1, 2, 3, 0>>, DriveData)>> : ca \in BOOLEAN}
\* One that leaves a sync manager unused which the EEPROM gives a length.
Spare == {<<[Drive("Spare", FALSE, <<1, 2, 3, 4, 0>>, DriveData) EXCEPT
              !.sm = Default(Fn(64, 64, 2, 6, 2), Fn(1, 2, 3, 4, 0))]>>}
================================================================================
