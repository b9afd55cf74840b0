------------------------------ MODULE MCSlaveGuard ------------------------------
(* Three slaves on branches of their own, one behind another or in a line. Of the *)
(* Different ones two are told apart by their alias only, and the third one has    *)
(* fields that read 0; Twins are equal, and of Unnamed ones one has no alias.      *)
EXTENDS SlaveGuard

Branches == [s \in Slave |-> {}]
Fork == [s \in Slave |-> IF s = 3 THEN {1} ELSE {}]
Line == [s \in Slave |-> 1 .. s - 1]

Identity(alias, id, rev) ==
    [field \in Field |-> CASE field = "alias" -> alias [] field = "id" -> id
                           [] field = "man" -> 1 [] field = "rev" -> rev]
Different == [s \in Slave |-> IF s = 3 THEN Identity(0, 2, 0) ELSE Identity(s, 1, 1)]
Twins == [s \in Slave |-> Identity(0, 1, 1)]
Unnamed == [s \in Slave |-> Identity(s - 1, 1, 1)]
================================================================================
