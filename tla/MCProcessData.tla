------------------------------ MODULE MCProcessData ------------------------------
(* Networks of two and three slaves: whole bytes, single bits that leave a byte    *)
(* half used or spill over to the next one, sync managers that connect and such    *)
(* that need an FMMU each, a slave that forbids LRW, a slave without process data. *)
EXTENDS ProcessData

SM(start, len) == [start |-> start, len |-> len]
Data(bits, sm) == [bits |-> bits, sm |-> sm]
NoData == Data(0, <<>>)
Config(out, in, blocked) == [out |-> out, in |-> in, blockLRW |-> blocked]

Coupler == Config(NoData, NoData, FALSE)
Drive == Config(Data(16, <<SM(10, 2)>>), Data(24, <<SM(30, 3)>>), FALSE)
Bits5 == Config(Data(5, <<SM(10, 1)>>), Data(6, <<SM(30, 1)>>), FALSE)
Bits3 == Config(Data(3, <<SM(10, 1)>>), NoData, FALSE)
Apart == Config(Data(16, <<SM(10, 1), SM(20, 1)>>), Data(12, <<SM(30, 1), SM(40, 1)>>), FALSE)
Joined == Config(NoData, Data(24, <<SM(30, 1), SM(31, 2)>>), FALSE)
Blocked == Config(Data(8, <<SM(10, 1)>>), Data(24, <<SM(30, 1), SM(31, 2)>>), TRUE)
Valves == Config(Data(16, <<SM(10, 2)>>), NoData, FALSE)
ThreeApart == Config(Data(24, <<SM(10, 1), SM(20, 1), SM(30, 1)>>), NoData, FALSE)

Lines(length, kinds) == [1 .. length -> kinds]
Sequential(lines) == {[slaves |-> l, overlap |-> FALSE] : l \in lines}
Overlapping(lines) == {[slaves |-> l, overlap |-> TRUE] : l \in lines}

AnyNetwork ==
    Sequential(Lines(2, {Coupler, Drive, Bits5, Apart, Blocked}))
        \cup Sequential({<<Bits5, Bits3, Bits3>>, <<Bits3, Joined>>, <<Valves, Bits3>>})
        \cup Overlapping({<<Drive, Bits5>>, <<Bits5, Apart>>, <<Joined, Drive>>,
                          <<Coupler, Bits5>>})
ThreeSyncManagers == Sequential({<<Drive, ThreeApart>>})
MoreOutputs == Overlapping({<<Drive, Valves>>})
OverlapBlocked == Overlapping({<<Coupler, Blocked>>})
SplitBits == Sequential({<<Bits5, Bits5>>})
================================================================================
