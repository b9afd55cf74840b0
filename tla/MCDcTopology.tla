------------------------------ MODULE MCDcTopology ------------------------------
EXTENDS ClockSync
CONSTANT MaxSlaves
MCDelay == [i \in 1 .. 6 |-> 2 ^ (i - 1)]
\* Position of a port in the way of the datagram.
Rank(p) == CHOOSE n \in 1 .. 4 : Order[n] = p
\* Slaves in the order in which the datagram reaches them: the parent of the next one is
\* the last one or one of its ancestors, and its port is behind those of the children
\* that come before it.
RECURSIVE IsAncestor(_, _, _)
IsAncestor(up, a, i) == a = i \/ (i > 0 /\ IsAncestor(up, a, up[i]))
Wirings(n) ==
    {w \in [up : {u \in [1 .. n -> 0 .. n - 1] : u[1] = 0 /\ \A i \in 2 .. n : u[i] \in 1 .. i - 1 /\ IsAncestor(u, u[i], i - 1)},
            port : [1 .. n -> 1 .. 3], dc : [1 .. n -> BOOLEAN]] :
        /\ w.port[1] = 3
        /\ \A i, j \in 1 .. n : i < j /\ w.up[i] = w.up[j] => Rank(w.port[i]) < Rank(w.port[j])}
AllNetworks == UNION {Wirings(n) : n \in 1 .. MaxSlaves}
SplitsHaveClocks(w) == \A i \in DOMAIN w.up : Cardinality({c \in DOMAIN w.up : w.up[c] = i}) > 1 => w.dc[i]
\* In the largest ones every slave has a clock.
SplitNetworks == {w \in AllNetworks : /\ SplitsHaveClocks(w)
                                      /\ Len(w.up) < 5 \/ \A i \in 1 .. 5 : w.dc[i]}
ClockNetworks == {w \in AllNetworks : \A i \in DOMAIN w.dc : w.dc[i]}
AcrossZero == {-10}
AcrossSign == {4090}

\* The motor program's network: one drive, with or without a clock.
OneDrive == Wirings(1)
dcsync(sync1, act, time0, time1, shift) ==
    [sync1 |-> sync1, act |-> act, CyclTime0 |-> time0, CyclTime1 |-> time1, CyclShift |-> shift]
Motor == dcsync(FALSE, TRUE, 900000, 0, 0)
SyncCalls == {Motor, dcsync(FALSE, TRUE, 900000, 0, -450000), dcsync(FALSE, TRUE, 0, 0, 0), dcsync(FALSE, FALSE, 0, 0, 0),
              dcsync(TRUE, TRUE, 900000, 0, 100), dcsync(TRUE, TRUE, 900000, 1800000, 0)}
FarAndNear == {0, 1, 450000, 450001}
UpTo50ppm == {-45, 0, 20}
================================================================================
