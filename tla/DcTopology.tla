-------------------------------- MODULE DcTopology ------------------------------
(***************************************************************************)
(* The master finds out how the slaves are wired: the parent of every      *)
(* slave from the open ports (ecx_config_init, ethercatconfig.c), then the *)
(* propagation delays from the times at which one datagram passed the      *)
(* ports (ecx_configdc, ethercatdc.c).                                     *)
(*                                                                         *)
(* A datagram enters a slave at port 0, leaves and comes back through the  *)
(* ports 3, 1 and 2 that are open, and leaves through port 0; slaves are   *)
(* numbered in the order in which it reaches them.  Nothing else uses the  *)
(* network meanwhile, so the datagrams for one slave are one action.       *)
(***************************************************************************)
EXTENDS Integers, Sequences, FiniteSets, SequencesExt

CONSTANTS Networks,   \* wirings of the slaves
          Delay,      \* Delay[i] is the time on the cable to slave i
          Starts,     \* times at which the datagram may reach the first slave
          Half,       \* times are counted from -Half to Half - 1
          MaxLoss     \* bound: lost datagrams

Port == 0 .. 3
\* The order of ports in a slave: "0 - 3 - 1 -2".
Order == <<0, 3, 1, 2>>

\* A network says for slaves 1 .. n to which slave (0: the master) and port each is
\* connected, and which of them have a clock.
Slaves(net) == DOMAIN net.up
Children(net, i) == {c \in Slaves(net) : net.up[c] = i}
OpenPorts(net, i) == {0} \cup {net.port[c] : c \in Children(net, i)}

ASSUME DcAssumption ==
    /\ \A net \in Networks : \A i \in Slaves(net) :
         /\ net.up[i] \in 0 .. i - 1 /\ net.port[i] \in Port \ {0} /\ net.dc[i] \in BOOLEAN
    /\ Starts \subseteq Int /\ Half \in Nat /\ MaxLoss \in Nat

VARIABLES net, start,  \* the wiring, and when the datagram arrives
          slavelist,   \* slavelist[i] of ecx_context
          pc, slave,   \* where the master is, and at which slave
          parenthold, prevDCslave,
          ht,          \* the last time that was read
          latched,     \* the slaves have latched the times
          delays,      \* the delay each slave was given
          losses
vars == <<net, start, slavelist, pc, slave, parenthold, prevDCslave, ht, latched, delays, losses>>

slavecount == Cardinality(Slaves(net))

Unknown == [topology |-> 0, activeports |-> {}, consumedports |-> {}, hasdc |-> FALSE, parent |-> 0,
            DCrt |-> [p \in Port |-> 0], entryport |-> 0, parentport |-> 0, pdelay |-> 0,
            DCnext |-> 0, DCprevious |-> 0]

Init == /\ net \in Networks
        /\ start \in Starts
        /\ slavelist = [i \in 0 .. slavecount |-> Unknown]
        /\ pc = "discover" /\ slave = 1
        /\ parenthold = 0 /\ prevDCslave = 0
        /\ ht = 0 /\ latched = FALSE
        /\ delays = [i \in 1 .. slavecount |-> 0]
        /\ losses = 0

Lose == losses < MaxLoss /\ losses' = losses + 1
Arrive == UNCHANGED losses

--------------------------------------------------------------------------------
(* The datagram (external). *)

\* Time from entering slave i to leaving it, and for the way to a child and back.
Round[i \in Slaves(net)] == FoldSet(LAMBDA c, t : t + 2 * Delay[c] + Round[c], 0, Children(net, i))
Trip(c) == 2 * Delay[c] + Round[c]

Before(c) == {b \in Children(net, net.up[c]) : b < c}
TripsOf(C) == FoldSet(LAMBDA c, t : t + Trip(c), 0, C)

\* When it reaches a slave, counted from the first one.
Arrival[i \in Slaves(net)] ==
    IF net.up[i] = 0 THEN 0 ELSE Arrival[net.up[i]] + TripsOf(Before(i)) + Delay[i]

\* Times are 32 bit numbers with a sign.
Int32(t) == ((t + Half) % (2 * Half)) - Half
\* The time latched at a port: when the datagram arrived there, from either side.
Latched(i, p) ==
    IF p \notin OpenPorts(net, i) \/ ~latched THEN 0
    ELSE Int32(start + Arrival[i] + TripsOf({c \in Children(net, i) :
                  p # 0 /\ c <= CHOOSE d \in Children(net, i) : net.port[d] = p}))

--------------------------------------------------------------------------------
(* ecx_config_init *)

\* Mutant: a split does not count.
SearchParentNoSplit(list, i) ==
    IF i = 1 THEN 0 ELSE CHOOSE s \in 1 .. i - 1 : (s = 1 \/ list[s].topology > 1)
                           /\ \A t \in s + 1 .. i - 1 : list[t].topology <= 1

\* "search for parent" in the slaves before: lines that end are skipped together with
\* the split they belong to.
SearchParent(list, i) ==
    LET Weight(s) == CASE list[s].topology = 1 -> -1 [] list[s].topology = 3 -> 1
                       [] list[s].topology = 4 -> 2 [] OTHER -> 0
        topoc[s \in 1 .. i - 1] == Weight(s) + (IF s = i - 1 THEN 0 ELSE topoc[s + 1])
        Found(s) == s = 1 \/ (topoc[s] >= 0 /\ list[s].topology > 1)
    IN IF i = 1 THEN 0
       ELSE CHOOSE s \in 1 .. i - 1 : Found(s) /\ \A t \in s + 1 .. i - 1 : ~Found(t)

\* A register that is not read counts as 0.
Discover ==
    /\ pc = "discover"
    /\ \E dc \in {net.dc[slave], FALSE}, ports \in {OpenPorts(net, slave), {}} :
         /\ IF dc = net.dc[slave] /\ ports # {} THEN Arrive ELSE Lose
         /\ LET found == [slavelist EXCEPT ![slave].hasdc = dc, ![slave].activeports = ports,
                                           ![slave].topology = Cardinality(ports)]
            IN slavelist' = [found EXCEPT ![slave].parent = SearchParent(found, slave)]
    /\ IF slave = slavecount THEN pc' = "latch" /\ slave' = 1 ELSE slave' = slave + 1 /\ UNCHANGED pc
    /\ UNCHANGED <<net, start, parenthold, prevDCslave, ht, latched, delays>>

--------------------------------------------------------------------------------
(* ecx_configdc *)

\* "latch DCrecvTimeA of all slaves"
Latch ==
    /\ pc = "latch"
    /\ pc' = "delay"
    /\ latched' \in BOOLEAN
    /\ IF latched' THEN Arrive ELSE Lose
    /\ UNCHANGED <<net, start, slavelist, slave, parenthold, prevDCslave, ht, delays>>

\* Times of the ports, in the order they are read; the time of a port whose datagram is
\* lost is the one that was read last.
ReadTimes(lost) ==
    LET T[p \in -1 .. 3] == IF p = -1 THEN ht ELSE IF p \in lost THEN T[p - 1] ELSE Latched(slave, p)
    IN [p \in Port |-> T[p]]

\* A port number may also be one that is no port.
Garbage == 4
ecx_porttime(s, port) == IF port = Garbage THEN 0 ELSE s.DCrt[port]

\* "calculate previous active port of a slave"
ecx_prevport(s, port) ==
    LET order == CASE port = 0 -> <<2, 1, 3>> [] port = 1 -> <<3, 0, 2>>
                   [] port = 2 -> <<1, 3, 0>> [] port = 3 -> <<0, 2, 1>> [] OTHER -> <<>>
        open == SelectSeq(order, LAMBDA p : p \in s.activeports)
    IN IF open = <<>> THEN port ELSE Head(open)

\* Mutant: another search order.
ParentPortInOrder(s) == IF s.consumedports = {} THEN 0
                        ELSE CHOOSE p \in s.consumedports : \A q \in s.consumedports : p <= q

\* "search order is important, here 3 - 1 - 2 - 0"
ecx_parentport(s) ==
    LET left == SelectSeq(<<3, 1, 2, 0>>, LAMBDA p : p \in s.consumedports)
    IN IF left = <<>> THEN 0 ELSE Head(left)
Consume(s) == [s EXCEPT !.consumedports = @ \ {ecx_parentport(s)}]

\* "entryport is port with the lowest timestamp", the first such in the order of plist;
\* without an open port plist is not initialised.
EntryPorts(s) ==
    LET plist == SelectSeq(Order, LAMBDA p : p \in s.activeports)
        Lowest(n) == \A m \in DOMAIN plist : IF m < n THEN s.DCrt[plist[n]] < s.DCrt[plist[m]]
                                                      ELSE s.DCrt[plist[n]] <= s.DCrt[plist[m]]
    IN IF plist = <<>> THEN Port \cup {Garbage} ELSE {plist[n] : n \in {k \in DOMAIN plist : Lowest(k)}}

\* Division of C: towards 0.
Halve(t) == IF t >= 0 THEN t \div 2 ELSE -((-t) \div 2)

Minus(a, b) == Int32(a - b)
Negative(t) == Int32(-t)

\* "calculate current slave delay from delta times" for i with clock parent p, reached
\* through the child of p.
Propagation(s, p, child, parentnr) ==
    LET prev == ecx_porttime(p, ecx_prevport(p, s.parentport))
        dt3 == Minus(ecx_porttime(p, s.parentport), prev)
        span == IF s.topology > 1 THEN Minus(ecx_porttime(s, ecx_prevport(s, s.entryport)), ecx_porttime(s, s.entryport)) ELSE 0
        dt1 == IF span > dt3 THEN Negative(span) ELSE span
        past == IF child - parentnr > 1 THEN Minus(prev, ecx_porttime(p, p.entryport)) ELSE 0
        dt2 == IF past < 0 THEN Negative(past) ELSE past
    IN Int32(Halve(Minus(dt3, dt1)) + dt2 + p.pdelay)

\* "finding DC parent of current": the chain of parents up to one with a clock.
ClockParent(list, i) ==
    LET Climb[s \in 0 .. slavecount] ==
          IF list[s].parent = 0 \/ list[list[s].parent].hasdc
            THEN [parent |-> list[s].parent, child |-> s]
            ELSE Climb[list[s].parent]
    IN Climb[i]

NextSlave == IF slave = slavecount THEN pc' = "done" /\ UNCHANGED slave ELSE slave' = slave + 1 /\ UNCHANGED pc

\* The delay of a clock, read without the ports lost and perhaps written to it.
FindDelay(lost, written) ==
    LET timed == [slavelist[slave] EXCEPT !.DCrt = ReadTimes(lost), !.DCprevious = prevDCslave]
    IN \E entry \in EntryPorts(timed) :
         LET entered == [timed EXCEPT !.entryport = entry, !.consumedports = timed.activeports \ {entry}]
             listed == [slavelist EXCEPT ![slave] = entered, ![prevDCslave].DCnext = slave, ![0].hasdc = TRUE]
             up == ClockParent(listed, slave)
             p == listed[up.parent]
             placed == [entered EXCEPT !.parentport = IF p.topology = 1 THEN p.entryport ELSE ecx_parentport(p)]
             pdelay == Propagation(placed, p, up.child, up.parent)
         IN IF up.parent = 0
              THEN slavelist' = listed /\ ht' = timed.DCrt[3] /\ UNCHANGED delays
              ELSE /\ slavelist' = [listed EXCEPT ![slave] = [placed EXCEPT !.pdelay = pdelay],
                                                  ![up.parent] = Consume(p)]
                   /\ ht' = pdelay
                   /\ delays' = IF written THEN [delays EXCEPT ![slave] = pdelay] ELSE delays

DelayOfClock ==
    /\ pc = "delay" /\ slavelist[slave].hasdc
    /\ \E lost \in {{}} \cup {{p} : p \in Port}, written \in BOOLEAN :
         /\ IF lost = {} /\ written THEN Arrive ELSE Lose
         /\ FindDelay(lost, written)
    /\ parenthold' = 0
    /\ prevDCslave' = slave
    /\ NextSlave
    /\ UNCHANGED <<net, start, latched>>

\* "if branch has no DC slaves consume port on root parent"
HoldRootParent ==
    /\ pc = "delay" /\ ~slavelist[slave].hasdc
    /\ LET s == slavelist[slave]
           hold == IF s.parent > 0 /\ slavelist[s.parent].topology > 2 THEN s.parent ELSE parenthold
           opened == [slavelist EXCEPT ![slave].consumedports = s.activeports,
                                       ![slave].DCrt = [p \in Port |-> 0]]
       IN IF hold # 0 /\ s.topology = 1
            THEN /\ slavelist' = [opened EXCEPT ![hold] = Consume(@)]
                 /\ parenthold' = 0
            ELSE slavelist' = opened /\ parenthold' = hold
    /\ NextSlave
    /\ UNCHANGED <<net, start, prevDCslave, ht, latched, delays, losses>>

Done == pc = "done" /\ UNCHANGED vars

Next == Discover \/ Latch \/ DelayOfClock \/ HoldRootParent \/ Done
Spec == Init /\ [][Next]_vars

--------------------------------------------------------------------------------
TypeOK ==
    /\ \A i \in 0 .. slavecount :
         LET s == slavelist[i]
         IN /\ s.topology = Cardinality(s.activeports)
            /\ s.activeports \subseteq Port /\ s.consumedports \subseteq s.activeports
            /\ s.parent \in 0 .. (IF i = 0 THEN 0 ELSE i - 1)
            /\ s.entryport \in Port \cup {Garbage} /\ s.parentport \in Port \cup {Garbage}
            /\ s.pdelay \in -Half .. Half - 1 /\ s.DCrt \in [Port -> -Half .. Half - 1]
            /\ s.hasdc \in BOOLEAN /\ {s.DCnext, s.DCprevious} \subseteq 0 .. slavecount
    /\ pc \in {"discover", "latch", "delay", "done"}
    /\ slave \in 1 .. slavecount /\ {parenthold, prevDCslave} \subseteq 0 .. slavecount
    /\ ht \in -Half .. Half - 1 /\ latched \in BOOLEAN /\ losses \in 0 .. MaxLoss

Undisturbed == pc = "done" /\ losses = 0

\* The parent found from the numbers of open ports is the slave this one is wired to.
ParentIsReal == Undisturbed => \A i \in Slaves(net) : slavelist[i].parent = net.up[i]

Clocks == {i \in Slaves(net) : net.dc[i]}
\* The slaves on the way from the master to slave i.
Way[i \in Slaves(net)] == {i} \cup (IF net.up[i] = 0 THEN {} ELSE Way[net.up[i]])
FirstClock(i) == CHOOSE c \in Way[i] \cap Clocks : \A d \in Way[i] \cap Clocks : c <= d

\* The delay of a clock is the time a datagram takes to it from the first clock on its
\* way, and the clock is told so.
DelayIsReal ==
    Undisturbed => \A i \in Clocks : /\ slavelist[i].pdelay = Arrival[i] - Arrival[FirstClock(i)]
                                     /\ delays[i] = slavelist[i].pdelay

\* The same without a look at losses.
NoWrongDelay == pc = "done" => \A i \in Clocks : delays[i] \in {0, Arrival[i] - Arrival[FirstClock(i)]}
================================================================================
