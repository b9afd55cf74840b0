-------------------------------- MODULE ClockSync --------------------------------
(***************************************************************************)
(* What follows the delays of module DcTopology: a slave is told when to   *)
(* fire SYNC0 (ecx_dcsync0, ecx_dcsync01, ethercatdc.c), and the cycle of  *)
(* the real time thread is drawn to the clock of the first slave that has  *)
(* one (ec_sync and RefreshDeadline, test/EPOS4/src/main.cpp), which every *)
(* frame of process data brings along (ec_DCtime).                         *)
(*                                                                         *)
(* Times are nanoseconds.  The phase of a cycle is where in the period of  *)
(* that clock its frame passes the slave.                                  *)
(***************************************************************************)
EXTENDS DcTopology

CONSTANTS Followed,   \* bound: the networks whose clocks are followed beyond their delays
          Calls,      \* calls of ecx_dcsync0 and ecx_dcsync01
          Program,    \* the one of them the motor program makes
          DEADLINE,   \* its cycle
          SyncDelay,  \* "1st sync pulse delay in ns here 100ms"
          Now,        \* time in the slave at the call
          Took,       \* times a datagram takes
          Timeout,    \* EC_TIMEOUTRET: time one takes that is lost
          Phases,     \* phases of the first cycle
          Drifts,     \* what the thread's clock gains on the slave's in a cycle
          LossStep    \* bound: a run of lost frames begins at a phase that is a multiple of it

ASSUME SyncAssumption ==
    /\ Program \in Calls
    /\ {DEADLINE, SyncDelay, Now, Timeout} \subseteq Nat /\ DEADLINE > 0
    /\ Took \subseteq 0 .. Timeout /\ Phases \subseteq 0 .. DEADLINE - 1 /\ Drifts \subseteq Int
    /\ LossStep \in Nat \ {0}
    /\ \A c \in Calls : /\ {c.CyclTime0, c.CyclTime1} \subseteq Nat /\ c.CyclShift \in Int
                        /\ {c.sync1, c.act} \subseteq BOOLEAN
                        \* ecx_dcsync01 divides by CyclTime0 before it asks whether it is 0
                        /\ c.sync1 => c.CyclTime0 > 0

VARIABLES at,        \* the datagram of the call that is next; "loop": the real time thread runs
          call,
          now,       \* the clock of the slave, while the call lasts
          t1,        \* what the call read of it
          sync,      \* the registers of the slave's sync unit (external)
          DCactive,  \* in ec_slave
          phase, DCtime, integral, toff, drift
syncVars == <<at, call, now, t1, sync, DCactive>>
loopVars == <<phase, DCtime, integral, toff, drift>>

SyncInit ==
    /\ Init
    /\ at = "none" /\ call = Program
    /\ now = 0 /\ t1 = 0
    /\ sync = [start |-> 0, cycle0 |-> 0, cycle1 |-> 0, on |-> FALSE, both |-> FALSE, fires |-> FALSE]
    /\ DCactive = FALSE
    /\ phase = 0 /\ DCtime = 0 /\ integral = 0 /\ toff = 0 /\ drift = 0

--------------------------------------------------------------------------------
(* ecx_dcsync0, ecx_dcsync01 *)

Call ==
    /\ pc = "done" /\ at = "none"
    /\ net \in Followed
    /\ call' \in Calls
    /\ now' = Now
    /\ t1' = 0
    /\ at' = "stop"
    /\ UNCHANGED <<sync, DCactive, loopVars, vars>>

\* No work counter is looked at: what the lost datagram would have written stays.
Datagram(here, next, Write) ==
    /\ at = here
    /\ at' = next
    /\ \/ \E took \in Took : now' = now + took /\ Arrive /\ Write
       \/ now' = now + Timeout /\ Lose /\ UNCHANGED <<sync, t1>>
    /\ UNCHANGED <<call, loopVars, net, start, slavelist, pc, slave, parenthold, prevDCslave, ht, latched, delays>>

StopCyclic == Datagram("stop", "cuc", sync' = [sync EXCEPT !.on = FALSE, !.fires = FALSE] /\ UNCHANGED t1)
                /\ UNCHANGED DCactive
WriteAccess == Datagram("cuc", "time", UNCHANGED <<sync, t1>>) /\ UNCHANGED DCactive
ReadSystime == Datagram("time", "start", t1' = now /\ UNCHANGED sync) /\ UNCHANGED DCactive

\* "Sync1 can be used as a multiple of Sync0, use true cycle time"
TrueCyclTime(c) == IF c.sync1 THEN ((c.CyclTime1 \div c.CyclTime0) + 1) * c.CyclTime0 ELSE c.CyclTime0

\* Mutant: the pulse is asked for right away.
FirstTriggerAtOnce(c) ==
    IF c.CyclTime0 = 0 THEN t1 + c.CyclShift
    ELSE (t1 \div TrueCyclTime(c)) * TrueCyclTime(c) + TrueCyclTime(c) + c.CyclShift

\* "always a whole multiple of CyclTime rounded up plus the shifttime"
FirstTrigger(c) ==
    IF c.CyclTime0 = 0 THEN t1 + SyncDelay + c.CyclShift
    ELSE ((t1 + SyncDelay) \div TrueCyclTime(c)) * TrueCyclTime(c) + TrueCyclTime(c) + c.CyclShift

WriteStart == Datagram("start", "cycle0", sync' = [sync EXCEPT !.start = FirstTrigger(call)] /\ UNCHANGED t1)
                /\ UNCHANGED DCactive
WriteCycle0 == Datagram("cycle0", IF call.sync1 THEN "cycle1" ELSE "act",
                        sync' = [sync EXCEPT !.cycle0 = call.CyclTime0] /\ UNCHANGED t1)
                 /\ UNCHANGED DCactive
WriteCycle1 == Datagram("cycle1", "act", sync' = [sync EXCEPT !.cycle1 = call.CyclTime1] /\ UNCHANGED t1)
                 /\ UNCHANGED DCactive

\* A slave fires from its start time on, if that is still to come.
Activate ==
    /\ Datagram("act", "set",
                /\ sync' = [sync EXCEPT !.on = call.act, !.both = call.act /\ call.sync1,
                                        !.fires = call.act /\ sync.start > now]
                /\ UNCHANGED t1)
    /\ DCactive' = call.act

--------------------------------------------------------------------------------
(* ecatthread, once dorun is set *)

\* Bound: the loop is followed after a call that lost nothing and took no longer than it must.
EnterLoop ==
    /\ at = "set" /\ call = Program /\ losses = 0
    /\ \A took \in Took : now <= Now + 6 * took
    /\ at' = "loop"
    /\ now' = 0 /\ t1' = 0
    /\ phase' \in Phases /\ drift' \in Drifts
    /\ UNCHANGED <<call, sync, DCactive, DCtime, integral, toff, vars>>

\* Division of C: towards 0.
Over(a, n) == IF a >= 0 THEN a \div n ELSE -((-a) \div n)

\* How far the frame is from the next or the last whole period.
Delta(reftime) == LET delta == reftime % DEADLINE
                  IN IF delta > DEADLINE \div 2 THEN delta - DEADLINE ELSE delta

\* Mutant: only frames that are late are counted.
IntegralOfLate(i, delta) == IF delta > 0 THEN i + 1 ELSE i

Integral(i, delta) == IF delta > 0 THEN i + 1 ELSE IF delta < 0 THEN i - 1 ELSE i

\* "PI calculation to get linux time synced to DC time"
ec_sync(reftime) ==
    LET delta == Delta(reftime)
    IN /\ integral' = Integral(integral, delta)
       /\ toff' = -Over(delta, 100) - Over(integral', 20)

\* The next turn begins a period later, which is DEADLINE + toff of the thread's clock.
RefreshDeadline(addtime) == phase' = (phase + addtime + drift) % DEADLINE

\* One turn of the thread: the frame brings the time or, if it is lost, leaves the one
\* before, ec_sync computes toff from it, and RefreshDeadline makes it part of the
\* period at whose end the next turn begins.
Turn ==
    /\ at = "loop"
    /\ \/ DCtime' = phase /\ Arrive
       \/ (phase % LossStep = 0 \/ losses > 0) /\ Lose /\ UNCHANGED DCtime
    /\ IF slavelist[0].hasdc THEN ec_sync(DCtime') ELSE UNCHANGED <<integral, toff>>
    /\ RefreshDeadline(DEADLINE + toff')
    /\ UNCHANGED <<drift, syncVars, net, start, slavelist, pc, slave, parenthold, prevDCslave, ht, latched, delays>>

CallSteps == StopCyclic \/ WriteAccess \/ ReadSystime \/ WriteStart \/ WriteCycle0 \/ WriteCycle1 \/ Activate

SyncNext == \/ Next /\ UNCHANGED <<syncVars, loopVars>>
            \/ Call \/ CallSteps \/ EnterLoop \/ Turn

\* The scheduler wakes the thread at every deadline.
SyncSpec == SyncInit /\ [][SyncNext]_<<vars, syncVars, loopVars>> /\ WF_<<vars, syncVars, loopVars>>(Turn)

--------------------------------------------------------------------------------
\* A slave that was told to fire does so, at whole multiples of the cycle plus the
\* shift ("slaves with the same CyclTime will sync at the same moment"), if no datagram
\* of the call was lost, however long each of them took.
SyncStarts ==
    at = "set" /\ losses = 0 =>
        /\ sync.on = call.act /\ sync.fires = call.act
        /\ sync.cycle0 = call.CyclTime0
        /\ call.CyclTime0 > 0 => (sync.start - call.CyclShift) % TrueCyclTime(call) = 0

\* Why, as an inductive invariant: what the call has written so far, and that the time
\* it read is not older than the datagrams since.
Sent(after) == at \in {"start", "cycle0", "cycle1", "act", "set"} \ after
Spent == CASE at = "start" -> 1 [] at = "cycle0" -> 2 [] at = "cycle1" -> 3 [] OTHER -> 4
StartInv ==
    /\ losses \in Nat
    /\ call \in Calls
    /\ sync \in [start : Int, cycle0 : Nat, cycle1 : Nat, on : BOOLEAN, both : BOOLEAN, fires : BOOLEAN]
    /\ now \in Nat /\ t1 \in Nat
    /\ losses = 0 =>
         /\ Sent({"set"}) => now <= t1 + Spent * Timeout
         /\ Sent({"start"}) => sync.start = FirstTrigger(call)
         /\ Sent({"start", "cycle0"}) => sync.cycle0 = call.CyclTime0
         /\ at = "set" => sync.on = call.act /\ sync.fires = call.act

\* The same without a look at losses: what the master has noted is what the slave does.
ActiveFires == at = "set" /\ DCactive => sync.fires

\* From any phase and with any drift, after the last lost frame, the frames come to pass
\* the slave within 100 ns of the whole period and stay there.
Locks == <>[](at = "loop" /\ slavelist[0].hasdc => Over(Delta(phase), 100) = 0)
================================================================================
