---------------------------- MODULE SlaveGuard_proof ----------------------------
(***************************************************************************)
(* Proofs about the supervision of the slaves, for any number of slaves in *)
(* any line or tree, for any losses of power and any lost datagrams, also  *)
(* those of the writes whose work counter nobody looks at.                 *)
(***************************************************************************)
EXTENDS SlaveGuard, FiniteSetTheorems, TLAPS

USE GuardAssumption DEF GuardAssumption

\* Of the slaves at an address one is the last in the line.
LEMMA HeardAnswers == ASSUME NEW a, At(a) # {} PROVE Heard(a) \in At(a)
<1> DEFINE Behind(s) == {r \in At(a) : r > s}
           T == {Behind(s) : s \in At(a)}
<1>1. At(a) \subseteq Nat
  BY DEF At, Slave
<1>2. IsFiniteSet(At(a))
  <2>1. IsFiniteSet(Slave) /\ At(a) \subseteq Slave
    BY FS_Interval DEF At, Slave
  <2>2. QED
    BY <2>1, FS_Subset
<1>3. \A s \in At(a) : Behind(s) \in FiniteSubsetsOf(At(a))
  BY <1>2, FS_Subset DEF FiniteSubsetsOf
<1>4. T \subseteq FiniteSubsetsOf(At(a)) /\ T # {}
  <2> HIDE DEF Behind
  <2>1. \A x \in T : x \in FiniteSubsetsOf(At(a))
    BY <1>3
  <2>2. PICK s \in At(a) : TRUE
    OBVIOUS
  <2>3. Behind(s) \in T
    OBVIOUS
  <2>4. QED
    BY <2>1, <2>3
<1>5. \E x \in T : \A y \in T : <<y, x>> \notin StrictSubsetOrdering(At(a))
  <2> HIDE DEF T
  <2>1. QED
    BY <1>4, FS_StrictSubsetOrderingWellFounded, WFMin
<1>6. PICK s \in At(a) : \A r \in At(a) : <<Behind(r), Behind(s)>> \notin StrictSubsetOrdering(At(a))
  <2> HIDE DEF Behind
  <2>1. QED
    BY <1>5
<1>7. ASSUME NEW r \in At(a), r > s PROVE FALSE
  <2>1. r \in Nat /\ s \in Nat /\ \A q \in At(a) : q \in Nat
    BY <1>1
  <2>2. Behind(r) \subseteq Behind(s) /\ r \in Behind(s) /\ r \notin Behind(r)
    <3>1. \A q \in At(a) : q > r => q > s
      BY <1>7, <2>1
    <3>2. r \in Behind(s)
      BY <1>7
    <3>3. r \notin Behind(r)
      BY <2>1
    <3>4. QED
      BY <3>1, <3>2, <3>3
  <2>3. <<Behind(r), Behind(s)>> \in StrictSubsetOrdering(At(a))
    BY <2>2 DEF StrictSubsetOrdering
  <2>4. QED
    BY <1>6, <2>3
<1>8. \A r \in At(a) : r <= s
  BY <1>1, <1>7
<1>9. QED
  BY <1>8 DEF Heard

\* A write to the AL control register changes the AL status of the slaves with the
\* address of the one the loop is at, of no other slave, and nothing else.
LEMMA AlWritten ==
    ASSUME TypeOK, NEW req, NEW ack, NEW ok, AlControlTo(req, ack, ok)
    PROVE  /\ dev' \in [Slave -> Device]
           /\ losses' \in 0 .. MaxLoss
           /\ \A s \in Slave \ At(slave) : dev'[s] = dev[s]
           /\ \A s \in Slave : \/ dev'[s] = dev[s]
                               \/ dev'[s] = AlControl(dev[s], req, ack)
<1>1. \A d \in Device : AlControl(d, req, ack) \in Device
  BY DEF AlControl, Device, AlStatus, Al, AlError, States
<1> DEFINE written == [s \in Slave |-> IF s \in At(slave) THEN AlControl(dev[s], req, ack) ELSE dev[s]]
<1>2. written \in [Slave -> Device]
  BY <1>1 DEF TypeOK
<1>3. dev' \in {dev, written} /\ losses' \in 0 .. MaxLoss
  BY DEF AlControlTo, Write, Arrive, Lose, TypeOK
<1>4. QED
  BY <1>2, <1>3 DEF TypeOK

LEMMA DeviceType ==
    ASSUME NEW d \in Device
    PROVE  /\ [d EXCEPT !.on = FALSE] \in Device
           /\ [d EXCEPT !.sm = TRUE] \in Device
           /\ [d EXCEPT !.pdo = TRUE] \in Device
           /\ [d EXCEPT !.fmmu = TRUE] \in Device
           /\ \A a \in Address : [d EXCEPT !.addr = a] \in Device
BY DEF Device

LEMMA LossesBounded == ASSUME TypeOK, Lose \/ Arrive PROVE losses' \in 0 .. MaxLoss
BY DEF Lose, Arrive, TypeOK

\* An unchecked write to the temporary address changes nothing but the address of slaves
\* that have it, and of all of these unless it is missed.
LEMMA AddressWritten ==
    ASSUME TypeOK, NEW kind \in Unchecked, NEW a \in Address, SetAddress(kind, a)
    PROVE  /\ dev' \in [Slave -> Device] /\ losses' \in 0 .. MaxLoss
           /\ missed' \in SUBSET Unchecked /\ missed \subseteq missed'
           /\ \A s \in Slave :
                /\ dev'[s].on = dev[s].on /\ dev'[s].al = dev[s].al /\ dev'[s].fmmu = dev[s].fmmu
                /\ dev'[s].addr = dev[s].addr \/ (HasTemp(s) /\ dev'[s].addr = a)
                /\ HasTemp(s) /\ a # TEMPNODE /\ kind \notin missed' => dev'[s].addr = a
<1> DEFINE reached == IF losses' = losses THEN At(TEMPNODE) ELSE {}
           wanted == {s \in Slave : /\ dev[s].on /\ dev[s].addr = TEMPNODE
                                    /\ [dev[s] EXCEPT !.addr = a] # dev[s]}
<1>1. /\ Arrive \/ Lose
      /\ dev' = [s \in Slave |-> IF s \in reached THEN [dev[s] EXCEPT !.addr = a] ELSE dev[s]]
      /\ missed' = IF wanted \subseteq reached THEN missed ELSE missed \cup {kind}
  BY DEF SetAddress, WriteUnchecked
<1>2. \A s \in reached : s \in Slave /\ HasTemp(s)
  BY DEF At, Reachable, HasTemp
<1> HIDE DEF reached, wanted
<1>3. \A s \in Slave : dev[s] \in Device /\ [dev[s] EXCEPT !.addr = a] \in Device
  BY DeviceType DEF TypeOK
<1>4. \A s \in Slave : /\ [dev[s] EXCEPT !.addr = a].on = dev[s].on
                        /\ [dev[s] EXCEPT !.addr = a].al = dev[s].al
                        /\ [dev[s] EXCEPT !.addr = a].fmmu = dev[s].fmmu
                        /\ [dev[s] EXCEPT !.addr = a].addr = a
  BY <1>3 DEF Device
<1>5. losses' \in 0 .. MaxLoss
  BY <1>1, LossesBounded
<1>6. missed' \in SUBSET Unchecked /\ missed \subseteq missed'
  BY <1>1 DEF TypeOK
<1>7. dev' \in [Slave -> Device]
  BY <1>1, <1>3
<1>8. ASSUME NEW s \in Slave
      PROVE  /\ dev'[s].on = dev[s].on /\ dev'[s].al = dev[s].al /\ dev'[s].fmmu = dev[s].fmmu
             /\ dev'[s].addr = dev[s].addr \/ (HasTemp(s) /\ dev'[s].addr = a)
  BY <1>1, <1>2, <1>4
<1>9. ASSUME NEW s \in Slave, HasTemp(s), a # TEMPNODE, kind \notin missed'
      PROVE  dev'[s].addr = a
  <2>1. [dev[s] EXCEPT !.addr = a] # dev[s]
    BY <1>4, <1>9 DEF HasTemp
  <2>2. s \in wanted
    BY <1>9, <2>1 DEF wanted, HasTemp
  <2>3. s \in reached
    BY <1>1, <1>9, <2>2
  <2>4. QED
    BY <1>1, <1>4, <2>3
<1>10. QED
  BY <1>5, <1>6, <1>7, <1>8, <1>9

LEMMA FmmuWritten ==
    ASSUME TypeOK, ReconfigFMMU
    PROVE  /\ dev' \in [Slave -> Device] /\ losses' \in 0 .. MaxLoss
           /\ missed' \in SUBSET Unchecked /\ missed \subseteq missed'
           /\ \A s \in Slave : dev'[s] = dev[s] \/ dev'[s] = [dev[s] EXCEPT !.fmmu = TRUE]
<1> DEFINE reached == IF losses' = losses THEN At(slave) ELSE {}
           wanted == {s \in Slave : /\ dev[s].on /\ dev[s].addr = slave
                                    /\ [dev[s] EXCEPT !.fmmu = TRUE] # dev[s]}
<1>1. /\ Arrive \/ Lose
      /\ dev' = [s \in Slave |-> IF s \in reached THEN [dev[s] EXCEPT !.fmmu = TRUE] ELSE dev[s]]
      /\ missed' = IF wanted \subseteq reached THEN missed ELSE missed \cup {"fmmu"}
  BY DEF ReconfigFMMU, WriteUnchecked
<1> HIDE DEF reached, wanted
<1>2. losses' \in 0 .. MaxLoss
  BY <1>1, LossesBounded
<1>3. missed' \in SUBSET Unchecked /\ missed \subseteq missed'
  BY <1>1 DEF TypeOK, Unchecked
<1>4. dev' \in [Slave -> Device]
  BY <1>1, DeviceType DEF TypeOK
<1>5. QED
  BY <1>1, <1>2, <1>3, <1>4

\* What the master stores about slaves keeps its type.
LEMMA StoredType ==
    ASSUME TypeOK,
           \/ slavelist' = slavelist
           \/ \E a \in AlStatus : slavelist' = [slavelist EXCEPT ![slave].al = a]
           \/ \E b \in BOOLEAN : slavelist' = [slavelist EXCEPT ![slave].islost = b]
           \/ \E a \in AlStatus, b \in BOOLEAN :
                slavelist' = [slavelist EXCEPT ![slave].al = a, ![slave].islost = b]
    PROVE  slavelist' \in [Slave -> [al : AlStatus, islost : BOOLEAN]]
<1> DEFINE Entry == [al : AlStatus, islost : BOOLEAN]
<1>1. slavelist \in [Slave -> Entry] /\ slave \in Slave
  BY DEF TypeOK
<1>2. \A r \in Entry, a \in AlStatus, b \in BOOLEAN :
        {[r EXCEPT !.al = a], [r EXCEPT !.islost = b], [r EXCEPT !.al = a, !.islost = b]} \subseteq Entry
  OBVIOUS
<1>3. slavelist' = slavelist \/ \E r \in Entry : slavelist' = [slavelist EXCEPT ![slave] = r]
  <2>1. ASSUME NEW a \in AlStatus, slavelist' = [slavelist EXCEPT ![slave].al = a]
        PROVE  \E r \in Entry : slavelist' = [slavelist EXCEPT ![slave] = r]
    <3> DEFINE r == [slavelist[slave] EXCEPT !.al = a]
    <3>1. slavelist[slave] \in Entry
      BY <1>1
    <3>2. r \in Entry
      BY <1>2, <3>1
    <3>3. slavelist' = [slavelist EXCEPT ![slave] = r]
      BY <2>1
    <3>4. QED
      BY <3>2, <3>3
  <2>2. ASSUME NEW b \in BOOLEAN, slavelist' = [slavelist EXCEPT ![slave].islost = b]
        PROVE  \E r \in Entry : slavelist' = [slavelist EXCEPT ![slave] = r]
    <3> DEFINE r == [slavelist[slave] EXCEPT !.islost = b]
    <3>1. slavelist[slave] \in Entry
      BY <1>1
    <3>2. r \in Entry
      BY <1>2, <3>1
    <3>3. slavelist' = [slavelist EXCEPT ![slave] = r]
      BY <2>2
    <3>4. QED
      BY <3>2, <3>3
  <2>3. ASSUME NEW a \in AlStatus, NEW b \in BOOLEAN,
               slavelist' = [slavelist EXCEPT ![slave].al = a, ![slave].islost = b]
        PROVE  \E r \in Entry : slavelist' = [slavelist EXCEPT ![slave] = r]
    <3> DEFINE r == [slavelist[slave] EXCEPT !.al = a, !.islost = b]
    <3>1. slavelist[slave] \in Entry
      BY <1>1
    <3>2. r \in Entry
      BY <1>2, <3>1
    <3>3. slavelist' = [slavelist EXCEPT ![slave] = r]
      BY <2>3
    <3>4. QED
      BY <3>2, <3>3
  <2>4. QED
    BY <2>1, <2>2, <2>3
<1>4. QED
  BY <1>1, <1>3

\* What one broadcast says of all slaves holds for each of them.
LEMMA BroadcastTells ==
    ASSUME TypeOK, Broadcast, pc' = "check"
    PROVE  \E shown \in States :
             /\ slavelist' = [s \in Slave |-> [slavelist[s] EXCEPT !.al = Al(shown)]]
             /\ \A s \in Slave : /\ Reachable(s)
                                 /\ \/ dev[s].al = Al(shown)
                                    \/ shown = "BOOT" /\ dev[s].al \in {Al("INIT"), Al("PRE_OP")}
<1> DEFINE present == {s \in Slave : Reachable(s)}
           states == {dev[s].al.state : s \in present}
           shown == BitwiseState(states)
<1>1. /\ shown # "NONE" /\ present = Slave
      /\ \A s \in present : ~dev[s].al.error
      /\ slavelist' = [s \in Slave |-> [slavelist[s] EXCEPT !.al = Al(shown)]]
  BY DEF Broadcast
<1>2. states \subseteq States
  BY DEF TypeOK, Device, AlStatus
<1>3. IsFiniteSet(states)
  <2> DEFINE f == [s \in present |-> dev[s].al.state]
  <2>1. f \in Surjection(present, states)
    BY DEF Surjection
  <2>2. IsFiniteSet(present)
    <3>1. IsFiniteSet(Slave)
      BY FS_Interval DEF Slave
    <3>2. QED
      BY <3>1, FS_Subset
  <2>3. QED
    BY <2>1, <2>2, FS_Surjection
<1>4. CASE Cardinality(states) = 1
  <2>1. PICK x : states = {x}
    BY <1>3, <1>4, FS_Singleton
  <2>2. shown = x
    BY <1>4, <2>1 DEF BitwiseState
  <2>3. \A s \in Slave : dev[s].al.state = x
    BY <1>1, <2>1
  <2>4. \A s \in Slave : dev[s].al = Al(x)
    BY <1>1, <2>3 DEF TypeOK, Device, AlStatus, Al
  <2>5. x \in States
    BY <1>2, <2>1
  <2>6. QED
    BY <1>1, <2>2, <2>4, <2>5
<1>5. CASE Cardinality(states) # 1
  <2>1. shown = "BOOT" /\ states = {"INIT", "PRE_OP"}
    BY <1>1, <1>5 DEF BitwiseState
  <2>2. \A s \in Slave : dev[s].al.state \in {"INIT", "PRE_OP"}
    BY <1>1, <2>1
  <2>3. \A s \in Slave : dev[s].al \in {Al("INIT"), Al("PRE_OP")}
    BY <1>1, <2>2 DEF TypeOK, Device, AlStatus, Al
  <2>4. "BOOT" \in States
    BY DEF States
  <2>5. QED
    BY <1>1, <2>1, <2>3, <2>4
<1>6. QED
  BY <1>4, <1>5

\* The type invariant needs no condition at all.
LEMMA TypeStep == TypeOK /\ [Next]_vars => TypeOK'
<1> SUFFICES ASSUME TypeOK, [Next]_vars PROVE TypeOK'
  OBVIOUS
<1> USE DEF Goto
<1>1. CASE UNCHANGED vars
  BY <1>1 DEF vars, guardVars, TypeOK
<1>2. CASE Cycle
  <2>1. losses' \in 0 .. MaxLoss
    BY <1>2, LossesBounded DEF Cycle
  <2>2. short' \in BOOLEAN
    BY <1>2 DEF Cycle
  <2>3. QED
    BY <1>2, <2>1, <2>2 DEF Cycle, guardVars, TypeOK
<1>3. CASE PowerOff
  <2>1. dev' \in [Slave -> Device]
    <3>1. PICK s \in Slave : dev' = [dev EXCEPT ![s].on = FALSE]
      BY <1>3 DEF PowerOff
    <3>2. [dev[s] EXCEPT !.on = FALSE] \in Device
      BY DeviceType DEF TypeOK
    <3>3. QED
      BY <3>1, <3>2 DEF TypeOK
  <2>2. QED
    BY <1>3, <2>1 DEF PowerOff, guardVars, TypeOK
<1>4. CASE PowerOn
  <2>1. \A s \in Slave : PowerUp(s) \in Device
    BY DEF PowerUp, Device, AlStatus, Al, States, Address, NoAddress
  <2>2. QED
    BY <1>4, <2>1 DEF PowerOn, guardVars, TypeOK
<1>5. CASE Watchdog
  <2>1. AlError("SAFE_OP") \in AlStatus
    BY DEF AlError, AlStatus, States
  <2>2. losses' \in 0 .. MaxLoss
    BY <1>5 DEF Watchdog, Lose, Arrive, TypeOK
  <2>3. dev' \in [Slave -> Device]
    <3>1. PICK s \in Slave : dev' = [dev EXCEPT ![s].al = AlError("SAFE_OP")]
      BY <1>5 DEF Watchdog
    <3>2. [dev[s] EXCEPT !.al = AlError("SAFE_OP")] \in Device
      BY <2>1 DEF TypeOK, Device
    <3>3. QED
      BY <3>1, <3>2 DEF TypeOK
  <2>4. QED
    BY <1>5, <2>2, <2>3 DEF Watchdog, guardVars, TypeOK
<1>6. CASE Readstate
  <2>1. CASE Start
    BY <2>1 DEF Start, TypeOK, Steps
  <2>2. CASE Broadcast
    <3>1. pc' = "check" => \E shown \in States :
             slavelist' = [s \in Slave |-> [slavelist[s] EXCEPT !.al = Al(shown)]]
      BY <2>2, BroadcastTells
    <3>2. pc' # "check" => slavelist' = slavelist
      BY <2>2 DEF Broadcast
    <3>3. slavelist' \in [Slave -> [al : AlStatus, islost : BOOLEAN]]
      <4>1. \A shown \in States : Al(shown) \in AlStatus
        BY DEF Al, AlStatus
      <4>2. CASE pc' = "check"
        <5>1. PICK shown \in States : slavelist' = [s \in Slave |-> [slavelist[s] EXCEPT !.al = Al(shown)]]
          BY <3>1, <4>2
        <5>2. QED
          BY <4>1, <5>1 DEF TypeOK
      <4>3. QED
        BY <3>2, <4>2 DEF TypeOK
    <3>4. losses' \in 0 .. MaxLoss /\ pc' \in {"check", "multi"}
      BY <2>2 DEF Broadcast, Arrive, Lose, TypeOK
    <3>5. QED
      BY <2>2, <3>3, <3>4 DEF Broadcast, TypeOK, Steps
  <2>3. CASE ReadEach
    <3>1. \A s \in Slave : AlOf(s) \in AlStatus
      BY HeardAnswers DEF AlOf, At, TypeOK, Device, Al, AlStatus, States
    <3>2. Al("NONE") \in AlStatus
      BY DEF Al, AlStatus, States
    <3>3. QED
      <4>1. slavelist' \in [Slave -> [al : AlStatus, islost : BOOLEAN]]
        <5>1. slavelist' \in {[s \in Slave |-> [slavelist[s] EXCEPT !.al = AlOf(s)]],
                              [s \in Slave |-> [slavelist[s] EXCEPT !.al = Al("NONE")]]}
          BY <2>3 DEF ReadEach
        <5>2. \A s \in Slave, a \in AlStatus : [slavelist[s] EXCEPT !.al = a] \in [al : AlStatus, islost : BOOLEAN]
          BY DEF TypeOK
        <5>3. QED
          BY <3>1, <3>2, <5>1, <5>2
      <4>2. losses' \in 0 .. MaxLoss
        BY <2>3, LossesBounded DEF ReadEach
      <4>3. QED
        BY <2>3, <4>1, <4>2 DEF ReadEach, TypeOK, Steps
  <2>4. QED
    BY <1>6, <2>1, <2>2, <2>3 DEF Readstate
<1>7. CASE Turn
  <2>1. CASE CheckOperational
    BY <2>1 DEF CheckOperational, TypeOK, Steps
  <2>2. CASE CheckSafeOp
    <3>1. dev' \in [Slave -> Device] /\ losses' \in 0 .. MaxLoss
      BY <2>2, AlWritten DEF CheckSafeOp
    <3>2. slavelist' \in [Slave -> [al : AlStatus, islost : BOOLEAN]]
      <4>1. Al("OPERATIONAL") \in AlStatus
        BY DEF Al, AlStatus, States
      <4>2. slavelist' \in {slavelist, [slavelist EXCEPT ![slave].al = Al("OPERATIONAL")]}
        BY <2>2 DEF CheckSafeOp, Believe
      <4>3. QED
        BY <4>1, <4>2, StoredType
    <3>3. QED
      BY <2>2, <3>1, <3>2 DEF CheckSafeOp, TypeOK, Steps
  <2>3. CASE CheckOther
    BY <2>3 DEF CheckOther, TypeOK, Steps, Reconfiguring
  <2>4. CASE CheckNone
    BY <2>4 DEF CheckNone, TypeOK, Steps
  <2>5. CASE RecheckState
    <3>1. losses' \in 0 .. MaxLoss
      BY <2>5, LossesBounded DEF RecheckState, ReadAl
    <3>2. slavelist' \in [Slave -> [al : AlStatus, islost : BOOLEAN]]
      <4>1. \A found \in AlStatus : (slavelist[slave].islost \/ found.state = "NONE") \in BOOLEAN
        BY DEF TypeOK
      <4>2. QED
        BY <2>5, <4>1, StoredType DEF RecheckState
    <3>3. QED
      BY <2>5, <3>1, <3>2 DEF RecheckState, TypeOK, Steps
  <2>6. CASE CheckLost
    <3>1. slavelist' \in [Slave -> [al : AlStatus, islost : BOOLEAN]]
      BY <2>6, StoredType DEF CheckLost, Found, TypeOK
    <3>2. slave' \in Slave /\ pc' \in Steps
      BY <2>6 DEF CheckLost, NextSlave, TypeOK, Steps, Slave
    <3>3. QED
      BY <2>6, <3>1, <3>2 DEF CheckLost, TypeOK
  <2>7. QED
    BY <1>7, <2>1, <2>2, <2>3, <2>4, <2>5, <2>6 DEF Turn
<1>8. CASE Reconfig
  <2>1. ASSUME NEW step, NEW reqstate, NEW next \in Steps, StateCheck(step, reqstate, next)
        PROVE  TypeOK'
    <3>1. losses' \in 0 .. MaxLoss
      BY <2>1, LossesBounded DEF StateCheck, ReadAl
    <3>2. slavelist' \in [Slave -> [al : AlStatus, islost : BOOLEAN]]
      <4>1. \A found \in AlStatus :
               (slavelist[slave].islost /\ (found.state = reqstate \/ found.state = "NONE")) \in BOOLEAN
        BY DEF TypeOK
      <4>2. QED
        BY <2>1, <4>1, StoredType DEF StateCheck
    <3>3. QED
      BY <2>1, <3>1, <3>2 DEF StateCheck, TypeOK, Steps
  <2>2. CASE ReconfigInit
    <3>1. dev' \in [Slave -> Device] /\ losses' \in 0 .. MaxLoss
      BY <2>2, AlWritten DEF ReconfigInit
    <3>2. QED
      BY <2>2, <3>1 DEF ReconfigInit, TypeOK, Steps, Reconfiguring
  <2>3. CASE ReconfigPreOp
    <3>1. dev' \in [Slave -> Device] /\ losses' \in 0 .. MaxLoss
      BY <2>3, AlWritten DEF ReconfigPreOp
    <3>2. QED
      BY <2>3, <3>1 DEF ReconfigPreOp, TypeOK, Steps, Reconfiguring
  <2>4. CASE ReconfigSafeOp
    <3>1. dev' \in [Slave -> Device] /\ losses' \in 0 .. MaxLoss
      BY <2>4, AlWritten DEF ReconfigSafeOp
    <3>2. QED
      BY <2>4, <3>1 DEF ReconfigSafeOp, TypeOK, Steps, Reconfiguring
  <2>5. CASE ReconfigSM
    <3>1. dev' \in [Slave -> Device] /\ losses' \in 0 .. MaxLoss
      <4> DEFINE written == [s \in Slave |-> IF s \in At(slave) THEN [dev[s] EXCEPT !.sm = TRUE] ELSE dev[s]]
      <4>1. written \in [Slave -> Device]
        BY DeviceType DEF TypeOK
      <4>2. dev' \in {dev, written} /\ (Lose \/ Arrive)
        BY <2>5 DEF ReconfigSM, Write
      <4>3. QED
        BY <4>1, <4>2, LossesBounded DEF TypeOK
    <3>2. QED
      BY <2>5, <3>1 DEF ReconfigSM, TypeOK, Steps, Reconfiguring
  <2>6. CASE CheckSafeOpReached
    BY <2>6 DEF CheckSafeOpReached, ReadAl, Believe, Arrive, Lose, TypeOK, Steps, Reconfiguring
  <2>7. CASE ReconfigFMMU
    <3>1. slavelist' \in [Slave -> [al : AlStatus, islost : BOOLEAN]]
      BY <2>7 DEF ReconfigFMMU, TypeOK
    <3>2. QED
      BY <2>7, <3>1, FmmuWritten DEF ReconfigFMMU, TypeOK, Steps, Reconfiguring
  <2>8. CASE CheckInit
    <3>1. "sm" \in Steps
      BY DEF Steps, Reconfiguring
    <3>2. QED
      BY <2>1, <2>8, <3>1 DEF CheckInit
  <2>9. CASE CheckPreOp
    <3>1. "hook" \in Steps
      BY DEF Steps, Reconfiguring
    <3>2. QED
      BY <2>1, <2>9, <3>1 DEF CheckPreOp
  <2>10. CASE Hook
    <3>1. dev' \in [Slave -> Device] /\ losses' \in 0 .. MaxLoss
      <4> DEFINE written == [s \in Slave |-> IF s \in At(slave) THEN [dev[s] EXCEPT !.pdo = TRUE] ELSE dev[s]]
      <4>1. written \in [Slave -> Device]
        BY DeviceType DEF TypeOK
      <4>2. dev' \in {dev, written} /\ (Lose \/ Arrive)
        BY <2>10 DEF Hook, Write
      <4>3. QED
        BY <4>1, <4>2, LossesBounded DEF TypeOK
    <3>2. QED
      BY <2>10, <3>1 DEF Hook, TypeOK, Steps, Reconfiguring
  <2>11. QED
    BY <1>8, <2>2, <2>3, <2>4, <2>5, <2>6, <2>7, <2>8, <2>9, <2>10 DEF Reconfig
<1>9. CASE Recover
  <2> USE DEF Identifying
  <2>1. NextSlave => slave' \in Slave /\ pc' \in Steps
    BY DEF NextSlave, TypeOK, Slave, Steps
  <2>2. {NoAddress, slave} \subseteq Address /\ {"clear", "address"} \subseteq Unchecked
    BY DEF TypeOK, Address, Unchecked
  <2>3. Found => slavelist' \in [Slave -> [al : AlStatus, islost : BOOLEAN]]
    BY DEF Found, TypeOK
  <2>4. CASE ReadAddress
    BY <2>1, <2>3, <2>4 DEF ReadAddress, Arrive, Lose, TypeOK, Steps
  <2>5. CASE ClearNode
    <3>1. SetAddress("clear", NoAddress)
      BY <2>5 DEF ClearNode
    <3>2. QED
      BY <2>2, <2>5, <3>1, AddressWritten DEF ClearNode, TypeOK, Steps
  <2>6. CASE SetTemp
    <3>1. dev' \in [Slave -> Device] /\ losses' \in 0 .. MaxLoss
      <4> DEFINE written == [s \in Slave |-> IF s \in AtPosition(slave) THEN [dev[s] EXCEPT !.addr = TEMPNODE] ELSE dev[s]]
      <4>1. written \in [Slave -> Device]
        BY DeviceType DEF TypeOK, Address
      <4>2. dev' \in {dev, written} /\ (Lose \/ Arrive)
        BY <2>6 DEF SetTemp, Write
      <4>3. QED
        BY <4>1, <4>2, LossesBounded DEF TypeOK
    <3>2. QED
      BY <2>1, <2>6, <3>1 DEF SetTemp, TypeOK, Steps
  <2>7. ASSUME NEW step, NEW field, NEW next \in Steps, Compare(step, field, next)
        PROVE  TypeOK'
    BY <2>7 DEF Compare, Arrive, Lose, TypeOK, Steps
  <2>8. CASE CompareAlias \/ CompareId \/ CompareManufacturer \/ CompareRevision
    <3>1. {"id", "man", "rev", "address"} \subseteq Steps
      BY DEF Steps
    <3>2. QED
      BY <2>7, <2>8, <3>1 DEF CompareAlias, CompareId, CompareManufacturer, CompareRevision
  <2>9. CASE SetConfigAddress
    <3>1. SetAddress("address", slave)
      BY <2>9 DEF SetConfigAddress
    <3>2. slavelist' \in [Slave -> [al : AlStatus, islost : BOOLEAN]]
      BY <2>3, <2>9 DEF SetConfigAddress, TypeOK
    <3>3. QED
      BY <2>1, <2>2, <2>9, <3>1, <3>2, AddressWritten DEF SetConfigAddress, TypeOK
  <2>10. CASE RemoveAddress
    <3>1. SetAddress("address", NoAddress)
      BY <2>10 DEF RemoveAddress
    <3>2. QED
      BY <2>1, <2>2, <2>10, <3>1, AddressWritten DEF RemoveAddress, TypeOK
  <2>11. QED
    BY <1>9, <2>4, <2>5, <2>6, <2>8, <2>9, <2>10 DEF Recover
<1>10. QED
  BY <1>1, <1>2, <1>3, <1>4, <1>5, <1>6, <1>7, <1>8, <1>9 DEF Next, ecatcheck

LEMMA TypeInit == Init => TypeOK
<1>1. Al("OPERATIONAL") \in AlStatus
  BY DEF Al, AlStatus, States
<1>2. \A s \in Slave : [Running EXCEPT !.addr = s] \in Device
  BY <1>1 DEF Running, Device, Address
<1>3. 1 \in Slave /\ 0 \in 0 .. MaxLoss /\ 0 \in 0 .. MaxOff
  BY DEF Slave
<1> SUFFICES ASSUME Init PROVE TypeOK
  OBVIOUS
<1>4. dev \in [Slave -> Device]
  BY <1>2 DEF Init
<1>5. slavelist \in [Slave -> [al : AlStatus, islost : BOOLEAN]]
  BY <1>1 DEF Init
<1>6. QED
  BY <1>3, <1>4, <1>5 DEF Init, TypeOK, Steps

\* The type invariant, in any environment.
THEOREM TypeCorrect == Spec => []TypeOK
BY TypeInit, TypeStep, PTL DEF Spec

--------------------------------------------------------------------------------
(* Addresses, whether slaves are alike or not. *)

\* Counting finds at most one slave at a position.
LEMMA OneAtPosition ==
    ASSUME TypeOK, NEW p, NEW s \in AtPosition(p), NEW t \in AtPosition(p) PROVE s = t
<1> DEFINE Before(r) == {q \in 1 .. r : Reachable(q)}
<1>1. ASSUME NEW a \in Slave, NEW b \in Slave, Reachable(b), a < b
      PROVE  Cardinality(Before(a)) # Cardinality(Before(b))
  <2>1. IsFiniteSet(Before(b))
    <3>1. IsFiniteSet(1 .. b)
      BY FS_Interval DEF Slave
    <3>2. QED
      BY <3>1, FS_Subset
  <2>2. Before(a) \subseteq Before(b) /\ b \in Before(b) /\ b \notin Before(a)
    BY <1>1 DEF Slave
  <2>3. QED
    BY <2>1, <2>2, FS_Subset
<1>2. s \in Slave /\ t \in Slave /\ Reachable(s) /\ Reachable(t)
      /\ Cardinality(Before(s)) = p /\ Cardinality(Before(t)) = p
  BY DEF AtPosition
<1>3. ~ s < t /\ ~ t < s
  BY <1>1, <1>2
<1>4. QED
  BY <1>2, <1>3 DEF Slave

\* A step that gives no address, outside of the comparison or within one and the same.
LEMMA AddressesKept ==
    ASSUME OwnAddresses, TempIsOne,
           \A s \in Slave : (HasTemp(s)' => HasTemp(s)) /\ dev'[s].addr \in {dev[s].addr, NoAddress},
           \/ pc' \notin {"temp", "id", "man", "rev", "address"}
           \/ pc' = pc /\ slave' = slave
    PROVE  OwnAddresses' /\ TempIsOne'
<1>1. NoAddress \notin Slave
  BY DEF NoAddress, Slave
<1>2. OwnAddresses'
  <2>1. ASSUME NEW s \in Slave, NEW t \in Slave, dev'[s].addr = t PROVE Alike(s, t)
    <3>1. dev[s].addr = t
      BY <1>1, <2>1
    <3>2. QED
      BY <3>1 DEF OwnAddresses
  <2>2. QED
    BY <2>1 DEF OwnAddresses, Alike, AlikeIn
<1>3. (\A s, t \in Slave : HasTemp(s) /\ HasTemp(t) => s = t)'
  BY DEF TempIsOne
<1>4. CASE pc' = pc /\ slave' = slave
  <2>1. Compared' = Compared
    BY <1>4 DEF Compared
  <2>2. \A s \in Slave : HasTemp(s)' => \A field \in Compared : AlikeIn(s, slave, field)
    BY DEF TempIsOne
  <2>3. (\A s \in Slave : HasTemp(s) => \A field \in Compared : AlikeIn(s, slave, field))'
    BY <1>4, <2>1, <2>2 DEF AlikeIn
  <2>4. (pc = "temp" => \A s \in Slave : ~HasTemp(s))'
    BY <1>4 DEF TempIsOne
  <2>5. QED
    BY <1>2, <1>3, <2>3, <2>4 DEF TempIsOne
<1>5. CASE pc' \notin {"temp", "id", "man", "rev", "address"}
  <2>1. Compared' = {}
    BY <1>5 DEF Compared
  <2>2. (\A s \in Slave : HasTemp(s) => \A field \in Compared : AlikeIn(s, slave, field))'
    BY <2>1
  <2>3. (pc = "temp" => \A s \in Slave : ~HasTemp(s))'
    BY <1>5
  <2>4. QED
    BY <1>2, <1>3, <2>2, <2>3 DEF TempIsOne
<1>6. QED
  BY <1>2, <1>4, <1>5

\* What the slaves themselves and the real time thread do.
LEMMA EnvironmentChanges ==
    ASSUME TypeOK, Cycle \/ PowerOff \/ PowerOn \/ Watchdog
    PROVE  /\ UNCHANGED <<guardVars, missed>>
           /\ \A s \in Slave :
                /\ HasTemp(s)' => HasTemp(s)
                /\ dev'[s].addr \in {dev[s].addr, NoAddress}
                /\ dev'[s].addr = s => dev[s].addr = s
                /\ dev'[s].addr = s /\ dev'[s].al = Al("OPERATIONAL") => dev[s].al = Al("OPERATIONAL")
<1>1. UNCHANGED <<guardVars, missed>>
  BY DEF Cycle, PowerOff, PowerOn, Watchdog
<1>2. \A s \in Slave : /\ HasTemp(s)' => HasTemp(s)
                       /\ dev'[s].addr \in {dev[s].addr, NoAddress}
                       /\ dev'[s].addr = s => dev[s].addr = s
                       /\ dev'[s].addr = s /\ dev'[s].al = Al("OPERATIONAL") => dev[s].al = Al("OPERATIONAL")
  <2>1. CASE Cycle
    BY <2>1 DEF Cycle, HasTemp
  <2>2. CASE PowerOff
    <3>1. PICK r \in Slave : dev' = [dev EXCEPT ![r].on = FALSE]
      BY <2>2 DEF PowerOff
    <3>2. \A s \in Slave : /\ dev'[s].addr = dev[s].addr /\ dev'[s].al = dev[s].al
                           /\ dev'[s].on => dev[s].on
      BY <3>1 DEF TypeOK, Device
    <3>3. QED
      BY <3>2 DEF HasTemp
  <2>3. CASE PowerOn
    <3>1. PICK r \in Slave : dev' = [dev EXCEPT ![r] = PowerUp(r)]
      BY <2>3 DEF PowerOn
    <3>2. dev'[r].addr = NoAddress /\ \A s \in Slave \ {r} : dev'[s] = dev[s]
      BY <3>1 DEF TypeOK, PowerUp
    <3>3. QED
      BY <3>2 DEF HasTemp, NoAddress, TEMPNODE, Slave
  <2>4. CASE Watchdog
    <3>1. PICK r \in Slave : dev' = [dev EXCEPT ![r].al = AlError("SAFE_OP")]
      BY <2>4 DEF Watchdog
    <3>2. \A s \in Slave : dev'[s].on = dev[s].on /\ dev'[s].addr = dev[s].addr
      BY <3>1 DEF TypeOK, Device
    <3>3. \A s \in Slave : dev'[s].al \in {dev[s].al, AlError("SAFE_OP")}
      BY <3>1 DEF TypeOK, Device
    <3>4. AlError("SAFE_OP") # Al("OPERATIONAL")
      BY DEF Al, AlError
    <3>5. QED
      BY <3>2, <3>3, <3>4 DEF HasTemp
  <2>5. QED
    BY <2>1, <2>2, <2>3, <2>4
<1>3. QED
  BY <1>1, <1>2

\* Writes to the AL control register never take a slave to OPERATIONAL that is not
\* asked to go there.
LEMMA AlControlKeeps ==
    ASSUME NEW d \in Device, NEW req, NEW ack
    PROVE  /\ AlControl(d, req, ack).on = d.on
           /\ AlControl(d, req, ack).addr = d.addr
           /\ AlControl(d, req, ack).sm = d.sm
           /\ AlControl(d, req, ack).fmmu = d.fmmu
           /\ AlControl(d, req, ack).al = Al("OPERATIONAL") =>
                req \notin {"INIT", "PRE_OP", "SAFE_OP"} \/ (d.al = Al("OPERATIONAL") /\ req # "INIT")
BY DEF AlControl, Device, AlStatus, Al, AlError

\* The other writes of a reconfiguration.
Prepared(s) == dev'[s] \in {dev[s], [dev[s] EXCEPT !.sm = TRUE], [dev[s] EXCEPT !.pdo = TRUE],
                            [dev[s] EXCEPT !.fmmu = TRUE]}

LEMMA PreparedKeeps ==
    ASSUME TypeOK, NEW s \in Slave, Prepared(s)
    PROVE  /\ dev'[s].on = dev[s].on /\ dev'[s].addr = dev[s].addr /\ dev'[s].al = dev[s].al
           /\ dev[s].fmmu => dev'[s].fmmu
<1>1. dev[s] \in Device
  BY DEF TypeOK
<1>2. QED
  BY <1>1 DEF Prepared, Device

LEMMA ReconfigWrites ==
    ASSUME TypeOK, Reconfig, ~(ReconfigInit \/ ReconfigPreOp \/ ReconfigSafeOp)
    PROVE  missed \subseteq missed' /\ \A s \in Slave : Prepared(s)
<1>1. CASE CheckInit \/ CheckPreOp \/ CheckSafeOpReached
  BY <1>1 DEF CheckInit, CheckPreOp, StateCheck, CheckSafeOpReached, Prepared
<1>2. CASE ReconfigSM
  BY <1>2 DEF ReconfigSM, Write, Prepared, TypeOK
<1>3. CASE Hook
  BY <1>3 DEF Hook, Write, Prepared, TypeOK
<1>4. CASE ReconfigFMMU
  BY <1>4, FmmuWritten DEF Prepared
<1>5. QED
  BY <1>1, <1>2, <1>3, <1>4 DEF Reconfig

\* A turn of the loop and a reconfiguration give nobody an address.
LEMMA TurnChanges ==
    ASSUME TypeOK, Readstate \/ Turn \/ Reconfig
    PROVE  /\ pc' \notin {"temp"} \cup Identifying
           /\ missed \subseteq missed'
           /\ \A s \in Slave : dev'[s].on = dev[s].on /\ dev'[s].addr = dev[s].addr
<1>1. CASE Readstate
  BY <1>1 DEF Readstate, Start, Broadcast, ReadEach, Goto, Identifying
<1> DEFINE Same == \A s \in Slave : dev'[s].on = dev[s].on /\ dev'[s].addr = dev[s].addr
<1>2. ASSUME NEW req, NEW ack, NEW ok, AlControlTo(req, ack, ok) PROVE Same
  BY <1>2, AlWritten, AlControlKeeps DEF TypeOK
<1>3. CASE Turn
  <2>1. pc' \notin {"temp"} \cup Identifying /\ missed' = missed
    BY <1>3 DEF Turn, CheckOperational, CheckSafeOp, CheckOther, CheckNone, RecheckState, CheckLost,
        Goto, NextSlave, Identifying
  <2>2. CASE CheckSafeOp
    <3>1. PICK ok \in BOOLEAN, req \in {"SAFE_OP", "OPERATIONAL"}, ack \in BOOLEAN :
             AlControlTo(req, ack, ok)
      BY <2>2 DEF CheckSafeOp
    <3>2. QED
      BY <1>2, <2>1, <3>1
  <2>3. CASE ~CheckSafeOp
    BY <1>3, <2>1, <2>3 DEF Turn, CheckOperational, CheckOther, CheckNone, RecheckState, CheckLost
  <2>4. QED
    BY <2>2, <2>3
<1>4. CASE Reconfig
  <2>1. pc' \notin {"temp"} \cup Identifying
    BY <1>4 DEF Reconfig, ReconfigInit, StateCheck, CheckInit, CheckPreOp, ReconfigSM, ReconfigPreOp,
        Hook, ReconfigSafeOp, CheckSafeOpReached, ReconfigFMMU, Goto, Identifying
  <2>2. CASE ReconfigInit \/ ReconfigPreOp \/ ReconfigSafeOp
    <3>1. PICK ok \in BOOLEAN, req \in {"INIT", "PRE_OP", "SAFE_OP"} : AlControlTo(req, FALSE, ok)
      BY <2>2 DEF ReconfigInit, ReconfigPreOp, ReconfigSafeOp
    <3>2. missed' = missed
      BY <2>2 DEF ReconfigInit, ReconfigPreOp, ReconfigSafeOp
    <3>3. QED
      BY <1>2, <2>1, <3>1, <3>2
  <2>3. CASE ~(ReconfigInit \/ ReconfigPreOp \/ ReconfigSafeOp)
    <3>1. missed \subseteq missed' /\ \A s \in Slave : Prepared(s)
      BY <1>4, <2>3, ReconfigWrites
    <3>2. QED
      BY <2>1, <3>1, PreparedKeeps
  <2>4. QED
    BY <2>2, <2>3
<1>5. QED
  BY <1>1, <1>3, <1>4

LEMMA TempHeard ==
    ASSUME TempIsOne, At(TEMPNODE) # {}
    PROVE  HasTemp(Heard(TEMPNODE)) /\ Heard(TEMPNODE) \in Slave
<1>1. \A r \in At(TEMPNODE) : r \in Slave /\ HasTemp(r)
  BY DEF At, Reachable, HasTemp
<1>2. QED
  BY <1>1, HeardAnswers

\* One field of the identity.
LEMMA CompareStep ==
    ASSUME TypeOK, OwnAddresses, TempIsOne, NEW step, NEW field \in Field, NEW next,
           Compare(step, field, next), pc' = next => Compared' \subseteq Compared \cup {field},
           pc' = "remove" => Compared' = {}, next \notin {"temp", "remove"}
    PROVE  OwnAddresses' /\ TempIsOne'
<1>1. dev' = dev /\ slave' = slave /\ pc' \in {next, "remove"}
  BY DEF Compare, Goto
<1>2. OwnAddresses'
  BY <1>1 DEF OwnAddresses
<1>3. ASSUME pc' = next, NEW s \in Slave, HasTemp(s)
      PROVE  AlikeIn(s, slave, field)
  <2>1. PICK found \in {0} \cup {type[q][field] : q \in Slave} :
           /\ \/ found = IF At(TEMPNODE) = {} THEN 0 ELSE type[Heard(TEMPNODE)][field]
              \/ found = 0
           /\ Goto(IF found = type[slave][field] THEN next ELSE "remove")
    BY DEF Compare
  <2>2. found = type[slave][field]
    BY <1>3, <2>1 DEF Goto
  <2>3. CASE found = 0
    BY <2>2, <2>3 DEF AlikeIn
  <2>4. CASE found # 0
    <3>1. At(TEMPNODE) # {} /\ found = type[Heard(TEMPNODE)][field]
      BY <2>1, <2>4
    <3>2. Heard(TEMPNODE) = s
      BY <1>3, <3>1, TempHeard DEF TempIsOne
    <3>3. QED
      BY <2>2, <3>1, <3>2 DEF AlikeIn
  <2>5. QED
    BY <2>3, <2>4
<1>4. ASSUME NEW s \in Slave, HasTemp(s)', NEW f \in Compared' PROVE AlikeIn(s, slave, f)
  <2>1. HasTemp(s) /\ pc' = next
    BY <1>1, <1>4 DEF HasTemp
  <2>2. CASE f = field
    BY <1>3, <2>1, <2>2
  <2>3. CASE f # field
    <3>1. f \in Compared
      BY <1>4, <2>1, <2>3
    <3>2. QED
      BY <2>1, <3>1 DEF TempIsOne
  <2>4. QED
    BY <2>2, <2>3
<1>5. \A s, t \in Slave : HasTemp(s)' /\ HasTemp(t)' => s = t
  BY <1>1 DEF TempIsOne, HasTemp
<1>6. (\A s \in Slave : HasTemp(s) => \A f \in Compared : AlikeIn(s, slave, f))'
  BY <1>1, <1>4 DEF AlikeIn
<1>7. QED
  BY <1>1, <1>2, <1>5, <1>6 DEF TempIsOne

LEMMA RecoverStep ==
    ASSUME TypeOK, OwnAddresses, TempIsOne, Recover, "clear" \notin missed'
    PROVE  OwnAddresses' /\ TempIsOne'
<1>1. slave \in Slave /\ TEMPNODE \notin Slave /\ NoAddress \notin Slave /\ NoAddress # TEMPNODE
  BY DEF TypeOK, Slave, TEMPNODE, NoAddress
<1>2. {NoAddress, slave} \subseteq Address /\ {"clear", "address"} \subseteq Unchecked
  BY <1>1 DEF Address, Unchecked
<1>3. NextSlave => pc' \in {"check", "sleep"}
  BY DEF NextSlave
<1>4. CASE ReadAddress
  <2>1. dev' = dev /\ pc' \in {"clear", "check", "sleep"}
    BY <1>3, <1>4 DEF ReadAddress, Goto
  <2>2. QED
    BY <2>1, AddressesKept DEF HasTemp
\* "clear possible slaves at EC_TEMPNODE": afterwards nobody has it.
<1>5. CASE ClearNode
  <2>1. SetAddress("clear", NoAddress) /\ pc' = "temp"
    BY <1>5 DEF ClearNode, Goto
  <2>2. \A s \in Slave : dev'[s].addr = IF HasTemp(s) THEN NoAddress ELSE dev[s].addr
    BY <1>1, <1>2, <2>1, AddressWritten
  <2>3. \A s \in Slave : dev'[s].on = dev[s].on
    BY <1>2, <2>1, AddressWritten
  <2>4. \A s \in Slave : ~HasTemp(s)'
    BY <1>1, <2>2, <2>3 DEF HasTemp
  <2>5. OwnAddresses'
    BY <1>1, <2>2 DEF OwnAddresses
  <2>6. QED
    BY <2>4, <2>5 DEF TempIsOne
<1>6. CASE SetTemp
  <2>1. \A s \in Slave : ~HasTemp(s)
    BY <1>6 DEF SetTemp, TempIsOne
  <2>2. \A s \in Slave : \/ dev'[s] = dev[s]
                         \/ s \in AtPosition(slave) /\ dev'[s] = [dev[s] EXCEPT !.addr = TEMPNODE]
    BY <1>6 DEF SetTemp, Write, TypeOK
  <2>3. \A s \in Slave : \/ dev'[s] = dev[s]
                         \/ s \in AtPosition(slave) /\ dev'[s].addr = TEMPNODE
    BY <2>2 DEF TypeOK, Device
  <2>4. \A s \in Slave : HasTemp(s)' => s \in AtPosition(slave)
    BY <2>1, <2>3 DEF HasTemp
  <2>5. OwnAddresses'
    BY <1>1, <2>3 DEF OwnAddresses
  <2>6. pc' \in {"alias", "remove"}
    BY <1>6 DEF SetTemp, Goto
  <2>7. Compared' = {}
    BY <2>6 DEF Compared
  <2>8. QED
    BY <2>4, <2>5, <2>6, <2>7, OneAtPosition DEF TempIsOne
<1>7. CASE CompareAlias \/ CompareId \/ CompareManufacturer \/ CompareRevision
  <2>1. PICK field \in Field, next \in {"id", "man", "rev", "address"} :
           /\ Compare(pc, field, next)
           /\ \/ field = "alias" /\ pc = "alias" /\ next = "id"
              \/ field = "id" /\ pc = "id" /\ next = "man"
              \/ field = "man" /\ pc = "man" /\ next = "rev"
              \/ field = "rev" /\ pc = "rev" /\ next = "address"
    BY <1>7 DEF CompareAlias, CompareId, CompareManufacturer, CompareRevision, Compare, Field
  <2>2. pc' = next => Compared' \subseteq Compared \cup {field}
    BY <2>1 DEF Compared, Field
  <2>3. pc' = "remove" => Compared' = {}
    BY DEF Compared
  <2>4. QED
    BY <2>1, <2>2, <2>3, CompareStep
<1>8. CASE SetConfigAddress
  <2>1. SetAddress("address", slave) /\ pc = "address" /\ pc' \in {"check", "sleep"}
    BY <1>3, <1>8 DEF SetConfigAddress
  <2>2. ASSUME NEW s \in Slave, dev'[s].addr # dev[s].addr
        PROVE  HasTemp(s) /\ dev'[s].addr = slave
    BY <1>2, <2>1, <2>2, AddressWritten
  <2>3. \A s \in Slave : HasTemp(s) => Alike(s, slave)
    BY <2>1 DEF TempIsOne, Compared, Alike
  <2>4. OwnAddresses'
    BY <1>1, <2>2, <2>3 DEF OwnAddresses, Alike, AlikeIn
  <2>5. \A s \in Slave : dev'[s].on = dev[s].on
    BY <1>2, <2>1, AddressWritten
  <2>6. \A s \in Slave : HasTemp(s)' => HasTemp(s)
    BY <1>1, <2>2, <2>5 DEF HasTemp
  <2>7. Compared' = {}
    BY <2>1 DEF Compared
  <2>8. QED
    BY <2>1, <2>4, <2>6, <2>7 DEF TempIsOne
<1>9. CASE RemoveAddress
  <2>1. SetAddress("address", NoAddress) /\ pc' \in {"check", "sleep"}
    BY <1>3, <1>9 DEF RemoveAddress
  <2>2. \A s \in Slave : dev'[s].on = dev[s].on /\ dev'[s].addr \in {dev[s].addr, NoAddress}
    BY <1>2, <2>1, AddressWritten
  <2>3. \A s \in Slave : HasTemp(s)' => HasTemp(s)
    BY <1>1, <2>2 DEF HasTemp
  <2>4. QED
    BY <2>1, <2>2, <2>3, AddressesKept
<1>10. QED
  BY <1>4, <1>5, <1>6, <1>7, <1>8, <1>9 DEF Recover

LEMMA RecoverMisses == ASSUME TypeOK, Recover PROVE missed \subseteq missed'
<1>1. {NoAddress, slave} \subseteq Address /\ {"clear", "address"} \subseteq Unchecked
  BY DEF TypeOK, Address, Unchecked
<1>2. CASE ReadAddress \/ SetTemp \/ CompareAlias \/ CompareId \/ CompareManufacturer \/ CompareRevision
  BY <1>2 DEF ReadAddress, SetTemp, CompareAlias, CompareId, CompareManufacturer, CompareRevision, Compare
<1>3. CASE ClearNode
  BY <1>1, <1>3, AddressWritten DEF ClearNode
<1>4. CASE SetConfigAddress
  BY <1>1, <1>4, AddressWritten DEF SetConfigAddress
<1>5. CASE RemoveAddress
  BY <1>1, <1>5, AddressWritten DEF RemoveAddress
<1>6. QED
  BY <1>2, <1>3, <1>4, <1>5 DEF Recover

LEMMA AddressInvStep == ASSUME AddressInv, [Next]_vars PROVE AddressInv' /\ missed \subseteq missed'
<1> USE DEF AddressInv
<1>1. TypeOK'
  BY TypeStep
<1>2. CASE UNCHANGED vars
  BY <1>1, <1>2 DEF vars, guardVars, AddressIsOwn, OwnAddresses, TempIsOne, HasTemp, Compared
<1>3. CASE Next
  <2>1. missed \subseteq missed'
    BY <1>3, EnvironmentChanges, TurnChanges, RecoverMisses DEF Next, ecatcheck
  <2>2. ASSUME "clear" \notin missed' PROVE OwnAddresses' /\ TempIsOne'
    <3>1. OwnAddresses /\ TempIsOne
      BY <2>1, <2>2 DEF AddressIsOwn
    <3>2. CASE Cycle \/ PowerOff \/ PowerOn \/ Watchdog
      BY <3>1, <3>2, EnvironmentChanges, AddressesKept DEF guardVars
    <3>3. CASE Readstate \/ Turn \/ Reconfig
      BY <3>1, <3>3, TurnChanges, AddressesKept DEF HasTemp, Identifying
    <3>4. CASE Recover
      BY <2>2, <3>1, <3>4, RecoverStep
    <3>5. QED
      BY <1>3, <3>2, <3>3, <3>4 DEF Next, ecatcheck
  <2>3. QED
    BY <1>1, <2>1, <2>2 DEF AddressIsOwn
<1>4. QED
  BY <1>2, <1>3 DEF vars

LEMMA AddressInvInit == Init => AddressInv
<1> SUFFICES ASSUME Init PROVE AddressInv
  OBVIOUS
<1>1. TypeOK
  BY TypeInit
<1>2. \A s \in Slave : dev[s].addr = s
  BY DEF Init, Running
<1>3. OwnAddresses
  BY <1>2 DEF OwnAddresses, Alike, AlikeIn
<1>4. \A s \in Slave : ~HasTemp(s)
  BY <1>2 DEF HasTemp, TEMPNODE, Slave
<1>5. QED
  BY <1>1, <1>3, <1>4 DEF AddressInv, AddressIsOwn, TempIsOne

LEMMA AddressInvHolds == Spec => []AddressInv
BY AddressInvInit, AddressInvStep, PTL DEF Spec

\* Every slave only ever gets its own address or that of a slave it cannot be told from,
\* whichever slaves come and go or are cut off, whatever datagram is lost, as long as no
\* slave keeps the temporary address when recovery clears it ("clear possible slaves at
\* EC_TEMPNODE", ecx_recover_slave).
THEOREM EverySlaveKeepsItsAddress == Spec => []AddressIsOwn
BY AddressInvHolds, PTL DEF AddressInv

--------------------------------------------------------------------------------
(* What the thread believes of slaves that can be told apart. *)

\* Only the slave itself answers at its address.
LEMMA AtOwn == ASSUME Distinct, OwnAddresses, NEW s \in Slave PROVE At(s) \subseteq {s}
<1>1. ASSUME NEW r \in At(s) PROVE r = s
  <2>1. r \in Slave /\ dev[r].addr = s
    BY <1>1 DEF At
  <2>2. Alike(r, s)
    BY <2>1 DEF OwnAddresses
  <2>3. QED
    BY <2>1, <2>2 DEF Distinct
<1>2. QED
  BY <1>1

LEMMA AlOfOwn ==
    ASSUME Distinct, OwnAddresses, NEW s \in Slave PROVE AlOf(s) \in {Al("NONE"), dev[s].al}
BY AtOwn, HeardAnswers DEF AlOf

LEMMA BeliefKept ==
    ASSUME BeliefHolds,
           \A s \in Slave : dev'[s].addr = s =>
               dev[s].addr = s /\ (dev'[s].al = Al("OPERATIONAL") => dev[s].al = Al("OPERATIONAL")),
           \A s \in Slave : Due(s)' \/ InHand(s)' => Due(s) \/ InHand(s)
    PROVE  BeliefHolds'
BY DEF BeliefHolds

LEMMA EnvironmentBelief ==
    ASSUME TypeOK, BeliefHolds, Cycle \/ PowerOff \/ PowerOn \/ Watchdog
    PROVE  BeliefHolds'
<1>1. \A s \in Slave : Due(s)' \/ InHand(s)' => Due(s) \/ InHand(s)
  BY EnvironmentChanges DEF guardVars, Due, InHand
<1>2. QED
  BY <1>1, EnvironmentChanges, BeliefKept

LEMMA ReadstateBelief ==
    ASSUME Distinct, TypeOK, OwnAddresses, BeliefHolds, Readstate
    PROVE  BeliefHolds'
<1>1. /\ dev' = dev /\ slave' = slave
      /\ pc' \in {"broadcast", "multi", "check"}
  BY DEF Readstate, Start, Broadcast, ReadEach, Goto
<1>2. CASE pc' # "check"
  BY <1>1, <1>2 DEF BeliefHolds, Due, InHand, Reconfiguring
<1>3. SUFFICES ASSUME pc' = "check", NEW s \in Slave, dev[s].addr = s, Below(slavelist'[s].al)
               PROVE  dev[s].al # Al("OPERATIONAL")
  BY <1>1, <1>2 DEF BeliefHolds, Due, InHand, Reconfiguring
<1>4. CASE Broadcast
  <2>1. PICK shown \in States :
           /\ slavelist' = [r \in Slave |-> [slavelist[r] EXCEPT !.al = Al(shown)]]
           /\ \A r \in Slave : \/ dev[r].al = Al(shown)
                               \/ shown = "BOOT" /\ dev[r].al \in {Al("INIT"), Al("PRE_OP")}
    BY <1>3, <1>4, BroadcastTells
  <2>2. slavelist'[s].al = Al(shown)
    BY <2>1 DEF TypeOK
  <2>3. Al(shown) # Al("OPERATIONAL") /\ Al("INIT") # Al("OPERATIONAL") /\ Al("PRE_OP") # Al("OPERATIONAL")
    BY <1>3, <2>2 DEF Below, Al
  <2>4. QED
    BY <2>1, <2>3
<1>5. CASE ReadEach
  <2>1. slavelist'[s].al \in {AlOf(s), Al("NONE")}
    BY <1>5 DEF ReadEach, TypeOK
  <2>2. slavelist'[s].al \in {dev[s].al, Al("NONE")}
    BY <2>1, AlOfOwn
  <2>3. ~Below(Al("NONE")) /\ ~Below(Al("OPERATIONAL"))
    BY DEF Below, Al
  <2>4. QED
    BY <1>3, <2>2, <2>3
<1>6. CASE Start
  BY <1>3, <1>6 DEF Start, Goto
<1>7. QED
  BY <1>4, <1>5, <1>6 DEF Readstate

\* A step that changes no slave: what is due or in hand has been so before.
LEMMA NoWriteBelief ==
    ASSUME BeliefHolds, dev' = dev,
           \A s \in Slave : Due(s)' \/ InHand(s)' => Due(s) \/ InHand(s)
    PROVE  BeliefHolds'
BY BeliefKept

\* A write to the AL control register in the turn of a slave that is due or in hand.
LEMMA AlWriteBelief ==
    ASSUME Distinct, TypeOK, OwnAddresses, BeliefHolds,
           NEW req, NEW ack, NEW ok, AlControlTo(req, ack, ok),
           slave' = slave, Due(slave) \/ InHand(slave),
           req \in {"INIT", "PRE_OP", "SAFE_OP"} \/ ~InHand(slave)',
           \A s \in Slave : s > slave => slavelist'[s] = slavelist[s],
           pc' # "check"
    PROVE  BeliefHolds'
<1>1. \A s \in Slave \ {slave} : dev'[s] = dev[s]
  BY AlWritten, AtOwn DEF TypeOK
<1>2. dev'[slave] \in {dev[slave], AlControl(dev[slave], req, ack)}
  BY AlWritten DEF TypeOK
<1>3. slave \in Slave /\ dev[slave] \in Device
  BY DEF TypeOK
<1>4. \A s \in Slave : dev'[s].on = dev[s].on /\ dev'[s].addr = dev[s].addr
  BY <1>1, <1>2, <1>3, AlControlKeeps
<1>5. ASSUME NEW s \in Slave, dev'[s].addr = s, Due(s)' \/ InHand(s)'
      PROVE  dev'[s].al # Al("OPERATIONAL")
  <2>1. CASE s = slave
    <3>1. InHand(s)' /\ req \in {"INIT", "PRE_OP", "SAFE_OP"}
      BY <1>3, <1>5, <2>1 DEF Due, InHand, Slave
    <3>2. dev[s].al # Al("OPERATIONAL")
      BY <1>4, <1>5, <2>1 DEF BeliefHolds
    <3>3. QED
      BY <1>2, <1>3, <2>1, <3>1, <3>2, AlControlKeeps
  <2>2. CASE s # slave
    <3>1. Due(s)
      <4>1. s > slave /\ Below(slavelist[s].al)
        BY <1>5, <2>2 DEF Due, InHand
      <4>2. pc \notin {"sleep", "broadcast", "multi"}
        BY DEF Due, InHand, Reconfiguring
      <4>3. QED
        BY <4>1, <4>2 DEF Due
    <3>2. QED
      BY <1>1, <1>5, <2>2, <3>1 DEF BeliefHolds
  <2>3. QED
    BY <2>1, <2>2
<1>6. QED
  BY <1>5 DEF BeliefHolds

LEMMA TurnBelief ==
    ASSUME Distinct, TypeOK, OwnAddresses, BeliefHolds, Turn
    PROVE  BeliefHolds'
<1>1. slave \in Slave /\ \A s \in Slave : s \in Nat
  BY DEF TypeOK, Slave
<1>2. CASE CheckOperational
  <2>1. \A s \in Slave : Due(s)' \/ InHand(s)' => Due(s)
    BY <1>1, <1>2 DEF CheckOperational, Goto, Due, InHand, Reconfiguring
  <2>2. QED
    BY <1>2, <2>1, NoWriteBelief DEF CheckOperational
<1>3. CASE CheckSafeOp
  <2>1. PICK ok \in BOOLEAN, req \in {"SAFE_OP", "OPERATIONAL"}, ack \in BOOLEAN :
           AlControlTo(req, ack, ok)
    BY <1>3 DEF CheckSafeOp
  <2>2. \A s \in Slave : s > slave => slavelist'[s] = slavelist[s]
    <3>1. slavelist' = slavelist \/ slavelist' = [slavelist EXCEPT ![slave].al = Al("OPERATIONAL")]
      BY <1>3 DEF CheckSafeOp, Believe
    <3>2. QED
      BY <1>1, <3>1 DEF TypeOK
  <2>3. Due(slave)
    BY <1>1, <1>3 DEF CheckSafeOp, Due, Below, Al, al
  <2>4. slave' = slave /\ pc' = "lost"
    BY <1>3 DEF CheckSafeOp, Goto
  <2>5. ~InHand(slave)' /\ pc' # "check"
    BY <2>4 DEF InHand, Reconfiguring
  <2>6. QED
    BY <2>1, <2>2, <2>3, <2>4, <2>5, AlWriteBelief
<1>4. CASE CheckOther
  <2>1. Due(slave)
    BY <1>1, <1>4 DEF CheckOther, Due, Below, al
  <2>2. \A s \in Slave : Due(s)' \/ InHand(s)' => Due(s)
    BY <1>1, <1>4, <2>1 DEF CheckOther, Goto, Due, InHand
  <2>3. QED
    BY <1>4, <2>2, NoWriteBelief DEF CheckOther
<1>5. CASE CheckNone
  <2>1. \A s \in Slave : Due(s)' \/ InHand(s)' => Due(s)
    BY <1>1, <1>5 DEF CheckNone, Goto, Due, InHand, Reconfiguring
  <2>2. QED
    BY <1>5, <2>1, NoWriteBelief DEF CheckNone
<1>6. CASE RecheckState
  <2>1. \A s \in Slave \ {slave} : slavelist'[s] = slavelist[s]
    BY <1>6 DEF RecheckState, TypeOK
  <2>2. \A s \in Slave : Due(s)' \/ InHand(s)' => Due(s)
    BY <1>1, <1>6, <2>1 DEF RecheckState, Goto, Due, InHand, Reconfiguring
  <2>3. QED
    BY <1>6, <2>2, NoWriteBelief DEF RecheckState
<1>7. CASE CheckLost
  <2>1. \A s \in Slave \ {slave} : slavelist'[s] = slavelist[s]
    BY <1>7 DEF CheckLost, Found, TypeOK
  <2>2. \/ slave' = slave /\ pc' = "position"
        \/ slave' = slave + 1 /\ pc' = "check"
        \/ pc' = "sleep"
    BY <1>7 DEF CheckLost, Goto, NextSlave
  <2>3. \A s \in Slave : Due(s)' \/ InHand(s)' => Due(s) \/ InHand(s)
    BY <1>1, <1>7, <2>1, <2>2 DEF CheckLost, Due, InHand, Reconfiguring
  <2>4. QED
    BY <1>7, <2>3, NoWriteBelief DEF CheckLost
<1>8. QED
  BY <1>2, <1>3, <1>4, <1>5, <1>6, <1>7 DEF Turn

LEMMA ReconfigBelief ==
    ASSUME Distinct, TypeOK, OwnAddresses, BeliefHolds, Reconfig
    PROVE  BeliefHolds'
<1>1. slave \in Slave /\ \A s \in Slave : s \in Nat
  BY DEF TypeOK, Slave
<1>2. pc \in Reconfiguring /\ pc' \in Reconfiguring \cup {"lost"} /\ slave' = slave
  BY DEF Reconfig, ReconfigInit, StateCheck, CheckInit, CheckPreOp, ReconfigSM, ReconfigPreOp,
         Hook, ReconfigSafeOp, CheckSafeOpReached, ReconfigFMMU, Goto, Reconfiguring
<1>3. InHand(slave) /\ pc' # "check"
  BY <1>2 DEF InHand, Reconfiguring
<1>4. \A s \in Slave \ {slave} : slavelist'[s] = slavelist[s]
  BY DEF Reconfig, ReconfigInit, StateCheck, CheckInit, CheckPreOp, ReconfigSM, ReconfigPreOp,
         Hook, ReconfigSafeOp, CheckSafeOpReached, Believe, ReconfigFMMU, TypeOK
<1>5. \A s \in Slave : Due(s)' \/ InHand(s)' => Due(s) \/ InHand(s)
  <2>1. pc \notin {"sleep", "broadcast", "multi", "check"}
    BY <1>2 DEF Reconfiguring
  <2>2. QED
    BY <1>1, <1>2, <1>3, <1>4, <2>1 DEF Due, InHand
<1>6. CASE ReconfigInit \/ ReconfigPreOp \/ ReconfigSafeOp
  <2>1. PICK ok \in BOOLEAN, req \in {"INIT", "PRE_OP", "SAFE_OP"} : AlControlTo(req, FALSE, ok)
    BY <1>6 DEF ReconfigInit, ReconfigPreOp, ReconfigSafeOp
  <2>2. \A s \in Slave : s > slave => slavelist'[s] = slavelist[s]
    BY <1>1, <1>4
  <2>3. QED
    BY <1>2, <1>3, <2>1, <2>2, AlWriteBelief
<1>7. CASE ~(ReconfigInit \/ ReconfigPreOp \/ ReconfigSafeOp)
  <2>1. \A s \in Slave : dev'[s].addr = dev[s].addr /\ dev'[s].al = dev[s].al
    BY <1>7, ReconfigWrites, PreparedKeeps
  <2>2. QED
    BY <1>5, <2>1, BeliefKept
<1>8. QED
  BY <1>6, <1>7

\* What a recovery changes of a slave.
LEMMA RecoverChanges ==
    ASSUME TypeOK, Recover, NEW s \in Slave
    PROVE  /\ dev'[s].on = dev[s].on /\ dev'[s].al = dev[s].al /\ dev'[s].fmmu = dev[s].fmmu
           /\ dev'[s].addr \in {dev[s].addr, NoAddress, TEMPNODE, slave}
<1>1. {NoAddress, slave} \subseteq Address /\ {"clear", "address"} \subseteq Unchecked
  BY DEF TypeOK, Address, Unchecked
<1>2. CASE ReadAddress \/ CompareAlias \/ CompareId \/ CompareManufacturer \/ CompareRevision
  BY <1>2 DEF ReadAddress, CompareAlias, CompareId, CompareManufacturer, CompareRevision, Compare
<1>3. CASE SetTemp
  <2>1. dev'[s] \in {dev[s], [dev[s] EXCEPT !.addr = TEMPNODE]}
    BY <1>3 DEF SetTemp, Write, TypeOK
  <2>2. dev[s] \in Device
    BY DEF TypeOK
  <2>3. QED
    BY <2>1, <2>2 DEF Device
<1>4. CASE ClearNode
  BY <1>1, <1>4, AddressWritten DEF ClearNode
<1>5. CASE SetConfigAddress
  BY <1>1, <1>5, AddressWritten DEF SetConfigAddress
<1>6. CASE RemoveAddress
  BY <1>1, <1>6, AddressWritten DEF RemoveAddress
<1>7. QED
  BY <1>2, <1>3, <1>4, <1>5, <1>6 DEF Recover

LEMMA RecoverBelief ==
    ASSUME TypeOK, BeliefHolds, Recover
    PROVE  BeliefHolds'
<1>1. slave \in Slave /\ \A s \in Slave : s \in Nat
  BY DEF TypeOK, Slave
<1>2. pc \in {"position", "clear", "temp"} \cup Identifying
  BY DEF Recover, ReadAddress, ClearNode, SetTemp, CompareAlias, CompareId, CompareManufacturer,
         CompareRevision, Compare, SetConfigAddress, RemoveAddress, Identifying
<1>3. \/ slave' = slave /\ pc' \in {"clear", "temp"} \cup Identifying
      \/ slave' = slave + 1 /\ pc' = "check"
      \/ pc' = "sleep"
  BY DEF Recover, ReadAddress, ClearNode, SetTemp, CompareAlias, CompareId, CompareManufacturer,
         CompareRevision, Compare, SetConfigAddress, RemoveAddress, Goto, NextSlave, Identifying
<1>4. \A s \in Slave \ {slave} : slavelist'[s] = slavelist[s]
  BY DEF Recover, ReadAddress, ClearNode, SetTemp, CompareAlias, CompareId, CompareManufacturer,
         CompareRevision, Compare, SetConfigAddress, RemoveAddress, Found, TypeOK
<1>5. \A s \in Slave : Due(s)' \/ InHand(s)' => Due(s) /\ s > slave
  BY <1>1, <1>2, <1>3, <1>4 DEF Due, InHand, Reconfiguring, Identifying
<1>6. ASSUME NEW s \in Slave, dev'[s].addr = s, Due(s)' \/ InHand(s)'
      PROVE  dev'[s].al # Al("OPERATIONAL")
  <2>1. dev[s].addr = s
    BY <1>1, <1>5, <1>6, RecoverChanges DEF NoAddress, TEMPNODE, Slave
  <2>2. dev[s].al # Al("OPERATIONAL")
    BY <1>5, <1>6, <2>1 DEF BeliefHolds
  <2>3. QED
    BY <2>2, RecoverChanges
<1>7. QED
  BY <1>6 DEF BeliefHolds

LEMMA GuardInvStep == ASSUME Distinct, GuardInv, [Next]_vars PROVE GuardInv'
<1>1. AddressInv' /\ missed \subseteq missed'
  BY AddressInvStep DEF GuardInv
<1>2. CASE UNCHANGED vars
  BY <1>1, <1>2 DEF vars, guardVars, GuardInv, BeliefHolds, Due, InHand
<1>3. CASE Next
  <2>1. ASSUME "clear" \notin missed' PROVE BeliefHolds'
    <3>1. TypeOK /\ OwnAddresses /\ BeliefHolds
      BY <1>1, <2>1 DEF GuardInv, AddressInv, AddressIsOwn
    <3>2. QED
      BY <1>3, <3>1, EnvironmentBelief, ReadstateBelief, TurnBelief, ReconfigBelief, RecoverBelief
         DEF Next, ecatcheck
  <2>2. QED
    BY <1>1, <2>1 DEF GuardInv
<1>4. QED
  BY <1>2, <1>3

LEMMA GuardInvHolds == ASSUME Distinct PROVE Spec => []GuardInv
<1>1. Init => BeliefHolds
  BY DEF Init, BeliefHolds, Due, InHand, Reconfiguring
<1>2. Init => GuardInv
  BY <1>1, AddressInvInit DEF GuardInv
<1>3. Distinct => (GuardInv /\ [Next]_vars => GuardInv')
  BY GuardInvStep
<1>4. QED
  BY <1>2, <1>3, PTL DEF Spec

LEMMA ThreadKeepsUp ==
    ASSUME Distinct, TypeOK, OwnAddresses, BeliefHolds, ecatcheck, NEW s \in Slave
    PROVE  /\ dev'[s].on = dev[s].on
           /\ dev[s].fmmu => dev'[s].fmmu
           /\ dev[s].al = Al("OPERATIONAL") => dev'[s].al = Al("OPERATIONAL")
<1>1. slave \in Slave /\ dev[s] \in Device
  BY DEF TypeOK
<1>2. ASSUME NEW req, NEW ack, NEW ok, AlControlTo(req, ack, ok), Due(slave) \/ InHand(slave)
      PROVE  /\ dev'[s].on = dev[s].on
             /\ dev[s].fmmu => dev'[s].fmmu
             /\ dev[s].al = Al("OPERATIONAL") => dev'[s].al = Al("OPERATIONAL")
  <2>1. CASE s \in At(slave)
    <3>1. s = slave /\ dev[s].addr = s
      BY <1>1, <2>1, AtOwn DEF At
    <3>2. dev[s].al # Al("OPERATIONAL")
      BY <1>1, <1>2, <3>1 DEF BeliefHolds
    <3>3. dev'[s] = dev[s] \/ dev'[s] = AlControl(dev[s], req, ack)
      BY <1>2, AlWritten
    <3>4. QED
      BY <1>1, <3>2, <3>3, AlControlKeeps
  <2>2. CASE s \notin At(slave)
    BY <1>2, <2>2, AlWritten
  <2>3. QED
    BY <2>1, <2>2
<1>3. CASE CheckSafeOp
  <2>1. PICK ok \in BOOLEAN, req \in {"SAFE_OP", "OPERATIONAL"}, ack \in BOOLEAN :
           AlControlTo(req, ack, ok)
    BY <1>3 DEF CheckSafeOp
  <2>2. Due(slave)
    BY <1>1, <1>3 DEF CheckSafeOp, Due, Below, Al, al
  <2>3. QED
    BY <1>2, <2>1, <2>2
<1>4. CASE ReconfigInit \/ ReconfigPreOp \/ ReconfigSafeOp
  <2>1. PICK ok \in BOOLEAN, req \in {"INIT", "PRE_OP", "SAFE_OP"} : AlControlTo(req, FALSE, ok)
    BY <1>4 DEF ReconfigInit, ReconfigPreOp, ReconfigSafeOp
  <2>2. InHand(slave)
    BY <1>1, <1>4 DEF ReconfigInit, ReconfigPreOp, ReconfigSafeOp, InHand, Reconfiguring
  <2>3. QED
    BY <1>2, <2>1, <2>2
<1>5. CASE Readstate
  BY <1>5 DEF Readstate, Start, Broadcast, ReadEach
<1>6. CASE Turn /\ ~CheckSafeOp
  BY <1>6 DEF Turn, CheckOperational, CheckOther, CheckNone, RecheckState, CheckLost
<1>7. CASE Reconfig /\ ~(ReconfigInit \/ ReconfigPreOp \/ ReconfigSafeOp)
  BY <1>7, ReconfigWrites, PreparedKeeps
<1>8. CASE Recover
  BY <1>8, RecoverChanges
<1>9. QED
  BY <1>3, <1>4, <1>5, <1>6, <1>7, <1>8 DEF ecatcheck

\* ecatcheck takes no slave that exchanges its data out of OPERATIONAL, however old the
\* states are that it acts on, if no two slaves are alike and no slave has kept the
\* temporary address when recovery cleared it.
THEOREM HealthySlavesAreLeftAlone == ASSUME Distinct PROVE Spec => HealthyLeftAlone
<1>1. ASSUME GuardInv, ecatcheck, "clear" \notin missed, NEW s \in Slave, Exchanging(s)
      PROVE  Exchanging(s)'
  <2>1. TypeOK /\ OwnAddresses /\ BeliefHolds
    BY <1>1 DEF GuardInv, AddressInv, AddressIsOwn
  <2>2. \A r \in Slave : dev'[r].on = dev[r].on
    BY <1>1, <2>1, ThreadKeepsUp
  <2>3. /\ dev[s].fmmu => dev'[s].fmmu
        /\ dev[s].al = Al("OPERATIONAL") => dev'[s].al = Al("OPERATIONAL")
    BY <1>1, <2>1, ThreadKeepsUp
  <2>4. Reachable(s)'
    BY <1>1, <2>2 DEF Exchanging, Reachable
  <2>5. QED
    BY <1>1, <2>3, <2>4 DEF Exchanging
<1>2. GuardInv /\ [Next]_vars =>
        (ecatcheck /\ "clear" \notin missed => \A s \in Slave : Exchanging(s) => Exchanging(s)')
  BY <1>1
<1>3. QED
  BY <1>2, GuardInvHolds, PTL DEF HealthyLeftAlone, Spec

--------------------------------------------------------------------------------
(* The broadcast. *)

\* What one broadcast stores for a slave that has its address is the state of a slave
\* that answers at that address: whichever slaves come and go, are alike or behind one
\* another, and whatever is lost.
THEOREM BroadcastIsTrue == Spec => StateIsSlaves
<1>1. ASSUME TypeOK, Next, pc = "broadcast", pc' = "check", NEW s \in Slave, dev[s].addr = s
      PROVE  Shown(s, slavelist'[s].al)
  <2>1. Broadcast
    BY <1>1 DEF Next, ecatcheck, Readstate, Turn, Reconfig, Recover, Start, ReadEach,
        CheckOperational, CheckSafeOp, CheckOther, CheckNone, RecheckState, CheckLost,
        ReconfigInit, StateCheck, CheckInit, CheckPreOp, ReconfigSM, ReconfigPreOp, Hook,
        ReconfigSafeOp, CheckSafeOpReached, ReconfigFMMU, ReadAddress, ClearNode, SetTemp,
        CompareAlias, CompareId, CompareManufacturer, CompareRevision, Compare,
        SetConfigAddress, RemoveAddress, Cycle, PowerOff, PowerOn, Watchdog, guardVars
  <2>2. PICK shown \in States :
           /\ slavelist' = [r \in Slave |-> [slavelist[r] EXCEPT !.al = Al(shown)]]
           /\ \A r \in Slave : /\ Reachable(r)
                               /\ \/ dev[r].al = Al(shown)
                                  \/ shown = "BOOT" /\ dev[r].al \in {Al("INIT"), Al("PRE_OP")}
    BY <1>1, <2>1, BroadcastTells
  <2>3. slavelist'[s].al = Al(shown)
    <3>1. slavelist[s] \in [al : AlStatus, islost : BOOLEAN]
      BY <1>1 DEF TypeOK
    <3>2. slavelist'[s] = [slavelist[s] EXCEPT !.al = Al(shown)]
      BY <2>2
    <3>3. QED
      BY <3>1, <3>2
  <2>4. s \in At(s)
    BY <1>1, <2>2 DEF At
  <2>5. PICK r \in At(s) : AlOf(s) = dev[r].al
    BY <2>4, HeardAnswers DEF AlOf
  <2>6. r \in Slave
    BY <2>5 DEF At
  <2>7. QED
    BY <2>2, <2>3, <2>5, <2>6 DEF Shown
<1>2. TypeOK /\ [Next]_vars =>
        (pc = "broadcast" /\ pc' = "check" => \A s \in Slave : dev[s].addr = s => Shown(s, slavelist'[s].al))
  BY <1>1 DEF vars, guardVars
<1>3. QED
  BY <1>2, TypeCorrect, PTL DEF StateIsSlaves, Spec
================================================================================
