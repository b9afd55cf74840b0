---------------------------- MODULE ErrorRing_proof ----------------------------
(***************************************************************************)
(* Proofs about the error ring, for every EC_MAXELIST and every set of     *)
(* errors: types, the flag, the Signal marks, and that the ring implements *)
(* the bounded FIFO that loses only its oldest entry.                      *)
(***************************************************************************)
EXTENDS ErrorRing, TLAPS

USE RingAssumption DEF RingAssumption

\* The indices and slots stay in range, so no access leaves Error[EC_MAXELIST+1].
THEOREM TypeCorrect == Spec => []TypeOK
<1>1. Init => TypeOK
  <2>1. [err |-> NoError, Signal |-> FALSE] \in Entry
    BY DEF Entry
  <2>2. Init => Error \in [Slots -> Entry]
    BY <2>1 DEF Init
  <2>3. Init => head \in Slots /\ tail \in Slots
    BY DEF Init, Slots
  <2>4. QED
    BY <2>2, <2>3 DEF Init, TypeOK
<1>2. TypeOK /\ [Next]_vars => TypeOK'
  <2> SUFFICES ASSUME TypeOK, [Next]_vars PROVE TypeOK'
    OBVIOUS
  <2> USE DEF TypeOK, Slots, Advance
  <2>1. ASSUME NEW e \in Errors, pusherror(e) PROVE TypeOK'
    <3>1. [err |-> e, Signal |-> TRUE] \in Entry
      BY DEF Entry
    <3>2. Error' \in [Slots -> Entry]
      BY <2>1, <3>1 DEF pusherror
    <3>3. head' \in Slots /\ tail' \in Slots
      BY <2>1 DEF pusherror
    <3>4. ecaterror' \in BOOLEAN /\ draining' \in BOOLEAN
      BY <2>1 DEF pusherror
    <3>5. QED
      BY <3>2, <3>3, <3>4
  <2>2. CASE StartDrain
    BY <2>2 DEF StartDrain
  <2>3. CASE poperror
    <3>1. [Error[tail] EXCEPT !.Signal = FALSE] \in Entry
      BY DEF Entry
    <3>2. Error' \in [Slots -> Entry]
      BY <2>3, <3>1 DEF poperror
    <3>3. head' \in Slots /\ tail' \in Slots
      BY <2>3 DEF poperror
    <3>4. ecaterror' \in BOOLEAN /\ draining' \in BOOLEAN
      BY <2>3 DEF poperror
    <3>5. QED
      BY <3>2, <3>3, <3>4
  <2>4. CASE UNCHANGED vars
    BY <2>4 DEF vars
  <2>5. QED
    BY <2>1, <2>2, <2>3, <2>4 DEF Next
<1>3. QED
  BY <1>1, <1>2, PTL DEF Spec

\* The number of errors held, and what a push and a pop do to it.
LEMMA PendingBounds ==
    ASSUME TypeOK
    PROVE  /\ Pending \in 0 .. MAXELIST
           /\ Pending = 0 <=> head = tail
  BY DEF TypeOK, Slots, Pending

LEMMA PendingAfterPush ==
    ASSUME TypeOK, NEW e \in Errors, pusherror(e)
    PROVE  /\ Pending < MAXELIST => Pending' = Pending + 1 /\ tail' = tail
           /\ Pending = MAXELIST => Pending' = MAXELIST /\ tail' = Advance(tail)
<1> USE DEF TypeOK, Slots, Pending, Advance
<1>1. /\ head' = Advance(head)
      /\ tail' = IF Advance(head) = tail THEN Advance(tail) ELSE tail
  BY DEF pusherror
<1>2. CASE head + 1 > MAXELIST
  BY <1>1, <1>2
<1>3. CASE ~(head + 1 > MAXELIST)
  BY <1>1, <1>3
<1>4. QED
  BY <1>2, <1>3

LEMMA PendingAfterPop ==
    ASSUME TypeOK, poperror, iserror
    PROVE  Pending > 0 /\ Pending' = Pending - 1
  BY DEF TypeOK, Slots, Pending, poperror, Advance, iserror

\* The flag is up whenever an error is waiting.
THEOREM FlagCorrect == Spec => []PendingIsFlagged
<1>1. Init => PendingIsFlagged
  BY DEF Init, PendingIsFlagged, iserror
<1>2. PendingIsFlagged /\ [Next]_vars => PendingIsFlagged'
  BY DEF PendingIsFlagged, iserror, Next, vars, pusherror, StartDrain, poperror
<1>3. QED
  BY <1>1, <1>2, PTL DEF Spec

\* Position i of the window before and after a push that finds room, a push
\* that overwrites, and a pop.
LEMMA SlotInRange ==
    ASSUME TypeOK, NEW i \in 0 .. MAXELIST
    PROVE  SlotOf(i) \in Slots
  BY DEF TypeOK, Slots, SlotOf

LEMMA SlotAtEnd ==
    ASSUME TypeOK PROVE SlotOf(Pending) = head
  BY DEF TypeOK, Slots, SlotOf, Pending

LEMMA SlotBeforeEnd ==
    ASSUME TypeOK, NEW i \in 0 .. Pending - 1 PROVE SlotOf(i) # head
  BY DEF TypeOK, Slots, SlotOf, Pending

LEMMA SlotShift ==
    ASSUME TypeOK, tail' = Advance(tail), NEW i \in 0 .. MAXELIST - 1
    PROVE  SlotOf(i)' = SlotOf(i + 1)
  BY DEF TypeOK, Slots, SlotOf, Advance

\* Slot i + 1 of a window position is never the tail slot.
LEMMA SlotAfterTail ==
    ASSUME TypeOK, NEW i \in 1 .. MAXELIST PROVE SlotOf(i) # tail
  BY DEF TypeOK, Slots, SlotOf

\* A push writes position Pending + 1 and leaves the others alone.
LEMMA PushWrites ==
    ASSUME TypeOK, NEW e \in Errors, pusherror(e)
    PROVE  /\ \A i \in 0 .. Pending - 1 : Error'[SlotOf(i)] = Error[SlotOf(i)]
           /\ Error'[SlotOf(Pending)] = [err |-> e, Signal |-> TRUE]
<1>1. Error' = [Error EXCEPT ![head] = [err |-> e, Signal |-> TRUE]]
  BY DEF pusherror
<1>2. Pending \in 0 .. MAXELIST
  BY PendingBounds
<1>3. ASSUME NEW i \in 0 .. Pending - 1
      PROVE  Error'[SlotOf(i)] = Error[SlotOf(i)]
  <2>1. SlotOf(i) # head /\ SlotOf(i) \in Slots
    BY <1>2, SlotBeforeEnd, SlotInRange
  <2>2. QED
    BY <1>1, <2>1 DEF TypeOK
<1>4. Error'[SlotOf(Pending)] = [err |-> e, Signal |-> TRUE]
  BY <1>1, SlotAtEnd DEF TypeOK
<1>5. QED
  BY <1>3, <1>4

\* Every waiting error carries its Signal mark.
THEOREM SignalCorrect == Spec => []PendingIsSignalled
<1>1. Init => PendingIsSignalled
  BY DEF Init, PendingIsSignalled, Pending
<1>2. TypeOK /\ PendingIsSignalled /\ [Next]_vars => PendingIsSignalled'
  <2> SUFFICES ASSUME TypeOK, PendingIsSignalled, [Next]_vars
               PROVE  PendingIsSignalled'
    OBVIOUS
  <2>1. ASSUME NEW e \in Errors, pusherror(e) PROVE PendingIsSignalled'
    <3>1. Pending \in 0 .. MAXELIST
      BY PendingBounds
    <3>2. \A k \in 0 .. Pending : Error'[SlotOf(k)].Signal
      <4>1. \A k \in 0 .. Pending - 1 : Error'[SlotOf(k)].Signal
        <5> SUFFICES ASSUME NEW k \in 0 .. Pending - 1
                     PROVE  Error'[SlotOf(k)].Signal
          OBVIOUS
        <5>1. Error'[SlotOf(k)] = Error[SlotOf(k)]
          BY <2>1, PushWrites
        <5>2. k + 1 \in 1 .. Pending /\ (k + 1) - 1 = k
          BY <3>1
        <5>3. Error[SlotOf((k + 1) - 1)].Signal
          BY <5>2 DEF PendingIsSignalled
        <5>4. QED
          BY <5>1, <5>2, <5>3
      <4>2. Error'[SlotOf(Pending)].Signal
        <5>1. Error'[SlotOf(Pending)] = [err |-> e, Signal |-> TRUE]
          BY <2>1, PushWrites
        <5>2. QED
          BY <5>1
      <4>3. QED
        BY <3>1, <4>1, <4>2
    <3>3. CASE Pending < MAXELIST
      <4>1. Pending' = Pending + 1 /\ tail' = tail
        BY <2>1, <3>3, PendingAfterPush
      <4>2. \A k \in 0 .. Pending : SlotOf(k)' = SlotOf(k)
        BY <4>1 DEF SlotOf
      <4>3. ASSUME NEW i \in 1 .. Pending' PROVE Error'[SlotOf(i - 1)'].Signal
        <5>1. i - 1 \in 0 .. Pending
          BY <3>1, <4>1
        <5>2. QED
          BY <5>1, <4>2, <3>2
      <4>4. QED
        BY <4>3 DEF PendingIsSignalled
    <3>4. CASE Pending = MAXELIST
      <4>1. Pending' = MAXELIST /\ tail' = Advance(tail)
        BY <2>1, <3>4, PendingAfterPush
      <4>2. ASSUME NEW i \in 1 .. Pending' PROVE Error'[SlotOf(i - 1)'].Signal
        <5>1. i - 1 \in 0 .. MAXELIST - 1 /\ (i - 1) + 1 = i /\ i \in 0 .. Pending
          BY <3>4, <4>1
        <5>2. SlotOf(i - 1)' = SlotOf((i - 1) + 1)
          BY <5>1, <4>1, SlotShift
        <5>3. QED
          BY <5>1, <5>2, <3>2
      <4>3. QED
        BY <4>2 DEF PendingIsSignalled
    <3>5. QED
      BY <3>1, <3>3, <3>4
  <2>2. CASE StartDrain
    BY <2>2 DEF StartDrain, PendingIsSignalled, Pending, SlotOf
  <2>3. CASE poperror
    <3>1. CASE iserror
      <4>1. Pending > 0 /\ Pending' = Pending - 1 /\ tail' = Advance(tail)
        BY <2>3, <3>1, PendingAfterPop DEF poperror
      <4>2. ASSUME NEW i \in 1 .. Pending' PROVE Error'[SlotOf(i - 1)'].Signal
        <5>1. /\ i - 1 \in 0 .. MAXELIST - 1 /\ (i - 1) + 1 = i
              /\ i \in 1 .. MAXELIST /\ i + 1 \in 1 .. Pending /\ (i + 1) - 1 = i
          BY <4>1, PendingBounds
        <5>2. SlotOf(i - 1)' = SlotOf(i)
          BY <5>1, <4>1, SlotShift
        <5>3. SlotOf(i) # tail /\ SlotOf(i) \in Slots
          BY <5>1, SlotAfterTail, SlotInRange
        <5>4. Error'[SlotOf(i)] = Error[SlotOf(i)]
          BY <5>3, <2>3 DEF poperror, TypeOK
        <5>5. Error[SlotOf((i + 1) - 1)].Signal
          BY <5>1 DEF PendingIsSignalled
        <5>6. QED
          BY <5>1, <5>2, <5>4, <5>5
      <4>3. QED
        BY <4>2 DEF PendingIsSignalled
    <3>2. CASE ~iserror
      <4>1. Pending' = 0
        BY <2>3, <3>2 DEF poperror, iserror, Pending, TypeOK, Slots
      <4>2. QED
        BY <4>1 DEF PendingIsSignalled
    <3>3. QED
      BY <3>1, <3>2
  <2>4. CASE UNCHANGED vars
    BY <2>4 DEF vars, PendingIsSignalled, Pending, SlotOf
  <2>5. QED
    BY <2>1, <2>2, <2>3, <2>4 DEF Next
<1>3. QED
  BY <1>1, <1>2, TypeCorrect, PTL DEF Spec

--------------------------------------------------------------------------------
\* The window is a sequence as long as the number of waiting errors, and its
\* elements are the errors pushed.
WindowFacts == /\ Pending \in 0 .. MAXELIST
               /\ Window \in Seq(Errors \cup {NoError})
               /\ Len(Window) = Pending
               /\ \A i \in 1 .. Pending : Window[i] = Error[SlotOf(i - 1)].err

LEMMA WindowIsSeq == TypeOK => WindowFacts
<1> SUFFICES ASSUME TypeOK PROVE WindowFacts
  OBVIOUS
<1>1. Pending \in 0 .. MAXELIST
  BY PendingBounds
<1>2. ASSUME NEW i \in 1 .. Pending
      PROVE  Error[SlotOf(i - 1)].err \in Errors \cup {NoError}
  <2>1. i - 1 \in 0 .. MAXELIST
    BY <1>1
  <2>2. SlotOf(i - 1) \in Slots
    BY <2>1, SlotInRange
  <2>3. QED
    BY <2>2 DEF TypeOK, Entry
<1>3. Window \in [1 .. Pending -> Errors \cup {NoError}]
  BY <1>2 DEF Window
<1>4. QED
  BY <1>1, <1>3 DEF Window, WindowFacts

\* A push appends, and drops the oldest error exactly when the ring is full.
LEMMA PushAppends ==
    ASSUME TypeOK, TypeOK', NEW e \in Errors, pusherror(e)
    PROVE  Window' = IF Len(Window) < MAXELIST THEN Append(Window, e)
                                               ELSE Append(Tail(Window), e)
<1>1. /\ Pending \in 0 .. MAXELIST
      /\ Window \in Seq(Errors \cup {NoError})
      /\ Len(Window) = Pending
      /\ \A i \in 1 .. Pending : Window[i] = Error[SlotOf(i - 1)].err
  BY WindowIsSeq DEF WindowFacts
<1>w. WindowFacts'
  BY WindowIsSeq, PTL
<1>2. /\ Pending' \in 0 .. MAXELIST
      /\ Window' \in Seq(Errors \cup {NoError})
      /\ Len(Window') = Pending'
      /\ \A i \in 1 .. Pending' : Window'[i] = Error'[SlotOf(i - 1)'].err
  BY <1>w DEF WindowFacts
<1>3. /\ \A k \in 0 .. Pending - 1 : Error'[SlotOf(k)].err = Window[k + 1]
      /\ Error'[SlotOf(Pending)].err = e
  <2>1. ASSUME NEW k \in 0 .. Pending - 1
        PROVE  Error'[SlotOf(k)].err = Window[k + 1]
    <3>1. k + 1 \in 1 .. Pending /\ (k + 1) - 1 = k
      BY <1>1
    <3>2. Window[k + 1] = Error[SlotOf((k + 1) - 1)].err
      BY <1>1, <3>1
    <3>3. QED
      BY <3>1, <3>2, PushWrites
  <2>2. Error'[SlotOf(Pending)] = [err |-> e, Signal |-> TRUE]
    BY PushWrites
  <2>3. QED
    BY <2>1, <2>2
<1>4. CASE Pending < MAXELIST
  <2>1. Pending' = Pending + 1 /\ tail' = tail
    BY <1>4, PendingAfterPush
  <2>2. ASSUME NEW i \in 1 .. Pending'
        PROVE  Window'[i] = Append(Window, e)[i]
    <3>1. SlotOf(i - 1)' = SlotOf(i - 1)
      BY <2>1 DEF SlotOf
    <3>2. Window'[i] = Error'[SlotOf(i - 1)].err
      BY <1>2, <3>1
    <3>3. CASE i = Pending + 1
      BY <1>1, <1>3, <3>2, <3>3
    <3>4. CASE i \in 1 .. Pending
      <4>1. i - 1 \in 0 .. Pending - 1 /\ (i - 1) + 1 = i
        BY <1>1, <3>4
      <4>2. Error'[SlotOf(i - 1)].err = Window[i]
        BY <1>3, <4>1
      <4>3. QED
        BY <1>1, <3>2, <3>4, <4>2
    <3>5. QED
      BY <1>1, <2>1, <3>3, <3>4
  <2>3. Append(Window, e) \in Seq(Errors \cup {NoError})
        /\ Len(Append(Window, e)) = Pending'
    BY <1>1, <2>1
  <2>4. Window' = Append(Window, e)
    BY <1>2, <2>2, <2>3
  <2>5. QED
    BY <1>1, <1>4, <2>4
<1>5. CASE Pending = MAXELIST
  <2>1. Pending' = MAXELIST /\ tail' = Advance(tail)
    BY <1>5, PendingAfterPush
  <2>2. /\ Tail(Window) \in Seq(Errors \cup {NoError})
        /\ Len(Tail(Window)) = MAXELIST - 1
        /\ \A i \in 1 .. MAXELIST - 1 : Tail(Window)[i] = Window[i + 1]
    BY <1>1, <1>5
  <2>3. ASSUME NEW i \in 1 .. Pending'
        PROVE  Window'[i] = Append(Tail(Window), e)[i]
    <3>1. i - 1 \in 0 .. MAXELIST - 1 /\ (i - 1) + 1 = i
      BY <2>1
    <3>2. SlotOf(i - 1)' = SlotOf(i)
      BY <3>1, <2>1, SlotShift
    <3>3. Window'[i] = Error'[SlotOf(i)].err
      BY <1>2, <3>2
    <3>4. CASE i = MAXELIST
      BY <1>3, <1>5, <2>2, <3>3, <3>4
    <3>5. CASE i \in 1 .. MAXELIST - 1
      <4>1. i \in 0 .. Pending - 1
        BY <1>5, <3>5
      <4>2. Window'[i] = Window[i + 1]
        BY <1>3, <3>3, <4>1
      <4>3. Tail(Window)[i] = Window[i + 1]
        BY <2>2, <3>5
      <4>4. Append(Tail(Window), e)[i] = Tail(Window)[i]
        BY <2>2, <3>5
      <4>5. QED
        BY <4>2, <4>3, <4>4
    <3>6. i = MAXELIST \/ i \in 1 .. MAXELIST - 1
      BY <2>1
    <3>7. QED
      BY <3>4, <3>5, <3>6
  <2>4. Append(Tail(Window), e) \in Seq(Errors \cup {NoError})
        /\ Len(Append(Tail(Window), e)) = Pending'
    BY <2>1, <2>2
  <2>5. Window' = Append(Tail(Window), e)
    BY <1>2, <2>3, <2>4
  <2>6. QED
    BY <1>1, <1>5, <2>5
<1>6. QED
  BY <1>1, <1>4, <1>5

\* A pop of a ring that holds an error removes the oldest one.
LEMMA PopTakesOldest ==
    ASSUME TypeOK, TypeOK', poperror, iserror
    PROVE  Window # <<>> /\ Window' = Tail(Window)
<1>1. /\ Pending \in 0 .. MAXELIST
      /\ Window \in Seq(Errors \cup {NoError})
      /\ Len(Window) = Pending
      /\ \A i \in 1 .. Pending : Window[i] = Error[SlotOf(i - 1)].err
  BY WindowIsSeq DEF WindowFacts
<1>w. WindowFacts'
  BY WindowIsSeq, PTL
<1>2. /\ Window' \in Seq(Errors \cup {NoError})
      /\ Len(Window') = Pending'
      /\ \A i \in 1 .. Pending' : Window'[i] = Error'[SlotOf(i - 1)'].err
  BY <1>w DEF WindowFacts
<1>3. Pending > 0 /\ Pending' = Pending - 1 /\ tail' = Advance(tail)
  BY PendingAfterPop DEF poperror
<1>4. /\ Tail(Window) \in Seq(Errors \cup {NoError})
      /\ Len(Tail(Window)) = Pending'
      /\ \A i \in 1 .. Pending' : Tail(Window)[i] = Window[i + 1]
  BY <1>1, <1>3
<1>5. ASSUME NEW i \in 1 .. Pending' PROVE Window'[i] = Tail(Window)[i]
  <2>1. /\ i - 1 \in 0 .. MAXELIST - 1 /\ (i - 1) + 1 = i
        /\ i \in 1 .. MAXELIST /\ i + 1 \in 1 .. Pending /\ (i + 1) - 1 = i
    BY <1>1, <1>3
  <2>2. SlotOf(i - 1)' = SlotOf(i)
    BY <2>1, <1>3, SlotShift
  <2>3. SlotOf(i) # tail /\ SlotOf(i) \in Slots
    BY <2>1, SlotAfterTail, SlotInRange
  <2>4. Error'[SlotOf(i)] = Error[SlotOf(i)]
    BY <2>3 DEF poperror, TypeOK
  <2>5. Window[i + 1] = Error[SlotOf((i + 1) - 1)].err
    BY <1>1, <2>1
  <2>6. QED
    BY <1>2, <1>4, <2>1, <2>2, <2>4, <2>5
<1>6. Window' = Tail(Window)
  BY <1>2, <1>4, <1>5
<1>7. QED
  BY <1>1, <1>3, <1>6

\* A step that leaves the ring alone is a stuttering step of the FIFO.
LEMMA SameRing ==
    ASSUME Error' = Error, head' = head, tail' = tail, ecaterror' = ecaterror
    PROVE  UNCHANGED Fifo!vars
<1>1. Pending' = Pending /\ \A i : SlotOf(i)' = SlotOf(i)
  BY DEF Pending, SlotOf
<1>2. Window' = Window
  BY <1>1 DEF Window
<1>3. QED
  BY <1>2 DEF Fifo!vars

\* The ring implements the bounded FIFO that loses only its oldest error.
THEOREM RingRefinesFifo == Spec => RefinesFifo
<1>1. Init => Fifo!Init
  BY DEF Init, Fifo!Init, Window, Pending
<1>2. TypeOK /\ TypeOK' /\ [Next]_vars => [Fifo!Next]_Fifo!vars
  <2> SUFFICES ASSUME TypeOK, TypeOK', [Next]_vars PROVE [Fifo!Next]_Fifo!vars
    OBVIOUS
  <2>1. ASSUME NEW e \in Errors, pusherror(e) PROVE Fifo!Push(e)
    BY <2>1, PushAppends DEF Fifo!Push, pusherror
  <2>2. CASE StartDrain
    <3>1. Error' = Error /\ head' = head /\ tail' = tail /\ ecaterror' = ecaterror
      BY <2>2 DEF StartDrain
    <3>2. QED
      BY <3>1, SameRing
  <2>3. CASE poperror /\ iserror
    <3>1. Window # <<>> /\ Window' = Tail(Window)
      BY <2>3, PopTakesOldest
    <3>2. ecaterror' = ecaterror
      BY <2>3 DEF poperror
    <3>3. QED
      BY <3>1, <3>2 DEF Fifo!Next, Fifo!Pop
  <2>4. CASE poperror /\ ~iserror
    <3>1. Window = <<>> /\ Window' = <<>>
      <4>1. Pending = 0 /\ Pending' = 0
        BY <2>4 DEF poperror, iserror, Pending, TypeOK, Slots
      <4>2. QED
        BY <4>1 DEF Window
    <3>2. ecaterror' = FALSE
      BY <2>4 DEF poperror
    <3>3. QED
      BY <3>1, <3>2 DEF Fifo!Next, Fifo!PopEmpty
  <2>5. CASE UNCHANGED vars
    <3>1. Error' = Error /\ head' = head /\ tail' = tail /\ ecaterror' = ecaterror
      BY <2>5 DEF vars
    <3>2. QED
      BY <3>1, SameRing
  <2>6. QED
    BY <2>1, <2>2, <2>3, <2>4, <2>5 DEF Next, Fifo!Next
<1>3. QED
  BY <1>1, <1>2, TypeCorrect, PTL DEF Spec, RefinesFifo, Fifo!Spec
================================================================================
