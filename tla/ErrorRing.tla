------------------------------- MODULE ErrorRing -------------------------------
(***************************************************************************)
(* The error list of the master (ethercatmain.c: ecx_pusherror,            *)
(* ecx_poperror, ecx_iserror) together with the way the programs use it:   *)
(* EtherCAT calls push errors, and between calls the program runs          *)
(*      while (EcatError) printf("%s", ec_elist2string());                 *)
(* The list is a ring of MAXELIST + 1 slots: one slot always stays free,   *)
(* so that head = tail means empty.                                        *)
(***************************************************************************)
EXTENDS Naturals, Sequences

CONSTANTS Errors,    \* the error records, told apart only by identity
          MAXELIST,  \* EC_MAXELIST (64 in the code)
          NoError    \* content of a slot that was never written

ASSUME RingAssumption == MAXELIST \in Nat \ {0}

VARIABLES Error,     \* elist.Error: slots with content and Signal mark
          head,      \* elist.head: the slot the next error goes to
          tail,      \* elist.tail: the oldest error
          ecaterror, \* *context.ecaterror, the global EcatError
          draining   \* the program is inside its "while (EcatError)" loop

vars == <<Error, head, tail, ecaterror, draining>>

Slots == 0 .. MAXELIST
Entry == [err : Errors \cup {NoError}, Signal : BOOLEAN]

TypeOK == /\ Error \in [Slots -> Entry]
          /\ head \in Slots
          /\ tail \in Slots
          /\ ecaterror \in BOOLEAN
          /\ draining \in BOOLEAN

Init == /\ Error = [s \in Slots |-> [err |-> NoError, Signal |-> FALSE]]
        /\ head = 0
        /\ tail = 0
        /\ ecaterror = FALSE
        /\ draining = FALSE

\* Mutant: the wrap is tested before the increment.
AdvanceLate(x) == IF x > MAXELIST THEN 0 ELSE x + 1

\* "x++; if (x > EC_MAXELIST) x = 0"
Advance(x) == IF x + 1 > MAXELIST THEN 0 ELSE x + 1

iserror == head # tail

--------------------------------------------------------------------------------
\* Mutant: the flag is left to the callers.
pusherrorNoFlag(e) ==
    /\ ~draining
    /\ Error' = [Error EXCEPT ![head] = [err |-> e, Signal |-> TRUE]]
    /\ head' = Advance(head)
    /\ tail' = IF Advance(head) = tail THEN Advance(tail) ELSE tail
    /\ UNCHANGED <<ecaterror, draining>>

\* Mutant: a full ring does not push its tail ahead.
pusherrorNoTail(e) ==
    /\ ~draining
    /\ Error' = [Error EXCEPT ![head] = [err |-> e, Signal |-> TRUE]]
    /\ head' = Advance(head)
    /\ ecaterror' = TRUE
    /\ UNCHANGED <<tail, draining>>

\* ecx_pusherror: an EtherCAT call of the program reports error e.
pusherror(e) ==
    /\ ~draining
    /\ Error' = [Error EXCEPT ![head] = [err |-> e, Signal |-> TRUE]]
    /\ head' = Advance(head)
    /\ tail' = IF Advance(head) = tail THEN Advance(tail) ELSE tail
    /\ ecaterror' = TRUE
    /\ UNCHANGED draining

\* The program reaches its loop and finds the flag set.
StartDrain ==
    /\ ~draining
    /\ ecaterror
    /\ draining' = TRUE
    /\ UNCHANGED <<Error, head, tail, ecaterror>>

\* Mutant: an empty list leaves the flag up.
poperrorKeepsFlag ==
    /\ draining
    /\ Error' = [Error EXCEPT ![tail].Signal = FALSE]
    /\ tail' = IF iserror THEN Advance(tail) ELSE tail
    /\ UNCHANGED <<head, ecaterror, draining>>

\* ecx_poperror, called once per turn of the loop (through ecx_elist2string);
\* the loop ends as soon as the flag is down.
poperror ==
    /\ draining
    /\ Error' = [Error EXCEPT ![tail].Signal = FALSE]
    /\ IF iserror
         THEN /\ tail' = Advance(tail)
              /\ UNCHANGED ecaterror
         ELSE /\ ecaterror' = FALSE
              /\ UNCHANGED tail
    /\ draining' = ecaterror'
    /\ UNCHANGED head

Next == \/ \E e \in Errors : pusherror(e)
        \/ StartDrain
        \/ poperror

Spec == Init /\ [][Next]_vars
\* The drain loop is straight-line sequential code: once in it, it runs on.
FairSpec == Spec /\ WF_vars(poperror)
--------------------------------------------------------------------------------
\* How many errors the ring holds, and which they are, oldest first.
Pending == IF head >= tail THEN head - tail ELSE head + MAXELIST + 1 - tail
SlotOf(i) == IF tail + i > MAXELIST THEN tail + i - (MAXELIST + 1) ELSE tail + i
Window == [i \in 1 .. Pending |-> Error[SlotOf(i - 1)].err]

Fifo == INSTANCE LossyFifo WITH Capacity <- MAXELIST,
                                queue <- Window,
                                flag <- ecaterror

\* The ring with its two wrapping indices behaves as a FIFO that loses only its
\* oldest entry, and only when it is full (ecx_pusherror and ecx_poperror).
RefinesFifo == Fifo!Spec

\* No error is ever hidden from the applications, which look at EcatError and
\* never at the indices (ecx_poperror clears the flag, ecx_pusherror sets it).
PendingIsFlagged == iserror => ecaterror

\* Every slot between tail and head carries the Signal mark of an unread error,
\* also after the ring has wrapped and overwritten its oldest slots.
PendingIsSignalled == \A i \in 1 .. Pending : Error[SlotOf(i - 1)].Signal

\* The loop of the applications ends, and leaves the list empty.
DrainEnds == draining ~> (~draining /\ ~iserror)
================================================================================
