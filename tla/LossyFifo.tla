------------------------------- MODULE LossyFifo -------------------------------
(***************************************************************************)
(* What a caller of the SOEM error list is promised: a first-in first-out  *)
(* queue that holds at most Capacity errors and gives up its oldest error  *)
(* when a new one finds it full, and a flag that the applications poll     *)
(* instead of the queue.                                                   *)
(***************************************************************************)
EXTENDS Naturals, Sequences

CONSTANTS Errors,    \* the error records, told apart only by identity
          Capacity   \* how many errors the list keeps

VARIABLES queue,     \* the errors not yet popped, oldest first
          flag       \* the global "there is an error" flag

vars == <<queue, flag>>

Init == /\ queue = <<>>
        /\ flag = FALSE

Push(e) == /\ queue' = IF Len(queue) < Capacity
                         THEN Append(queue, e)
                         ELSE Append(Tail(queue), e)
           /\ flag' = TRUE

Pop == /\ queue # <<>>
       /\ queue' = Tail(queue)
       /\ UNCHANGED flag

PopEmpty == /\ queue = <<>>
            /\ flag' = FALSE
            /\ UNCHANGED queue

Next == \/ \E e \in Errors : Push(e)
        \/ Pop
        \/ PopEmpty

Spec == Init /\ [][Next]_vars
================================================================================
