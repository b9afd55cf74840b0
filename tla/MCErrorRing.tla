------------------------------ MODULE MCErrorRing ------------------------------
(* A ring of four slots (room for three errors) and two kinds of error: the   *)
(* indices wrap, the ring overflows and is drained in every phase of a wrap.  *)
EXTENDS ErrorRing
================================================================================
