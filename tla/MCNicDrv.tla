------------------------------- MODULE MCNicDrv --------------------------------
(* Instances of the frame layer: symmetric threads, few buffers so that the   *)
(* search for a free index wraps around and finds buffers in use.             *)
EXTENDS NicDrv, TLC

Symmetry == Permutations(Thread)
================================================================================
