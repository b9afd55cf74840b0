---------------------------- MODULE MCRedundantPort ----------------------------
(* Three slaves, so that a break may have slaves on both sides, more of them   *)
(* on either, or cut off a NIC.                                                *)
EXTENDS RedundantPort
================================================================================
