---------------------------- MODULE MCExpirySweep ----------------------------
(* The instance of ExpirySweep that TLC checks. *)
EXTENDS ExpirySweep
CONSTANTS o1, o2, c1
BelowZero == -16
=============================================================================
