---------------------------- MODULE MCOrderStream ----------------------------
(* The instances of OrderStream that TLC checks. *)
EXTENDS OrderStream, TLC
CONSTANTS t1, t2, t3, e1, e2, e3
Tabs == Permutations(Streams) \cup Permutations(Ends)
=============================================================================
