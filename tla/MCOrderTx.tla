------------------------------ MODULE MCOrderTx ------------------------------
(* The instances of OrderTx that TLC checks. *)
EXTENDS OrderTx, TLC

CONSTANTS w1, w2, o1, o2, o3, b1, b2, s1, s2, ana, bia

WorkerSymmetry == Permutations(Workers)

IdRank == [r \in Stock |-> IF r \in {b1, s1} THEN 1 ELSE 2]
OneSector == [b \in Batches |-> s1]
TwoSectors == [b \in Batches |-> IF b = b1 THEN s1 ELSE s2]
OneLeft == [b \in Batches |-> 1]
TwoLeft == [b \in Batches |-> 2]
OneBuyer == [o \in Orders |-> ana]
TwoBuyers == [o \in Orders |-> IF o = o3 THEN bia ELSE ana]
OwnBuyer == [o \in Orders |-> o]

(* o1 is for the first batch, o2 for both. *)
OneAndBoth ==
    [o \in Orders |-> [r \in Stock |-> IF r \in {b1, s1} \/ o = o2 THEN 1 ELSE 0]]
(* o1 and o2, of two buyers, are for both batches; o3, of the first buyer,  *)
(* is for one of them.                                                      *)
BothAndOne ==
    [o \in Orders |-> [r \in Stock |-> IF r \in {b1, s1} \/ o # o3 THEN 1 ELSE 0]]
FirstAndThird == [o \in Orders |-> IF o = o2 THEN bia ELSE ana]
(* Every order has an item in every batch. *)
AllBatchesEach == [o \in Orders |-> [r \in Stock |-> 1]]
=============================================================================
