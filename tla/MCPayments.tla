----------------------------- MODULE MCPayments -----------------------------
(* The instances of Payments that TLC checks. *)
EXTENDS Payments, TLC
CONSTANTS w1, w2
WorkerSymmetry == Permutations(Workers)
=============================================================================
