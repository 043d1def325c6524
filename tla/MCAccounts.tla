------------------------------ MODULE MCAccounts ------------------------------
(* The instances of Accounts that TLC checks. *)
EXTENDS Accounts, TLC
CONSTANTS w1, w2, k1, k2, p1, p2
Symmetries == Permutations(Workers) \cup Permutations(Tokens) \cup Permutations(Passwords)
=============================================================================
