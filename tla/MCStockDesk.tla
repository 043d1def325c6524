---------------------------- MODULE MCStockDesk ----------------------------
(* The instances of StockDesk that TLC checks: a single and a combo. *)
EXTENDS StockDesk, TLC
CONSTANTS w1, w2, o1, o2, o3, b1, b2
Order(b) == IF b = b1 THEN 0 ELSE 1
SortOrderMC == [b \in Batches |-> Order(b)]
OpeningsMC == {[b \in Batches |-> IF b = b1 THEN 2 ELSE 1], [b \in Batches |-> IF b = b1 THEN 1 ELSE 0]}
BudgetsMC == {[k \in Kinds |-> IF k = x THEN 0 ELSE 1] : x \in Kinds}
Symmetric == Permutations(Workers) \cup Permutations(Orders)
=============================================================================
