----------------------------- MODULE OrderLedger -----------------------------
(***************************************************************************)
(* What the order life cycle promises: every operation is one atomic step  *)
(* on the status of an order and on the sold and reserved counters of the  *)
(* batches and sectors of its items.  OrderTx implements this under the    *)
(* assumption named there (CalmSpec).                                      *)
(***************************************************************************)
EXTENDS Integers, FiniteSets

CONSTANTS Orders, Batches, Sectors, Qty, Capacity

Stock == Batches \cup Sectors

LedgerConstants ==
    /\ Qty \in [Orders -> [Stock -> Nat]]
    /\ Capacity \in [Batches -> Nat]

VARIABLES status, stock
vars == <<status, stock>>

Status == {"NONE", "PENDING", "PAID", "CANCELLED", "EXPIRED"}
StockRow == [sold: Nat, reserved: Nat]

TypeOK ==
    /\ status \in [Orders -> Status]
    /\ stock \in [Stock -> StockRow]

Init ==
    /\ status = [o \in Orders |-> "NONE"]
    /\ stock = [r \in Stock |-> [sold |-> 0, reserved |-> 0]]

(* The counters after order o's units are held, released or sold.           *)
Moved(held, sold) == [r \in Stock |-> [sold     |-> stock[r].sold + sold[r],
                                       reserved |-> stock[r].reserved + held[r]]]
Zero == [r \in Stock |-> 0]
Minus(o) == [r \in Stock |-> -Qty[o][r]]
Hold(o)    == Moved(Qty[o], Zero)
LetGo(o)   == Moved(Minus(o), Zero)
Swap(p, o) == Moved([r \in Stock |-> Qty[o][r] - Qty[p][r]], Zero)
Sell(o)    == Moved(Minus(o), Qty[o])
Room(b, row) == row.sold + row.reserved <= Capacity[b]

Place(o) ==
    /\ status[o] = "NONE"
    /\ stock' = Hold(o)
    /\ \A b \in Batches : Room(b, stock'[b])
    /\ status' = [status EXCEPT ![o] = "PENDING"]
(* The buyer's earlier order makes room for a different selection.          *)
Replace(p, o) ==
    /\ p # o /\ status[p] = "PENDING" /\ status[o] = "NONE"
    /\ stock' = Swap(p, o)
    /\ \A b \in Batches : Room(b, stock'[b])
    /\ status' = [status EXCEPT ![p] = "EXPIRED", ![o] = "PENDING"]
Pay(o) ==
    /\ status[o] = "PENDING"
    /\ stock' = Sell(o)
    /\ status' = [status EXCEPT ![o] = "PAID"]
Release(o) ==
    /\ status[o] = "PENDING"
    /\ stock' = LetGo(o)
    /\ \E end \in {"CANCELLED", "EXPIRED"} : status' = [status EXCEPT ![o] = end]

Next == \E o \in Orders : \/ Place(o) \/ Pay(o) \/ Release(o)
                          \/ \E p \in Orders : Replace(p, o)
Spec == Init /\ [][Next]_vars

----------------------------------------------------------------------------
InStatus(S) == {o \in Orders : status[o] \in S}
(* The units of row r that the orders of S ask for, one element each.       *)
Units(S, r) == UNION {{o} \X (1..Qty[o][r]) : o \in S}

(* The counters are the units of the pending and of the paid orders.        *)
CountersExact ==
    \A r \in Stock :
        /\ stock[r].reserved = Cardinality(Units(InStatus({"PENDING"}), r))
        /\ stock[r].sold     = Cardinality(Units(InStatus({"PAID"}), r))
(* Orders paid or still payable never ask for more than a batch has.        *)
NeverOversold ==
    \A b \in Batches : Cardinality(Units(InStatus({"PENDING", "PAID"}), b)) <= Capacity[b]
(* A paid, cancelled or expired order keeps its status.                     *)
EndsOnce ==
    [][\A o \in Orders : status[o] \in {"PAID", "CANCELLED", "EXPIRED"}
                            => status'[o] = status[o]]_vars
=============================================================================
