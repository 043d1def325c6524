------------------------------- MODULE OrderTx -------------------------------
(***************************************************************************)
(* The transactions of the order life cycle, statement by statement, over  *)
(* PostgreSQL rows at READ COMMITTED: orders.service.ts (create, checkout, *)
(* markOrderPaid, expireIfStale, cancelPendingOrderTx), the producer's     *)
(* confirmManualPayment and cancelPendingOrder, and the reopening step of  *)
(* reconcile-abacate-payments.ts.                                          *)
(*                                                                         *)
(* A row has a committed version and, while a transaction has written it,  *)
(* the version of that writer.  A plain SELECT sees the committed version  *)
(* (or the reader's own); a write waits for the row's lock and then sees   *)
(* the latest version.  Commit publishes the writer's versions, rollback   *)
(* drops them.  Lock modes follow PostgreSQL: 1 = FOR KEY SHARE (taken by  *)
(* foreign-key checks), 2 = FOR NO KEY UPDATE (an UPDATE), 3 = FOR UPDATE  *)
(* (setLock('pessimistic_write')); two modes conflict when they add up to  *)
(* 4 or more.                                                              *)
(***************************************************************************)
EXTENDS Integers, Sequences, SequencesExt, FiniteSets

CONSTANTS
    Workers,     \* concurrent requests, webhook deliveries, cron ticks, scripts
    Orders,      \* orders a buyer may place, with a selection fixed in advance
    Batches, Sectors,
    SectorOf,    \* [Batches -> Sectors]
    Qty,         \* Qty[o][r]: units order o asks of the batch or sector r
    Capacity,    \* [Batches -> Nat]
    Rank,        \* the order of the ids of batches and of sectors
    Buyer,       \* the user who places an order
    NoOrder,
    Providers,   \* what a checkout may obtain: a gateway's charge, manual PIX data
    Kinds,       \* the operations this instance performs
    MaxCharges,  \* bound: checkouts per order
    MaxRevived   \* bound: times an order may be put back to PENDING

Stock == Batches \cup Sectors
Rows  == Orders \cup Stock
AllKinds == {"create", "checkout", "pay", "manual", "expire", "cancel", "reopen"}

(* Items of an order sit in distinct sectors (the duplicate-sector check).  *)
Items(o) == {b \in Batches : Qty[o][b] > 0}

ASSUME SizesAssumption ==
    /\ MaxCharges \in Nat /\ MaxRevived \in Nat
    /\ Kinds \subseteq AllKinds /\ Providers \subseteq {"gateway", "manual"}
    /\ NoOrder \notin Orders
ASSUME ShapeAssumption ==
    /\ IsFiniteSet(Batches) /\ IsFiniteSet(Sectors)
    /\ Orders \cap Stock = {} /\ Batches \cap Sectors = {}
    /\ SectorOf \in [Batches -> Sectors]
    /\ Qty \in [Orders -> [Stock -> Nat]]
    /\ Capacity \in [Batches -> Nat]
    /\ Rank \in [Stock -> Nat]
ASSUME SelectionAssumption ==
    \A o \in Orders :
        /\ Items(o) # {}
        /\ \A b, c \in Items(o) : b # c => SectorOf[b] # SectorOf[c]
        /\ \A b \in Items(o) : Qty[o][SectorOf[b]] = Qty[o][b]
        /\ \A s \in Sectors : Qty[o][s] > 0 => \E b \in Items(o) : SectorOf[b] = s

Status   == {"NONE", "PENDING", "PAID", "CANCELLED", "EXPIRED"}
Charge   == {"none", "manual", "gateway"}   \* what paymentId refers to
OrderRow == [status: Status, charge: Charge, issued: Nat, revived: Nat]
StockRow == [sold: Nat, reserved: Nat]
Statement == [row: Stock, mode: 1..3]
Pc == {"idle", "fresh", "insert", "own", "manual", "claim", "stock",
       "charge", "diff", "save", "reopen", "commit"}

VARIABLES
    orders, stock,     \* committed rows
    ordersW, stockW,   \* the version of a row its writer sees
    locks,             \* locks[r][w]: mode worker w holds on row r, 0 for none
    tx,                \* what each worker is doing
    lapsed,            \* orders whose reservedUntil is in the past
    manual,            \* orders with a row in manual_payments
    charges            \* checkouts started, per order

vars == <<orders, stock, ordersW, stockW, locks, tx, lapsed, manual, charges>>
rows == <<orders, stock, ordersW, stockW>>

NoRow  == [status |-> "NONE", charge |-> "none", issued |-> 0, revived |-> 0]
NewRow == [NoRow EXCEPT !.status = "PENDING"]
Idle   == [pc |-> "idle", kind |-> "none", order |-> NoOrder, old |-> NoOrder,
           snap |-> NoRow, dirty |-> {}, plan |-> <<>>]
TxState == [pc: Pc, kind: AllKinds \cup {"none"}, order: Orders \cup {NoOrder},
            old: Orders \cup {NoOrder}, snap: OrderRow,
            dirty: SUBSET {"status", "charge"}, plan: Seq(Statement)]

TypeOK ==
    /\ orders \in [Orders -> OrderRow] /\ ordersW \in [Orders -> OrderRow]
    /\ stock \in [Stock -> StockRow]   /\ stockW \in [Stock -> StockRow]
    /\ locks \in [Rows -> [Workers -> 0..3]]
    /\ tx \in [Workers -> TxState]
    /\ lapsed \subseteq Orders /\ manual \subseteq Orders
    /\ charges \in [Orders -> Nat]

Init ==
    /\ orders = [o \in Orders |-> NoRow] /\ ordersW = orders
    /\ stock = [r \in Stock |-> [sold |-> 0, reserved |-> 0]] /\ stockW = stock
    /\ locks = [r \in Rows |-> [w \in Workers |-> 0]]
    /\ tx = [w \in Workers |-> Idle]
    /\ lapsed = {} /\ manual = {}
    /\ charges = [o \in Orders |-> 0]

----------------------------------------------------------------------------
(* Rows and locks *)

Free(w, r, m) == \A v \in Workers \ {w} : locks[r][v] + m <= 3
Stronger(m, n) == IF m >= n THEN m ELSE n
Lock(w, r, m) == locks' = [locks EXCEPT ![r][w] = Stronger(@, m)]
ReleaseLocks(w) == locks' = [r \in Rows |-> [locks[r] EXCEPT ![w] = 0]]

(* What a plain SELECT of worker w returns. *)
SeesStock(w, r) == IF locks[r][w] >= 2 THEN stockW[r] ELSE stock[r]

Publish(w) ==
    /\ orders' = [o \in Orders |-> IF locks[o][w] >= 2 THEN ordersW[o] ELSE orders[o]]
    /\ stock'  = [r \in Stock  |-> IF locks[r][w] >= 2 THEN stockW[r]  ELSE stock[r]]
    /\ UNCHANGED <<ordersW, stockW>>
Discard(w) ==
    /\ ordersW' = [o \in Orders |-> IF locks[o][w] >= 2 THEN orders[o] ELSE ordersW[o]]
    /\ stockW'  = [r \in Stock  |-> IF locks[r][w] >= 2 THEN stock[r]  ELSE stockW[r]]
    /\ UNCHANGED <<orders, stock>>

(* The transaction ends without effect: an exception, a crash, a deadlock.  *)
Abort(w) ==
    /\ Discard(w) /\ ReleaseLocks(w)
    /\ tx' = [tx EXCEPT ![w] = Idle]
    /\ UNCHANGED <<lapsed, manual, charges>>

Start(w, k, o, p, pc, snap) ==
    /\ k \in Kinds
    /\ tx[w].pc = "idle"
    /\ tx' = [tx EXCEPT ![w] = [Idle EXCEPT !.pc = pc, !.kind = k, !.order = o,
                                            !.old = p, !.snap = snap]]
    /\ UNCHANGED <<rows, locks, lapsed, manual>>

At(w, pc) == tx[w].pc = pc
Goto(w, pc) == tx' = [tx EXCEPT ![w].pc = pc]

(* Row statements of a transaction, as sequences of <row, mode>.            *)
Each(q, m) == [i \in 1..Len(q) |-> [row |-> q[i], mode |-> m]]
AnyOrder(S) == SetToSeqs(S)
IdOrder(S)  == {q \in SetToSeqs(S) :
                    \A i, j \in 1..Len(q) : i < j => Rank[q[i]] < Rank[q[j]]}
Touched(o, S) == {r \in S : Qty[o][r] > 0}
(* Variants a mistake would give: batches alone, or rows not sorted by id.  *)
ReleasePlansOfSectors(o) == {Each(ss, 3) : ss \in AnyOrder(Touched(o, Sectors))}
UpdatePlansOfBatches(o) == {Each(bs, 2) : bs \in IdOrder(Touched(o, Batches))}
UpdatePlansUnsorted(o) ==
    {Each(bs, 2) \o Each(ss, 2) : bs \in AnyOrder(Touched(o, Batches)),
                                  ss \in IdOrder(Touched(o, Sectors))}
(* SELECT ... FOR UPDATE of the order's sectors, then of its batches.       *)
ReleasePlans(o) ==
    {Each(ss, 3) \o Each(bs, 3) : ss \in AnyOrder(Touched(o, Sectors)),
                                  bs \in AnyOrder(Touched(o, Batches))}
(* UPDATE of the batches sorted by id, then of the sectors sorted by id.    *)
UpdatePlans(o) ==
    {Each(bs, 2) \o Each(ss, 2) : bs \in IdOrder(Touched(o, Batches)),
                                  ss \in IdOrder(Touched(o, Sectors))}
(* The foreign-key checks of the inserted order_items, in item order: the   *)
(* constraint on sectorId is older than the one on batchId, so it is first. *)
ForeignKeyPlans(o) ==
    {[i \in 1..(2 * Len(q)) |->
        [row |-> IF i % 2 = 1 THEN SectorOf[q[(i + 1) \div 2]] ELSE q[i \div 2],
         mode |-> 1]] : q \in AnyOrder(Touched(o, Batches))}

(* Effect of one row statement.  FOR UPDATE rows are saved with the old     *)
(* order's units released; updates reserve for a create and sell for a pay. *)
LessUnclamped(x, y) == x - y   \* variant: reserved - qty without GREATEST(0, ...)
Less(x, y) == IF x >= y THEN x - y ELSE 0
Released(row, q) == [row EXCEPT !.reserved = Less(@, q)]
Reserved(row, q) == [row EXCEPT !.reserved = @ + q]
SoldStillHeld(row, q) == [row EXCEPT !.sold = @ + q]   \* variant: the hold stays
Sold(row, q)     == [sold |-> row.sold + q, reserved |-> Less(row.reserved, q)]
Effect(t, s, row) ==
    CASE s.mode = 1 -> row
      [] s.mode = 3 -> Released(row, Qty[t.old][s.row])
      [] s.mode = 2 /\ t.kind = "create" -> Reserved(row, Qty[t.order][s.row])
      [] OTHER -> Sold(row, Qty[t.order][s.row])
FitsUnchecked(t, s) == TRUE   \* variant: the UPDATE without its WHERE clause
(* WHERE capacity - sold - reserved >= :qty *)
Fits(t, s) ==
    (t.kind = "create" /\ s.mode = 2 /\ s.row \in Batches) =>
        stockW[s.row].sold + stockW[s.row].reserved + Qty[t.order][s.row]
            <= Capacity[s.row]

----------------------------------------------------------------------------
(* Unlocked reads that open an operation *)

(* A pending, unexpired order of the same buyer is reused when it is for    *)
(* the same batches (nothing changes then), and replaced otherwise.  The    *)
(* code also reuses one for other single-unit batches when the request      *)
(* names no batch: that changes nothing either, so no step is missing here. *)
Live(p) == orders[p].status = "PENDING" /\ p \notin lapsed
LivePriors(o) == {p \in Orders : p # o /\ Buyer[p] = Buyer[o] /\ Live(p)}
SameSelection(p, o) == Items(p) = Items(o)

BeginCreate(w, o) ==
    /\ orders[o].status = "NONE"
    /\ \A v \in Workers : ~(tx[v].kind = "create" /\ tx[v].order = o)
    /\ \/ LivePriors(o) = {} /\ Start(w, "create", o, o, "insert", NoRow)
       \/ \E p \in LivePriors(o) :
             ~SameSelection(p, o) /\ Start(w, "create", o, p, "fresh", NoRow)
BeginCheckout(w, o) ==
    /\ Live(o) /\ charges[o] < MaxCharges
    /\ charges' = [charges EXCEPT ![o] = @ + 1]
    /\ Start(w, "checkout", o, o, "charge", orders[o])
(* The webhook.  simulatePayment, outside production only, makes the same   *)
(* statements; of an order with a manual charge they are those of           *)
(* BeginManual without the insert.                                          *)
BeginPay(w, o) ==
    /\ orders[o].charge = "gateway" /\ orders[o].status = "PENDING"
    /\ Start(w, "pay", o, o, "claim", orders[o])
BeginManual(w, o) ==
    /\ orders[o].charge # "gateway" /\ orders[o].status # "NONE"
    /\ Start(w, "manual", o, o, "manual", orders[o])
BeginExpire(w, o) ==
    /\ orders[o].status = "PENDING" /\ o \in lapsed
    /\ Start(w, "expire", o, o, "fresh", NoRow)
BeginCancel(w, o) ==
    /\ orders[o].status # "NONE"
    /\ Start(w, "cancel", o, o, "own", NoRow)
BeginReopen(w, o) ==
    /\ orders[o].charge = "gateway" /\ orders[o].status = "EXPIRED"
    /\ Start(w, "reopen", o, o, "reopen", NoRow)
Begin(w) ==
    \E o \in Orders :
        \/ BeginCheckout(w, o)
        \/ /\ \/ BeginCreate(w, o) \/ BeginPay(w, o) \/ BeginManual(w, o)
              \/ BeginExpire(w, o) \/ BeginCancel(w, o) \/ BeginReopen(w, o)
           /\ UNCHANGED charges

----------------------------------------------------------------------------
(* Statements *)

StillPending(p) == orders[p].status = "PENDING"

(* expireIfStale and cancelPendingOrderTx: the second read, still unlocked. *)
ReadFresh(w) ==
    LET old == tx[w].old IN
    /\ At(w, "fresh")
    /\ IF StillPending(old)
       THEN \E plan \in ReleasePlans(old) :
              tx' = [tx EXCEPT ![w].pc = "stock", ![w].snap = orders[old],
                               ![w].plan = plan]
       ELSE IF tx[w].kind = "create" THEN Goto(w, "insert")
            ELSE tx' = [tx EXCEPT ![w] = Idle]
    /\ UNCHANGED <<rows, locks, lapsed, manual, charges>>

(* Producer's cancel: SELECT ... FOR UPDATE of the order, then the status.  *)
LockOrder(w) ==
    LET o == tx[w].order IN
    /\ At(w, "own") /\ Free(w, o, 3)
    /\ IF orders[o].status = "PENDING"
       THEN /\ Lock(w, o, 3)
            /\ \E plan \in ReleasePlans(o) :
                 tx' = [tx EXCEPT ![w].pc = "stock", ![w].snap = orders[o],
                                  ![w].plan = plan]
       ELSE tx' = [tx EXCEPT ![w] = Idle] /\ UNCHANGED locks
    /\ UNCHANGED <<rows, lapsed, manual, charges>>

(* The unique insert of a manual_payments row waits for a concurrent one,   *)
(* and its foreign key locks the order FOR KEY SHARE.                       *)
InsertedManual(v, o) == tx[v].kind = "manual" /\ tx[v].order = o /\ ~At(v, "manual")
InsertManual(w) ==
    LET o == tx[w].order IN
    /\ At(w, "manual") /\ Free(w, o, 1)
    /\ \A v \in Workers : ~InsertedManual(v, o)
    /\ IF o \in manual \/ tx[w].snap.status \notin {"PENDING", "PAID"}
       THEN tx' = [tx EXCEPT ![w] = Idle] /\ UNCHANGED locks
       ELSE /\ Lock(w, o, 1)
            /\ Goto(w, IF tx[w].snap.status = "PAID" THEN "commit" ELSE "claim")
    /\ UNCHANGED <<rows, lapsed, manual, charges>>

PayableAlways(row) == row.status # "NONE"   \* variant: WHERE id = :id alone
Payable(row) == row.status = "PENDING"

(* markOrderPaid: UPDATE ... WHERE id AND status = 'PENDING', then tickets. *)
Claim(w) ==
    LET o == tx[w].order IN
    /\ At(w, "claim") /\ Free(w, o, 2)
    /\ Payable(ordersW[o])
    /\ Lock(w, o, 2)
    /\ ordersW' = [ordersW EXCEPT
         ![o].status = "PAID", ![o].issued = @ + 1,
         ![o].charge = IF tx[w].snap.charge = "none" THEN "manual" ELSE tx[w].snap.charge]
    /\ \E plan \in UpdatePlans(o) :
         tx' = [tx EXCEPT ![w].pc = "stock", ![w].snap = NoRow, ![w].plan = plan]
    /\ UNCHANGED <<orders, stock, stockW, lapsed, manual, charges>>
LoseClaimIfPaid(w) ==   \* variant: no error when the order is not PAID
    /\ At(w, "claim") /\ Free(w, tx[w].order, 2)
    /\ ordersW[tx[w].order].status = "PAID"
    /\ tx' = [tx EXCEPT ![w].pc = "commit", ![w].snap = NoRow]
    /\ UNCHANGED <<rows, locks, lapsed, manual, charges>>
(* The claim matched no row: already PAID is answered as a success, which   *)
(* commits the manual_payments row; any other status is an error.           *)
LoseClaim(w) ==
    LET o == tx[w].order IN
    /\ At(w, "claim") /\ Free(w, o, 2)
    /\ ~Payable(ordersW[o])
    /\ IF ordersW[o].status = "PAID"
       THEN /\ tx' = [tx EXCEPT ![w].pc = "commit", ![w].snap = NoRow]
            /\ UNCHANGED <<rows, locks, lapsed, manual, charges>>
       ELSE Abort(w)

(* create: the stock read without locks, then the inserted order.           *)
Insert(w) ==
    LET o == tx[w].order IN
    /\ At(w, "insert")
    /\ IF \A b \in Items(o) :
            SeesStock(w, b).sold + SeesStock(w, b).reserved < Capacity[b]
       THEN /\ Lock(w, o, 2)
            /\ ordersW' = [ordersW EXCEPT ![o] = NewRow]
            /\ \E fk \in ForeignKeyPlans(o), upd \in UpdatePlans(o) :
                 tx' = [tx EXCEPT ![w].pc = "stock", ![w].plan = fk \o upd]
            /\ UNCHANGED <<orders, stock, stockW, lapsed, manual, charges>>
       ELSE Abort(w)

(* The next row of the plan; a batch without room rolls a create back.      *)
TouchStock(w) ==
    LET s == Head(tx[w].plan) IN
    /\ At(w, "stock") /\ tx[w].plan # <<>>
    /\ Free(w, s.row, s.mode)
    /\ IF Fits(tx[w], s)
       THEN /\ Lock(w, s.row, s.mode)
            /\ stockW' = [stockW EXCEPT ![s.row] = Effect(tx[w], s, @)]
            /\ tx' = [tx EXCEPT ![w].plan = Tail(@),
                                ![w].pc = IF Tail(tx[w].plan) # <<>> THEN "stock"
                                          ELSE IF s.mode = 3 THEN "diff" ELSE "commit"]
            /\ UNCHANGED <<orders, ordersW, stock, lapsed, manual, charges>>
       ELSE Abort(w)

(* The provider answered createCharge; checkout now saves its old snapshot.  *)
ChargeCreated(w) ==
    /\ At(w, "charge")
    /\ \E c \in Providers : tx' = [tx EXCEPT ![w].pc = "diff", ![w].snap.charge = c]
    /\ UNCHANGED <<rows, locks, lapsed, manual, charges>>

(* save(order), first half: TypeORM re-reads the row, without a lock, and   *)
(* keeps the columns in which the entity in memory differs from it.         *)
Goal(t) ==
    CASE t.kind = "checkout" -> t.snap
      [] t.kind = "cancel"   -> [t.snap EXCEPT !.status = "CANCELLED"]
      [] OTHER               -> [t.snap EXCEPT !.status = "EXPIRED"]
SaveSelect(w) ==
    LET goal == Goal(tx[w]) IN
    /\ At(w, "diff")
    /\ tx' = [tx EXCEPT ![w].pc = "save", ![w].snap = goal,
                        ![w].dirty = {f \in {"status", "charge"} :
                                        goal[f] # orders[tx[w].old][f]}]
    /\ UNCHANGED <<rows, locks, lapsed, manual, charges>>

(* save(order), second half: UPDATE of those columns on the latest version. *)
Overwritten(row, snap, dirty) ==
    [row EXCEPT !.status = IF "status" \in dirty THEN snap.status ELSE @,
                !.charge = IF "charge" \in dirty THEN snap.charge ELSE @,
                !.revived = IF /\ "status" \in dirty /\ snap.status = "PENDING"
                               /\ row.status # "PENDING" THEN @ + 1 ELSE @]
SaveUpdate(w) ==
    LET t == tx[w]  old == t.old
        row == Overwritten(ordersW[old], t.snap, t.dirty)
        next == IF t.kind = "create" THEN "insert" ELSE "commit"
    IN
    /\ At(w, "save")
    /\ IF t.dirty = {} THEN UNCHANGED <<ordersW, locks>>
       ELSE /\ Free(w, old, 2)
            /\ Lock(w, old, 2)
            /\ ordersW' = [ordersW EXCEPT ![old] = row]
    /\ tx' = [tx EXCEPT ![w].pc = next, ![w].snap = NoRow, ![w].dirty = {}]
    /\ UNCHANGED <<orders, stock, stockW, lapsed, manual, charges>>

(* reconcile-abacate-payments: EXPIRED back to PENDING with a new window    *)
(* and no stock; the payment that follows is a BeginPay of its own.         *)
Reopen(w) ==
    LET o == tx[w].order IN
    /\ At(w, "reopen") /\ Free(w, o, 2)
    /\ IF orders[o].status = "EXPIRED" /\ orders[o].revived < MaxRevived
       THEN /\ orders' = [orders EXCEPT ![o].status = "PENDING", ![o].revived = @ + 1]
            /\ ordersW' = [ordersW EXCEPT ![o] = orders'[o]]
            /\ lapsed' = lapsed \ {o}
       ELSE UNCHANGED <<orders, ordersW, lapsed>>
    /\ tx' = [tx EXCEPT ![w] = Idle]
    /\ UNCHANGED <<stock, stockW, locks, manual, charges>>

Commit(w) ==
    /\ At(w, "commit")
    /\ Publish(w) /\ ReleaseLocks(w)
    /\ tx' = [tx EXCEPT ![w] = Idle]
    /\ manual' = IF tx[w].kind = "manual" THEN manual \cup {tx[w].order} ELSE manual
    /\ UNCHANGED <<lapsed, charges>>

----------------------------------------------------------------------------
(* Environment: time, crashes, and PostgreSQL's deadlock detector *)

Lapse(o) ==
    /\ orders[o].status = "PENDING" /\ o \notin lapsed
    /\ lapsed' = lapsed \cup {o}
    /\ UNCHANGED <<rows, locks, tx, manual, charges>>

Rollback(w) == ~At(w, "idle") /\ Abort(w)

(* The row lock a worker asks for next, if any. *)
Wants(w) ==
    LET t == tx[w] IN
    CASE t.pc = "stock"                     -> {Head(t.plan)}
      [] t.pc = "own"                       -> {[row |-> t.order, mode |-> 3]}
      [] t.pc = "claim"                     -> {[row |-> t.order, mode |-> 2]}
      [] t.pc = "reopen"                    -> {[row |-> t.order, mode |-> 2]}
      [] t.pc = "manual"                    -> {[row |-> t.order, mode |-> 1]}
      [] t.pc = "save" /\ t.dirty # {}      -> {[row |-> t.old, mode |-> 2]}
      [] OTHER                              -> {}
Blocks(v, w) ==
    /\ v # w
    /\ \/ \E s \in Wants(w) : locks[s.row][v] + s.mode > 3
       \/ At(w, "manual") /\ InsertedManual(v, tx[w].order)
WaitCycle(S) ==
    /\ S # {}
    /\ \A w \in S : \E v \in S : Blocks(v, w)
    /\ \A v \in S : \E w \in S : Blocks(v, w)
DeadlockVictim(w) ==
    /\ \E S \in SUBSET Workers : w \in S /\ WaitCycle(S)
    /\ Abort(w)

Step(w) ==
    \/ ReadFresh(w) \/ LockOrder(w) \/ InsertManual(w) \/ Claim(w) \/ LoseClaim(w)
    \/ Insert(w) \/ TouchStock(w) \/ SaveSelect(w) \/ SaveUpdate(w) \/ Reopen(w)
    \/ Commit(w) \/ DeadlockVictim(w)

Next ==
    \/ \E w \in Workers : Begin(w) \/ Step(w) \/ ChargeCreated(w) \/ Rollback(w)
    \/ \E o \in Orders : Lapse(o)

Spec == Init /\ [][Next]_vars
(* A started transaction keeps being scheduled; row locks are queued, so a  *)
(* lock that is free again and again is eventually granted.  Nothing makes  *)
(* a client start an operation or the gateway answer.                       *)
FairSpec == Spec /\ \A w \in Workers : SF_vars(Step(w))

(***************************************************************************)
(* Most of the anomalies of this protocol come from one shape: a worker    *)
(* keeps an unlocked snapshot of an order until it saves it.  CalmSpec is  *)
(* the same protocol under the assumption that nobody else's commit lands  *)
(* on an order inside such a window, and without the reconcile script.     *)
(* It implements OrderLedger: every transaction takes effect as one step,   *)
(* its commit.                                                             *)
(***************************************************************************)
SnapshotHeld(w, o) ==
    LET t == tx[w] IN
    \/ t.pc = "charge" /\ t.order = o
    \/ t.pc \in {"diff", "save"} /\ t.old = o
    \/ t.pc = "stock" /\ Head(t.plan).mode = 3 /\ t.old = o
CalmStep ==
    \A w \in Workers :
        /\ tx'[w].kind # "reopen"
        /\ \A o \in Orders :
              SnapshotHeld(w, o) /\ orders'[o] # orders[o] => tx'[w] # tx[w]
CalmSpec == Init /\ [][Next /\ CalmStep]_vars

(* What the committed rows look like to a caller. *)
Ledger == INSTANCE OrderLedger WITH status <- [o \in Orders |-> orders[o].status]

----------------------------------------------------------------------------
(* Properties *)

(* The units of row r that the orders of S ask for, and those of which      *)
(* tickets were issued, one element each: sums as cardinalities.            *)
UnitsOf(S, r) == Cardinality(UNION {{o} \X (1..Qty[o][r]) : o \in S})
InStatus(S) == {o \in Orders : orders[o].status \in S}
IssuedUnits(r) == UNION {{o} \X ((1..orders[o].issued) \X (1..Qty[o][r])) : o \in Orders}

(* What batches and sectors count as sold is what was issued: the claim,    *)
(* the tickets and the stock move commit together, once per issuance.       *)
SoldMatchesIssued == \A r \in Stock : stock[r].sold = Cardinality(IssuedUnits(r))

(* However confirmations race, an order's tickets are issued at most once,  *)
(* plus once for every time something put the order back to PENDING.        *)
IssuedOncePerLife == \A o \in Orders : orders[o].issued <= 1 + orders[o].revived

(* Reserved stock always has pending orders behind it: no interleaving of   *)
(* create, pay, expire, cancel, replace and rollback leaks a reservation.   *)
NoLeakedHold == \A r \in Stock : stock[r].reserved <= UnitsOf(InStatus({"PENDING"}), r)

(* A transaction that took its first step ends: it commits, fails, or is    *)
(* chosen as the victim of a deadlock.                                      *)
TransactionsEnd ==
    \A w \in Workers : (tx[w].pc \notin {"idle", "charge"}) ~> (tx[w].pc = "idle")

(* The reservation counters are exactly the pending orders.                 *)
HoldLedger == \A r \in Stock : stock[r].reserved = UnitsOf(InStatus({"PENDING"}), r)

(* Orders that are paid or may still be paid never exceed a batch.          *)
NoOversell == \A b \in Batches : UnitsOf(InStatus({"PENDING", "PAID"}), b) <= Capacity[b]

(* Every committed transaction of a calm run is one atomic step on statuses *)
(* and counters, or changes neither.                                        *)
RefinesLedger == Ledger!Spec

(* Creates that replace nothing, checkouts and confirmations never wait on  *)
(* each other in a cycle, whatever the order of the items: only a release   *)
(* (sweep, cancellation, replacement), which takes sectors first, can       *)
(* deadlock with one of them.                                               *)
Releases(w) == tx[w].kind \in {"expire", "cancel"} \/ tx[w].old # tx[w].order
SalesNeverDeadlock ==
    \A S \in SUBSET Workers : WaitCycle(S) => \E w \in S : Releases(w)

(* Tickets of an order are issued once, whatever the confirmations.         *)
IssuedAtMostOnce == \A o \in Orders : orders[o].issued <= 1
=============================================================================
