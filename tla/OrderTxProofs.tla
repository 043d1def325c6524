--------------------------- MODULE OrderTxProofs ---------------------------
(***************************************************************************)
(* OrderTx, over any number of workers, orders, batches and sectors.       *)
(* Part one: types, and the guarantee of the paid claim (tickets of an     *)
(* order are issued once per life).  Part two: an invariant of the working *)
(* state of a transaction (what it holds, what it has written and what is  *)
(* left of its plan), from which follow that what is sold is what was      *)
(* issued and that no reservation leaks.  Part three: the ledger keeps its *)
(* counters exact and under CalmSpec every commit is one of its steps, so  *)
(* the reserved counters are exact and no batch is oversold.  Part four: the order in which sales lock     *)
(* stock rows, and why they cannot wait for each other in a cycle.         *)
(***************************************************************************)
EXTENDS OrderTx, FiniteSetTheorems, SequenceTheorems, TLAPS

(* A worker inside an operation works on an order and on an old order.      *)
Started ==
    \A w \in Workers : ~At(w, "idle") => tx[w].order \in Orders /\ tx[w].old \in Orders

TypeInv == TypeOK /\ Started

(* A row that may still be paid has one issuance left.                      *)
LifeOK(row) ==
    /\ row.issued <= 1 + row.revived
    /\ row.status = "PENDING" => row.issued <= row.revived
LifeInv == \A o \in Orders : LifeOK(orders[o]) /\ LifeOK(ordersW[o])

-----------------------------------------------------------------------------
(* Plans are sequences of row statements *)

LEMMA SetToSeqsTyped ==
    ASSUME NEW S, IsFiniteSet(S), NEW q \in AnyOrder(S)
    PROVE  q \in Seq(S)
  BY FS_CardinalityType DEF AnyOrder, SetToSeqs

LEMMA TouchedTyped ==
    ASSUME NEW o \in Orders, NEW q,
           q \in AnyOrder(Touched(o, Sectors)) \cup AnyOrder(Touched(o, Batches))
    PROVE  q \in Seq(Stock)
  <1>1. /\ IsFiniteSet(Touched(o, Sectors)) /\ Touched(o, Sectors) \subseteq Stock
        /\ IsFiniteSet(Touched(o, Batches)) /\ Touched(o, Batches) \subseteq Stock
    BY ShapeAssumption, FS_Subset DEF Touched, Stock
  <1>2. q \in Seq(Touched(o, Sectors)) \/ q \in Seq(Touched(o, Batches))
    BY <1>1, SetToSeqsTyped
  <1> QED
    BY <1>1, <1>2

LEMMA EachTyped ==
    ASSUME NEW q \in Seq(Stock), NEW m \in 1..3
    PROVE  Each(q, m) \in Seq(Statement)
  BY DEF Each, Statement

LEMMA ReleasePlansTyped ==
    ASSUME NEW o \in Orders PROVE ReleasePlans(o) \subseteq Seq(Statement)
  <1> SUFFICES ASSUME NEW plan \in ReleasePlans(o) PROVE plan \in Seq(Statement)
    OBVIOUS
  <1>a. PICK ss \in AnyOrder(Touched(o, Sectors)), bs \in AnyOrder(Touched(o, Batches)) :
          plan = Each(ss, 3) \o Each(bs, 3)
    BY DEF ReleasePlans
  <1>1. ss \in Seq(Stock) /\ bs \in Seq(Stock)
    BY TouchedTyped
  <1>2. Each(ss, 3) \in Seq(Statement) /\ Each(bs, 3) \in Seq(Statement)
    BY <1>1, EachTyped
  <1> QED
    BY <1>a, <1>2, ConcatProperties

LEMMA UpdatePlansTyped ==
    ASSUME NEW o \in Orders PROVE UpdatePlans(o) \subseteq Seq(Statement)
  <1> SUFFICES ASSUME NEW plan \in UpdatePlans(o) PROVE plan \in Seq(Statement)
    OBVIOUS
  <1>a. PICK bs \in IdOrder(Touched(o, Batches)), ss \in IdOrder(Touched(o, Sectors)) :
          plan = Each(bs, 2) \o Each(ss, 2)
    BY DEF UpdatePlans
  <1>1. ss \in Seq(Stock) /\ bs \in Seq(Stock)
    BY TouchedTyped DEF IdOrder, AnyOrder
  <1>2. Each(ss, 2) \in Seq(Statement) /\ Each(bs, 2) \in Seq(Statement)
    BY <1>1, EachTyped
  <1> QED
    BY <1>a, <1>2, ConcatProperties

LEMMA ForeignKeyPlansTyped ==
    ASSUME NEW o \in Orders PROVE ForeignKeyPlans(o) \subseteq Seq(Statement)
  <1> SUFFICES
        ASSUME NEW q \in AnyOrder(Touched(o, Batches))
        PROVE  [i \in 1..(2 * Len(q)) |->
                 [row |-> IF i % 2 = 1 THEN SectorOf[q[(i + 1) \div 2]] ELSE q[i \div 2],
                  mode |-> 1]] \in Seq(Statement)
    BY DEF ForeignKeyPlans
  <1>1. IsFiniteSet(Touched(o, Batches)) /\ Touched(o, Batches) \subseteq Batches
    BY ShapeAssumption, FS_Subset DEF Touched
  <1>2. q \in Seq(Batches) /\ Len(q) \in Nat
    BY <1>1, SetToSeqsTyped
  <1>3. ASSUME NEW i \in 1..(2 * Len(q))
        PROVE  [row |-> IF i % 2 = 1 THEN SectorOf[q[(i + 1) \div 2]] ELSE q[i \div 2],
                mode |-> 1] \in Statement
    <2>1. CASE i % 2 = 1
      <3>1. (i + 1) \div 2 \in 1..Len(q)
        BY <1>2, <2>1
      <3>2. SectorOf[q[(i + 1) \div 2]] \in Sectors
        BY <1>2, <3>1, ShapeAssumption
      <3> QED
        BY <2>1, <3>2 DEF Statement, Stock
    <2>2. CASE i % 2 # 1
      <3>1. i \div 2 \in 1..Len(q)
        BY <1>2, <2>2
      <3>2. q[i \div 2] \in Batches
        BY <1>2, <3>1
      <3> QED
        BY <2>2, <3>2 DEF Statement, Stock
    <2> QED
      BY <2>1, <2>2
  <1> QED
    BY <1>2, <1>3

-----------------------------------------------------------------------------
(* Rows, locks and workers after a step *)

Inv == TypeInv /\ LifeInv

RowsOK == /\ orders \in [Orders -> OrderRow] /\ ordersW \in [Orders -> OrderRow]
          /\ stock \in [Stock -> StockRow]   /\ stockW \in [Stock -> StockRow]
          /\ LifeInv
LocksOK == locks \in [Rows -> [Workers -> 0..3]]
TxOK == tx \in [Workers -> TxState] /\ Started
RestOK == /\ lapsed \subseteq Orders /\ manual \subseteq Orders
          /\ charges \in [Orders -> Nat]

LEMMA InvParts == /\ Inv => RowsOK /\ LocksOK /\ TxOK /\ RestOK
                  /\ RowsOK' /\ LocksOK' /\ TxOK' /\ RestOK' => Inv'
  BY DEF Inv, TypeInv, TypeOK, RowsOK, LocksOK, TxOK, RestOK

LEMMA NoRowTyped == NoRow \in OrderRow /\ NewRow \in OrderRow /\ LifeOK(NewRow)
  BY DEF NoRow, NewRow, OrderRow, Status, Charge, LifeOK

(* A row with its four columns set anew. *)
RowWith(row, st, ch, i, v) ==
    [row EXCEPT !.status = st, !.charge = ch, !.issued = i, !.revived = v]

LEMMA RowSet ==
    ASSUME NEW row \in OrderRow, NEW st \in Status, NEW ch \in Charge,
           NEW i \in Nat, NEW v \in Nat
    PROVE  /\ RowWith(row, st, ch, i, v) \in OrderRow
           /\ RowWith(row, st, ch, i, v).status = st
           /\ RowWith(row, st, ch, i, v).issued = i
           /\ RowWith(row, st, ch, i, v).revived = v
  BY DEF OrderRow, RowWith

LEMMA IdleTyped == Idle \in TxState /\ Idle.pc = "idle"
  <1>1. <<>> \in Seq(Statement)
    OBVIOUS
  <1> QED
    BY <1>1, NoRowTyped DEF Idle, TxState, Pc

LEMMA RowsSame == RowsOK /\ UNCHANGED rows => RowsOK'
  BY DEF RowsOK, LifeInv, LifeOK, rows

LEMMA RestSame == RestOK /\ UNCHANGED <<lapsed, manual, charges>> => RestOK'
  BY DEF RestOK

LEMMA LockKeeps ==
    ASSUME LocksOK, NEW w \in Workers, NEW r \in Rows, NEW m \in 0..3, Lock(w, r, m)
    PROVE  LocksOK'
  BY DEF LocksOK, Lock, Stronger

LEMMA ReleaseLocksKeeps ==
    ASSUME LocksOK, NEW w \in Workers, ReleaseLocks(w) PROVE LocksOK'
  BY DEF LocksOK, ReleaseLocks

LEMMA LocksSame == LocksOK /\ UNCHANGED locks => LocksOK'
  BY DEF LocksOK

LEMMA TxSet ==
    ASSUME TxOK, NEW w \in Workers, NEW t \in TxState, tx' = [tx EXCEPT ![w] = t],
           t.pc # "idle" => t.order \in Orders /\ t.old \in Orders
    PROVE  TxOK'
  BY DEF TxOK, Started, At

LEMMA TxIdle ==
    ASSUME TxOK, NEW w \in Workers, tx' = [tx EXCEPT ![w] = Idle] PROVE TxOK'
  BY IdleTyped, TxSet

(* A worker that stays in its operation changes what it does next.          *)
LEMMA TxMove ==
    ASSUME TxOK, NEW w \in Workers, ~At(w, "idle"), NEW pc \in Pc, NEW snap \in OrderRow,
           NEW dirty \in SUBSET {"status", "charge"}, NEW plan \in Seq(Statement),
           tx' = [tx EXCEPT ![w] = [tx[w] EXCEPT !.pc = pc, !.snap = snap,
                                                 !.dirty = dirty, !.plan = plan]]
    PROVE  TxOK'
  <1> DEFINE t == [tx[w] EXCEPT !.pc = pc, !.snap = snap, !.dirty = dirty, !.plan = plan]
  <1>1. tx[w] \in TxState /\ tx[w].order \in Orders /\ tx[w].old \in Orders
    BY DEF TxOK, Started
  <1>2. t \in TxState /\ t.order \in Orders /\ t.old \in Orders
    BY <1>1 DEF TxState
  <1> QED
    BY <1>2, TxSet

LEMMA TxGoto ==
    ASSUME TxOK, NEW w \in Workers, ~At(w, "idle"), NEW pc \in Pc, Goto(w, pc)
    PROVE  TxOK'
  <1>1. tx[w] \in TxState
    BY DEF TxOK
  <1>2. tx' = [tx EXCEPT ![w] = [tx[w] EXCEPT !.pc = pc, !.snap = tx[w].snap,
                                       !.dirty = tx[w].dirty, !.plan = tx[w].plan]]
    BY <1>1 DEF Goto, TxState
  <1> QED
    BY <1>1, <1>2, TxMove DEF TxState

LEMMA TxSame == TxOK /\ UNCHANGED tx => TxOK'
  BY DEF TxOK, Started, At

LEMMA PublishKeeps == ASSUME RowsOK, NEW w \in Workers, Publish(w) PROVE RowsOK'
  BY DEF RowsOK, LifeInv, LifeOK, Publish

LEMMA DiscardKeeps == ASSUME RowsOK, NEW w \in Workers, Discard(w) PROVE RowsOK'
  BY DEF RowsOK, LifeInv, LifeOK, Discard

LEMMA AbortKeeps == ASSUME Inv, NEW w \in Workers, Abort(w) PROVE Inv'
  <1>1. RowsOK'
    BY InvParts, DiscardKeeps DEF Abort
  <1>2. LocksOK'
    BY InvParts, ReleaseLocksKeeps DEF Abort
  <1>3. TxOK'
    BY InvParts, TxIdle DEF Abort
  <1>4. RestOK'
    BY InvParts, RestSame DEF Abort
  <1> QED
    BY <1>1, <1>2, <1>3, <1>4, InvParts

LEMMA OrderWritten ==
    ASSUME RowsOK, NEW o \in Orders, NEW row \in OrderRow, LifeOK(row),
           ordersW' = [ordersW EXCEPT ![o] = row], UNCHANGED <<orders, stock, stockW>>
    PROVE  RowsOK'
  BY DEF RowsOK, LifeInv, LifeOK

-----------------------------------------------------------------------------
(* One lemma per action *)

LEMMA StartTyped ==
    ASSUME Inv, NEW w \in Workers, NEW k, NEW o \in Orders, NEW p \in Orders, NEW pc \in Pc,
           NEW snap \in OrderRow, Start(w, k, o, p, pc, snap)
    PROVE  RowsOK' /\ LocksOK' /\ TxOK'
  <1> DEFINE t == [Idle EXCEPT !.pc = pc, !.kind = k, !.order = o, !.old = p, !.snap = snap]
  <1>1. k \in AllKinds
    BY SizesAssumption DEF Start
  <1>2. t \in TxState /\ t.order = o /\ t.old = p
    BY <1>1, IdleTyped DEF TxState, Idle
  <1>3. tx' = [tx EXCEPT ![w] = t]
    BY DEF Start
  <1>4. TxOK'
    BY <1>2, <1>3, InvParts, TxSet
  <1>5. RowsOK' /\ LocksOK'
    BY InvParts, RowsSame, LocksSame DEF Start
  <1> QED
    BY <1>4, <1>5

LEMMA BeginKeeps == ASSUME Inv, NEW w \in Workers, Begin(w) PROVE Inv'
  <1>1. PICK o \in Orders :
          \/ BeginCheckout(w, o)
          \/ /\ \/ BeginCreate(w, o) \/ BeginPay(w, o) \/ BeginManual(w, o)
                \/ BeginExpire(w, o) \/ BeginCancel(w, o) \/ BeginReopen(w, o)
             /\ UNCHANGED charges
    BY DEF Begin
  <1>2. orders[o] \in OrderRow
    BY InvParts DEF RowsOK
  <1>3. PICK k \in AllKinds, p \in Orders, pc \in Pc, snap \in OrderRow :
          Start(w, k, o, p, pc, snap)
    <2>1. CASE BeginCheckout(w, o)
      BY <1>2, <2>1 DEF BeginCheckout, AllKinds, Pc
    <2>2. CASE BeginCreate(w, o)
      <3>1. CASE Start(w, "create", o, o, "insert", NoRow)
        BY <3>1, NoRowTyped DEF AllKinds, Pc
      <3>2. CASE \E p \in LivePriors(o) : Start(w, "create", o, p, "fresh", NoRow)
        BY <3>2, NoRowTyped DEF AllKinds, Pc, LivePriors
      <3> QED
        BY <2>2, <3>1, <3>2 DEF BeginCreate
    <2>3. CASE BeginPay(w, o)
      BY <1>2, <2>3 DEF BeginPay, AllKinds, Pc
    <2>4. CASE BeginManual(w, o)
      BY <1>2, <2>4 DEF BeginManual, AllKinds, Pc
    <2>5. CASE BeginExpire(w, o)
      BY <2>5, NoRowTyped DEF BeginExpire, AllKinds, Pc
    <2>6. CASE BeginCancel(w, o)
      BY <2>6, NoRowTyped DEF BeginCancel, AllKinds, Pc
    <2>7. CASE BeginReopen(w, o)
      BY <2>7, NoRowTyped DEF BeginReopen, AllKinds, Pc
    <2> QED
      BY <1>1, <2>1, <2>2, <2>3, <2>4, <2>5, <2>6, <2>7
  <1>4. RowsOK' /\ LocksOK' /\ TxOK'
    BY <1>3, StartTyped
  <1>5. charges' \in [Orders -> Nat]
    <2>1. charges \in [Orders -> Nat]
      BY InvParts DEF RestOK
    <2> QED
      BY <1>1, <2>1 DEF BeginCheckout
  <1>6. RestOK'
    BY <1>3, <1>5, InvParts DEF RestOK, Start
  <1> QED
    BY <1>4, <1>6, InvParts

LEMMA ReadFreshKeeps == ASSUME Inv, NEW w \in Workers, ReadFresh(w) PROVE Inv'
  <1>1. tx[w] \in TxState /\ ~At(w, "idle") /\ tx[w].old \in Orders
    BY InvParts DEF TxOK, Started, ReadFresh, At
  <1>2. orders[tx[w].old] \in OrderRow
    BY <1>1, InvParts DEF RowsOK
  <1>3. TxOK'
    <2>1. CASE StillPending(tx[w].old)
      <3>1. PICK plan \in ReleasePlans(tx[w].old) :
              tx' = [tx EXCEPT ![w].pc = "stock", ![w].snap = orders[tx[w].old],
                               ![w].plan = plan]
        BY <2>1 DEF ReadFresh
      <3>2. plan \in Seq(Statement)
        BY <1>1, ReleasePlansTyped
      <3>3. tx' = [tx EXCEPT ![w] = [tx[w] EXCEPT !.pc = "stock", !.snap = orders[tx[w].old],
                                                  !.dirty = tx[w].dirty, !.plan = plan]]
        BY <1>1, <3>1 DEF TxState
      <3> QED
        BY <1>1, <1>2, <3>2, <3>3, TxMove, InvParts DEF TxState, Pc
    <2>2. CASE ~StillPending(tx[w].old) /\ tx[w].kind = "create"
      <3>1. Goto(w, "insert")
        BY <2>2 DEF ReadFresh
      <3> QED
        BY <1>1, <3>1, TxGoto, InvParts DEF Pc
    <2>3. CASE ~StillPending(tx[w].old) /\ tx[w].kind # "create"
      BY <2>3, TxIdle, InvParts DEF ReadFresh
    <2> QED
      BY <2>1, <2>2, <2>3
  <1>4. RowsOK' /\ LocksOK' /\ RestOK'
    BY InvParts, RowsSame, LocksSame, RestSame DEF ReadFresh
  <1> QED
    BY <1>3, <1>4, InvParts

LEMMA LockOrderKeeps == ASSUME Inv, NEW w \in Workers, LockOrder(w) PROVE Inv'
  <1> DEFINE o == tx[w].order
  <1>1. tx[w] \in TxState /\ ~At(w, "idle") /\ o \in Orders
    BY InvParts DEF TxOK, Started, LockOrder, At
  <1>2. orders[o] \in OrderRow /\ o \in Rows
    BY <1>1, InvParts DEF RowsOK, Rows
  <1>3. TxOK' /\ LocksOK'
    <2>1. CASE orders[o].status = "PENDING"
      <3>1. PICK plan \in ReleasePlans(o) :
              tx' = [tx EXCEPT ![w].pc = "stock", ![w].snap = orders[o], ![w].plan = plan]
        BY <2>1 DEF LockOrder
      <3>2. plan \in Seq(Statement)
        BY <1>1, ReleasePlansTyped
      <3>3. tx' = [tx EXCEPT ![w] = [tx[w] EXCEPT !.pc = "stock", !.snap = orders[o],
                                                  !.dirty = tx[w].dirty, !.plan = plan]]
        BY <1>1, <3>1 DEF TxState
      <3>4. TxOK'
        BY <1>1, <1>2, <3>2, <3>3, TxMove, InvParts DEF TxState, Pc
      <3>5. LocksOK'
        BY <1>2, <2>1, LockKeeps, InvParts DEF LockOrder
      <3> QED
        BY <3>4, <3>5
    <2>2. CASE orders[o].status # "PENDING"
      BY <2>2, TxIdle, LocksSame, InvParts DEF LockOrder
    <2> QED
      BY <2>1, <2>2
  <1>4. RowsOK' /\ RestOK'
    BY InvParts, RowsSame, RestSame DEF LockOrder
  <1> QED
    BY <1>3, <1>4, InvParts

LEMMA InsertManualKeeps == ASSUME Inv, NEW w \in Workers, InsertManual(w) PROVE Inv'
  <1> DEFINE o == tx[w].order
             seen == tx[w].snap.status
  <1>1. ~At(w, "idle") /\ o \in Rows
    BY InvParts DEF TxOK, Started, InsertManual, At, Rows
  <1>2. TxOK' /\ LocksOK'
    <2>1. CASE o \in manual \/ seen \notin {"PENDING", "PAID"}
      BY <2>1, TxIdle, LocksSame, InvParts DEF InsertManual
    <2>2. CASE ~(o \in manual \/ seen \notin {"PENDING", "PAID"})
      <3>1. Lock(w, o, 1) /\ Goto(w, IF seen = "PAID" THEN "commit" ELSE "claim")
        BY <2>2 DEF InsertManual
      <3>2. (IF seen = "PAID" THEN "commit" ELSE "claim") \in Pc
        BY DEF Pc
      <3> QED
        BY <1>1, <3>1, <3>2, TxGoto, LockKeeps, InvParts
    <2> QED
      BY <2>1, <2>2
  <1>3. RowsOK' /\ RestOK'
    BY InvParts, RowsSame, RestSame DEF InsertManual
  <1> QED
    BY <1>2, <1>3, InvParts

(* The step the guarantee rests on: the claim only takes a row that is      *)
(* PENDING in its latest version, so the issuance it adds was still left.   *)
LEMMA ClaimKeeps == ASSUME Inv, NEW w \in Workers, Claim(w) PROVE Inv'
  <1> DEFINE o == tx[w].order
             paid == [ordersW[o] EXCEPT !.status = "PAID", !.issued = @ + 1,
                        !.charge = IF tx[w].snap.charge = "none" THEN "manual"
                                   ELSE tx[w].snap.charge]
  <1>1. tx[w] \in TxState /\ ~At(w, "idle") /\ o \in Orders /\ o \in Rows
    BY InvParts DEF TxOK, Started, Claim, At, Rows
  <1>2. ordersW[o] \in OrderRow /\ LifeOK(ordersW[o]) /\ ordersW[o].status = "PENDING"
    BY <1>1, InvParts DEF RowsOK, LifeInv, Claim, Payable
  <1>3. paid \in OrderRow /\ LifeOK(paid)
    <2>1. tx[w].snap.charge \in Charge
      BY <1>1 DEF TxState, OrderRow
    <2>2. /\ ordersW[o].issued \in Nat /\ ordersW[o].revived \in Nat
          /\ ordersW[o].issued <= ordersW[o].revived
      BY <1>2 DEF OrderRow, LifeOK
    <2>3. PICK ch \in Charge : paid = [ordersW[o] EXCEPT !.status = "PAID",
                                        !.issued = ordersW[o].issued + 1, !.charge = ch]
      BY <2>1 DEF Charge
    <2>4. paid = RowWith(ordersW[o], "PAID", ch, ordersW[o].issued + 1, ordersW[o].revived)
      BY <1>2, <2>3 DEF OrderRow, RowWith
    <2>5. "PAID" \in Status /\ ordersW[o].issued + 1 \in Nat
      BY <2>2 DEF Status
    <2>6. /\ paid \in OrderRow /\ paid.status = "PAID"
          /\ paid.issued = ordersW[o].issued + 1 /\ paid.revived = ordersW[o].revived
      <3> DEFINE row == ordersW[o]
                 i == row.issued + 1
                 v == row.revived
      <3>1. row \in OrderRow /\ i \in Nat /\ v \in Nat
        BY <1>2, <2>2, <2>5
      <3>2. paid = RowWith(row, "PAID", ch, i, v)
        BY <2>4
      <3> HIDE DEF paid, row, i, v
      <3>3. /\ paid \in OrderRow /\ paid.status = "PAID"
            /\ paid.issued = i /\ paid.revived = v
        BY <2>5, <3>1, <3>2, RowSet
      <3> QED
        BY <3>3 DEF row, i, v
    <2> QED
      BY <2>2, <2>6 DEF LifeOK
  <1>4. ordersW' = [ordersW EXCEPT ![o] = paid]
    BY <1>1, <1>2, InvParts DEF Claim, RowsOK, OrderRow
  <1>5. RowsOK'
    BY <1>1, <1>3, <1>4, OrderWritten, InvParts DEF Claim
  <1>6. TxOK'
    <2>1. PICK plan \in UpdatePlans(o) :
            tx' = [tx EXCEPT ![w].pc = "stock", ![w].snap = NoRow, ![w].plan = plan]
      BY DEF Claim
    <2>2. plan \in Seq(Statement)
      BY <1>1, UpdatePlansTyped
    <2>3. tx' = [tx EXCEPT ![w] = [tx[w] EXCEPT !.pc = "stock", !.snap = NoRow,
                                                !.dirty = tx[w].dirty, !.plan = plan]]
      BY <1>1, <2>1 DEF TxState
    <2> QED
      BY <1>1, <2>2, <2>3, NoRowTyped, TxMove, InvParts DEF TxState, Pc
  <1>7. LocksOK' /\ RestOK'
    BY <1>1, LockKeeps, RestSame, InvParts DEF Claim
  <1> QED
    BY <1>5, <1>6, <1>7, InvParts

LEMMA LoseClaimKeeps == ASSUME Inv, NEW w \in Workers, LoseClaim(w) PROVE Inv'
  <1>1. CASE ordersW[tx[w].order].status = "PAID"
    <2>1. tx[w] \in TxState /\ ~At(w, "idle")
      BY InvParts DEF TxOK, LoseClaim, At
    <2>2. tx' = [tx EXCEPT ![w] = [tx[w] EXCEPT !.pc = "commit", !.snap = NoRow,
                                     !.dirty = tx[w].dirty, !.plan = tx[w].plan]]
      BY <1>1, <2>1 DEF LoseClaim, TxState
    <2>3. TxOK'
      BY <2>1, <2>2, NoRowTyped, TxMove, InvParts DEF TxState, Pc
    <2>4. RowsOK' /\ LocksOK' /\ RestOK'
      BY <1>1, RowsSame, LocksSame, RestSame, InvParts DEF LoseClaim
    <2> QED
      BY <2>3, <2>4, InvParts
  <1>2. CASE ordersW[tx[w].order].status # "PAID"
    BY <1>2, AbortKeeps DEF LoseClaim
  <1> QED
    BY <1>1, <1>2

LEMMA InsertKeeps == ASSUME Inv, NEW w \in Workers, Insert(w) PROVE Inv'
  <1> DEFINE o == tx[w].order
             room == \A b \in Items(o) :
                       SeesStock(w, b).sold + SeesStock(w, b).reserved < Capacity[b]
  <1>1. tx[w] \in TxState /\ ~At(w, "idle") /\ o \in Orders /\ o \in Rows
    BY InvParts DEF TxOK, Started, Insert, At, Rows
  <1>2. CASE room
    <2>1. RowsOK'
      BY <1>1, <1>2, NoRowTyped, OrderWritten, InvParts DEF Insert
    <2>2. LocksOK' /\ RestOK'
      BY <1>1, <1>2, LockKeeps, RestSame, InvParts DEF Insert
    <2>3. PICK fk \in ForeignKeyPlans(o), upd \in UpdatePlans(o) :
            tx' = [tx EXCEPT ![w].pc = "stock", ![w].plan = fk \o upd]
      BY <1>2 DEF Insert
    <2>4. fk \o upd \in Seq(Statement)
      <3>1. fk \in Seq(Statement) /\ upd \in Seq(Statement)
        BY <1>1, ForeignKeyPlansTyped, UpdatePlansTyped
      <3> QED
        BY <3>1, ConcatProperties
    <2>5. tx' = [tx EXCEPT ![w] = [tx[w] EXCEPT !.pc = "stock", !.snap = tx[w].snap,
                                     !.dirty = tx[w].dirty, !.plan = fk \o upd]]
      BY <1>1, <2>3 DEF TxState
    <2>6. TxOK'
      BY <1>1, <2>4, <2>5, TxMove, InvParts DEF TxState, Pc
    <2> QED
      BY <2>1, <2>2, <2>6, InvParts
  <1>3. CASE ~room
    BY <1>3, AbortKeeps DEF Insert
  <1> QED
    BY <1>2, <1>3

LEMMA EffectTyped ==
    ASSUME NEW t \in TxState, t.order \in Orders, t.old \in Orders,
           NEW s \in Statement, NEW row \in StockRow
    PROVE  Effect(t, s, row) \in StockRow
  <1>1. Qty[t.order][s.row] \in Nat /\ Qty[t.old][s.row] \in Nat
    BY ShapeAssumption DEF Statement
  <1>2. \A x, y \in Nat : Less(x, y) \in Nat
    BY DEF Less
  <1>3. \A q \in Nat : /\ Released(row, q) \in StockRow /\ Reserved(row, q) \in StockRow
                       /\ Sold(row, q) \in StockRow
    BY <1>2 DEF Released, Reserved, Sold, StockRow
  <1> QED
    BY <1>1, <1>3 DEF Effect

LEMMA TouchStockKeeps == ASSUME Inv, NEW w \in Workers, TouchStock(w) PROVE Inv'
  <1> DEFINE s == Head(tx[w].plan)
  <1>1. /\ tx[w] \in TxState /\ ~At(w, "idle")
        /\ tx[w].order \in Orders /\ tx[w].old \in Orders
    BY InvParts DEF TxOK, Started, TouchStock, At
  <1>2. tx[w].plan \in Seq(Statement) /\ tx[w].plan # <<>>
    BY <1>1 DEF TxState, TouchStock
  <1>3. s \in Statement /\ Tail(tx[w].plan) \in Seq(Statement)
    BY <1>2, HeadTailProperties
  <1>4. CASE Fits(tx[w], s)
    <2>1. s.row \in Stock /\ s.row \in Rows /\ s.mode \in 0..3
      BY <1>3 DEF Statement, Rows
    <2>2. LocksOK' /\ RestOK'
      BY <1>4, <2>1, LockKeeps, RestSame, InvParts DEF TouchStock
    <2>3. stockW' \in [Stock -> StockRow]
      <3>1. Effect(tx[w], s, stockW[s.row]) \in StockRow
        BY <1>1, <1>3, <2>1, EffectTyped, InvParts DEF RowsOK
      <3> QED
        BY <1>4, <3>1, InvParts DEF TouchStock, RowsOK
    <2>4. RowsOK'
      BY <1>4, <2>3, InvParts DEF TouchStock, RowsOK, LifeInv, LifeOK
    <2>5. PICK pc \in Pc : tx' = [tx EXCEPT ![w].plan = Tail(@), ![w].pc = pc]
      BY <1>4 DEF TouchStock, Pc
    <2>6. tx' = [tx EXCEPT ![w] = [tx[w] EXCEPT !.pc = pc, !.snap = tx[w].snap,
                                     !.dirty = tx[w].dirty, !.plan = Tail(tx[w].plan)]]
      BY <1>1, <2>5 DEF TxState
    <2>7. TxOK'
      BY <1>1, <1>3, <2>6, TxMove, InvParts DEF TxState
    <2> QED
      BY <2>2, <2>4, <2>7, InvParts
  <1>5. CASE ~Fits(tx[w], s)
    BY <1>5, AbortKeeps DEF TouchStock
  <1> QED
    BY <1>4, <1>5

LEMMA ChargeCreatedKeeps == ASSUME Inv, NEW w \in Workers, ChargeCreated(w) PROVE Inv'
  <1>0. PICK c \in Providers : tx' = [tx EXCEPT ![w].pc = "diff", ![w].snap.charge = c]
    BY DEF ChargeCreated
  <1> DEFINE snap == [tx[w].snap EXCEPT !.charge = c]
  <1>1. tx[w] \in TxState /\ ~At(w, "idle")
    BY InvParts DEF TxOK, ChargeCreated, At
  <1>2. snap \in OrderRow
    BY <1>1, SizesAssumption DEF TxState, OrderRow, Charge
  <1>3. tx' = [tx EXCEPT ![w] = [tx[w] EXCEPT !.pc = "diff", !.snap = snap,
                                   !.dirty = tx[w].dirty, !.plan = tx[w].plan]]
    BY <1>0, <1>1 DEF TxState, OrderRow
  <1>4. TxOK'
    BY <1>1, <1>2, <1>3, TxMove, InvParts DEF TxState, Pc
  <1>5. RowsOK' /\ LocksOK' /\ RestOK'
    BY InvParts, RowsSame, LocksSame, RestSame DEF ChargeCreated
  <1> QED
    BY <1>4, <1>5, InvParts

LEMMA SaveSelectKeeps == ASSUME Inv, NEW w \in Workers, SaveSelect(w) PROVE Inv'
  <1>1. tx[w] \in TxState /\ ~At(w, "idle")
    BY InvParts DEF TxOK, SaveSelect, At
  <1>2. Goal(tx[w]) \in OrderRow
    BY <1>1 DEF Goal, TxState, OrderRow, Status
  <1>3. PICK dirty \in SUBSET {"status", "charge"} :
          tx' = [tx EXCEPT ![w].pc = "save", ![w].snap = Goal(tx[w]), ![w].dirty = dirty]
    BY DEF SaveSelect
  <1>4. tx' = [tx EXCEPT ![w] = [tx[w] EXCEPT !.pc = "save", !.snap = Goal(tx[w]),
                                   !.dirty = dirty, !.plan = tx[w].plan]]
    BY <1>1, <1>3 DEF TxState
  <1>5. TxOK'
    BY <1>1, <1>2, <1>4, TxMove, InvParts DEF TxState, Pc
  <1>6. RowsOK' /\ LocksOK' /\ RestOK'
    BY InvParts, RowsSame, LocksSame, RestSame DEF SaveSelect
  <1> QED
    BY <1>5, <1>6, InvParts

(* Writing a stale PENDING over a final status is counted in revived.       *)
LEMMA OverwrittenKeeps ==
    ASSUME NEW row \in OrderRow, LifeOK(row), NEW snap \in OrderRow,
           NEW dirty \in SUBSET {"status", "charge"}
    PROVE  Overwritten(row, snap, dirty) \in OrderRow /\ LifeOK(Overwritten(row, snap, dirty))
  <1> DEFINE new == Overwritten(row, snap, dirty)
             st == IF "status" \in dirty THEN snap.status ELSE row.status
             ch == IF "charge" \in dirty THEN snap.charge ELSE row.charge
             v  == IF /\ "status" \in dirty /\ snap.status = "PENDING"
                      /\ row.status # "PENDING" THEN row.revived + 1 ELSE row.revived
  <1>1. row.issued \in Nat /\ row.revived \in Nat /\ st \in Status /\ ch \in Charge
    BY DEF OrderRow
  <1>2. v \in Nat
    BY <1>1
  <1>3. new = RowWith(row, st, ch, row.issued, v)
    <2>1. new = [row EXCEPT !.status = st, !.charge = ch, !.revived = v]
      BY DEF Overwritten
    <2> HIDE DEF st, ch, v, new
    <2> QED
      BY <1>1, <1>2, <2>1 DEF OrderRow, RowWith
  <1>4. /\ new \in OrderRow /\ new.status = st
        /\ new.issued = row.issued /\ new.revived = v
    <2> HIDE DEF st, ch, v, new
    <2> QED
      BY <1>1, <1>2, <1>3, RowSet
  <1>5. LifeOK(new)
    <2>1. CASE v = row.revived + 1
      <3> HIDE DEF st, ch, new, v
      <3> QED
        BY <1>1, <1>4, <2>1 DEF LifeOK
    <2>2. CASE v = row.revived /\ (st = "PENDING" => row.status = "PENDING")
      <3> HIDE DEF st, ch, new, v
      <3> QED
        BY <1>1, <1>4, <2>2 DEF LifeOK
    <2> QED
      BY <2>1, <2>2
  <1> QED
    BY <1>4, <1>5

LEMMA SaveUpdateKeeps == ASSUME Inv, NEW w \in Workers, SaveUpdate(w) PROVE Inv'
  <1> DEFINE t == tx[w]
             next == IF t.kind = "create" THEN "insert" ELSE "commit"
  <1>1. t \in TxState /\ ~At(w, "idle") /\ t.old \in Orders /\ t.old \in Rows
    BY InvParts DEF TxOK, Started, SaveUpdate, At, Rows
  <1>2. RowsOK' /\ LocksOK'
    <2>1. CASE t.dirty = {}
      BY <2>1, RowsSame, LocksSame, InvParts DEF SaveUpdate, rows
    <2>2. CASE t.dirty # {}
      <3>1. ordersW' = [ordersW EXCEPT ![t.old] = Overwritten(ordersW[t.old], t.snap, t.dirty)]
        BY <2>2 DEF SaveUpdate
      <3>2. ordersW[t.old] \in OrderRow /\ LifeOK(ordersW[t.old])
        BY <1>1, InvParts DEF RowsOK, LifeInv
      <3>3. t.snap \in OrderRow /\ t.dirty \in SUBSET {"status", "charge"}
        BY <1>1 DEF TxState
      <3>4. /\ Overwritten(ordersW[t.old], t.snap, t.dirty) \in OrderRow
            /\ LifeOK(Overwritten(ordersW[t.old], t.snap, t.dirty))
        BY <3>2, <3>3, OverwrittenKeeps
      <3>5. RowsOK'
        BY <1>1, <3>1, <3>4, OrderWritten, InvParts DEF SaveUpdate
      <3>6. LocksOK'
        BY <1>1, <2>2, LockKeeps, InvParts DEF SaveUpdate
      <3> QED
        BY <3>5, <3>6
    <2> QED
      BY <2>1, <2>2
  <1>3. TxOK'
    <2>1. tx' = [tx EXCEPT ![w] = [tx[w] EXCEPT !.pc = next, !.snap = NoRow,
                                     !.dirty = {}, !.plan = tx[w].plan]]
      BY <1>1 DEF SaveUpdate, TxState
    <2>2. next \in Pc
      BY DEF Pc
    <2> QED
      BY <1>1, <2>1, <2>2, NoRowTyped, TxMove, InvParts DEF TxState
  <1>4. RestOK'
    BY RestSame, InvParts DEF SaveUpdate
  <1> QED
    BY <1>2, <1>3, <1>4, InvParts

LEMMA ReopenKeeps == ASSUME Inv, NEW w \in Workers, Reopen(w) PROVE Inv'
  <1> DEFINE o == tx[w].order
  <1>1. o \in Orders
    BY InvParts DEF TxOK, Started, Reopen, At
  <1>2. RowsOK' /\ lapsed' \subseteq Orders
    <2>1. CASE UNCHANGED <<orders, ordersW, lapsed>>
      BY <2>1, RowsSame, InvParts DEF Reopen, RestOK, rows
    <2>2. CASE ~UNCHANGED <<orders, ordersW, lapsed>>
      <3> DEFINE new == [orders[o] EXCEPT !.status = "PENDING", !.revived = @ + 1]
      <3>1. orders[o] \in OrderRow /\ LifeOK(orders[o])
        BY <1>1, InvParts DEF RowsOK, LifeInv
      <3>2. new \in OrderRow /\ LifeOK(new)
        <4>1. /\ orders[o].issued \in Nat /\ orders[o].revived \in Nat
              /\ orders[o].charge \in Charge
              /\ orders[o].issued <= 1 + orders[o].revived
          BY <3>1 DEF OrderRow, LifeOK
        <4>2. new = RowWith(orders[o], "PENDING", orders[o].charge, orders[o].issued,
                            orders[o].revived + 1)
          BY <3>1 DEF OrderRow, RowWith
        <4>3. "PENDING" \in Status /\ orders[o].revived + 1 \in Nat
          BY <4>1 DEF Status
        <4>4. /\ new \in OrderRow /\ new.issued = orders[o].issued
              /\ new.revived = orders[o].revived + 1
          <5> HIDE DEF new
          <5> QED
            BY <3>1, <4>1, <4>2, <4>3, RowSet
        <4> QED
          BY <4>1, <4>4 DEF LifeOK
      <3>3. /\ orders' = [orders EXCEPT ![o] = new] /\ ordersW' = [ordersW EXCEPT ![o] = new]
            /\ lapsed' = lapsed \ {o} /\ UNCHANGED <<stock, stockW>>
        BY <1>1, <2>2, <3>1, InvParts DEF Reopen, RowsOK, OrderRow
      <3> QED
        BY <1>1, <3>2, <3>3, InvParts DEF RowsOK, LifeInv, LifeOK, RestOK
    <2> QED
      BY <2>1, <2>2
  <1>3. TxOK' /\ LocksOK'
    BY TxIdle, LocksSame, InvParts DEF Reopen
  <1>4. RestOK'
    BY <1>2, InvParts DEF Reopen, RestOK
  <1> QED
    BY <1>2, <1>3, <1>4, InvParts

LEMMA CommitKeeps == ASSUME Inv, NEW w \in Workers, Commit(w) PROVE Inv'
  <1>1. tx[w].order \in Orders
    BY InvParts DEF TxOK, Started, Commit, At
  <1>2. RestOK'
    BY <1>1, InvParts DEF RestOK, Commit
  <1> QED
    BY <1>2, PublishKeeps, ReleaseLocksKeeps, TxIdle, InvParts DEF Commit

LEMMA LapseKeeps == ASSUME Inv, NEW o \in Orders, Lapse(o) PROVE Inv'
  <1>1. RestOK'
    BY InvParts DEF RestOK, Lapse
  <1> QED
    BY <1>1, RowsSame, LocksSame, TxSame, InvParts DEF Lapse

-----------------------------------------------------------------------------
(* The invariant and what follows from it *)

LEMMA InitInv == Init => Inv
  <1> SUFFICES ASSUME Init PROVE Inv
    OBVIOUS
  <1>1. RowsOK
    BY NoRowTyped DEF Init, RowsOK, LifeInv, LifeOK, NoRow, StockRow
  <1>2. LocksOK /\ RestOK
    BY DEF Init, LocksOK, RestOK
  <1>3. TxOK
    BY IdleTyped DEF Init, TxOK, Started, At
  <1> QED
    BY <1>1, <1>2, <1>3 DEF Inv, TypeInv, TypeOK, RowsOK, LocksOK, TxOK, RestOK

LEMMA StepKeeps == ASSUME Inv, NEW w \in Workers, Step(w) PROVE Inv'
  <1>1. CASE ReadFresh(w) \/ LockOrder(w) \/ InsertManual(w)
    BY <1>1, ReadFreshKeeps, LockOrderKeeps, InsertManualKeeps
  <1>2. CASE Claim(w) \/ LoseClaim(w)
    BY <1>2, ClaimKeeps, LoseClaimKeeps
  <1>3. CASE Insert(w) \/ TouchStock(w)
    BY <1>3, InsertKeeps, TouchStockKeeps
  <1>4. CASE SaveSelect(w) \/ SaveUpdate(w)
    BY <1>4, SaveSelectKeeps, SaveUpdateKeeps
  <1>5. CASE Reopen(w) \/ Commit(w)
    BY <1>5, ReopenKeeps, CommitKeeps
  <1>6. CASE DeadlockVictim(w)
    BY <1>6, AbortKeeps DEF DeadlockVictim
  <1> QED
    BY <1>1, <1>2, <1>3, <1>4, <1>5, <1>6 DEF Step

LEMMA NextInv == Inv /\ [Next]_vars => Inv'
  <1> SUFFICES ASSUME Inv, [Next]_vars PROVE Inv'
    OBVIOUS
  <1>1. CASE UNCHANGED vars
    <2>1. RowsOK' /\ LocksOK' /\ TxOK' /\ RestOK'
      BY <1>1, RowsSame, LocksSame, TxSame, RestSame, InvParts DEF vars, rows
    <2> QED
      BY <2>1, InvParts
  <1>2. ASSUME NEW w \in Workers, Begin(w) \/ Step(w) \/ ChargeCreated(w) \/ Rollback(w)
        PROVE  Inv'
    BY <1>2, BeginKeeps, StepKeeps, ChargeCreatedKeeps, AbortKeeps DEF Rollback
  <1>3. ASSUME NEW o \in Orders, Lapse(o) PROVE Inv'
    BY <1>3, LapseKeeps
  <1> QED
    BY <1>1, <1>2, <1>3 DEF Next

(* Every reachable state has the types the model gives its variables.       *)
THEOREM TypeCorrect == Spec => []TypeOK
  <1>1. Inv => TypeOK
    BY DEF Inv, TypeInv
  <1> QED
    BY <1>1, InitInv, NextInv, PTL DEF Spec

(* The conditional claim in markOrderPaid issues the tickets of an order    *)
(* once, plus once for each time the order was put back to PENDING, for any *)
(* number of concurrent checkouts, confirmations, sweeps and cancellations. *)
THEOREM ClaimIssuesOnce == Spec => []IssuedOncePerLife
  <1>1. Inv => IssuedOncePerLife
    BY DEF Inv, LifeInv, LifeOK, IssuedOncePerLife
  <1> QED
    BY <1>1, InitInv, NextInv, PTL DEF Spec

-----------------------------------------------------------------------------
(* What a transaction still asks of a row. *)
Asks(q, r, m) == \E i \in 1..Len(q) : q[i].row = r /\ q[i].mode = m

(* A plan locks a row once in each mode but the weakest, and either releases *)
(* or sells. *)
ReleaseOnly(q) == \A i \in 1..Len(q) : q[i].mode = 3
SaleOnly(q)    == \A i \in 1..Len(q) : q[i].mode \in {1, 2}
PlanOK(q) ==
    /\ q \in Seq(Statement) /\ q # <<>>
    /\ \A i, j \in 1..Len(q) : i # j /\ q[i].mode # 1 => q[i] # q[j]
    /\ ReleaseOnly(q) \/ SaleOnly(q)
(* It asks in mode m for exactly the rows that order o has units of. *)
Covers(q, o, m) == \A r \in Stock : Asks(q, r, m) <=> Qty[o][r] > 0

(* A sequence that contains each element of S once. *)
Lists(q, S) == /\ \A i \in 1..Len(q) : q[i] \in S
               /\ \A i, j \in 1..Len(q) : i # j => q[i] # q[j]
               /\ \A x \in S : \E i \in 1..Len(q) : q[i] = x

LEMMA SetToSeqsFacts ==
    ASSUME NEW S, IsFiniteSet(S), NEW q \in AnyOrder(S)
    PROVE  q \in Seq(S) /\ Len(q) \in Nat /\ Lists(q, S)
  <1> DEFINE n == Cardinality(S)
  <1>1. n \in Nat
    BY FS_CardinalityType
  <1>2. q \in [1..n -> S] /\ \A i, j \in 1..n : i # j => q[i] # q[j]
    BY DEF AnyOrder, SetToSeqs
  <1>3. q \in Seq(S) /\ Len(q) = n
    BY <1>1, <1>2
  <1>4. q \in Injection(1..n, S)
    BY <1>2 DEF Injection, IsInjective
  <1>5. Cardinality(1..n) = n
    BY <1>1, FS_Interval
  <1>6. q \in Surjection(1..n, S)
    BY <1>4, <1>5, FS_Injection
  <1> QED
    BY <1>1, <1>2, <1>3, <1>6 DEF Surjection, Lists

LEMMA TouchedFacts ==
    ASSUME NEW o \in Orders
    PROVE  /\ IsFiniteSet(Touched(o, Sectors)) /\ Touched(o, Sectors) \subseteq Sectors
           /\ IsFiniteSet(Touched(o, Batches)) /\ Touched(o, Batches) \subseteq Batches
           /\ Touched(o, Sectors) \cap Touched(o, Batches) = {}
           /\ Touched(o, Stock) = Touched(o, Sectors) \cup Touched(o, Batches)
           /\ Touched(o, Stock) # {}
           /\ \A r \in Stock : r \in Touched(o, Stock) <=> Qty[o][r] > 0
  BY ShapeAssumption, SelectionAssumption, FS_Subset DEF Touched, Items, Stock

(* The two halves of a plan, one after the other. *)
Joined(p, q, m) == Each(p, m) \o Each(q, m)

LEMMA JoinedFacts ==
    ASSUME NEW p \in Seq(Stock), NEW q \in Seq(Stock), NEW m \in 1..3
    PROVE  /\ Joined(p, q, m) \in Seq(Statement)
           /\ Len(Joined(p, q, m)) = Len(p) + Len(q) /\ Len(p) \in Nat /\ Len(q) \in Nat
           /\ \A i \in 1..Len(p) : Joined(p, q, m)[i].row = p[i] /\ Joined(p, q, m)[i].mode = m
           /\ \A i \in 1..Len(q) : /\ Joined(p, q, m)[Len(p) + i].row = q[i]
                                 /\ Joined(p, q, m)[Len(p) + i].mode = m
  <1>1. Each(p, m) \in Seq(Statement) /\ Each(q, m) \in Seq(Statement)
    BY EachTyped
  <1> QED
    BY <1>1 DEF Each, Joined

LEMMA TwoParts ==
    ASSUME NEW o \in Orders, NEW p \in Seq(Stock), NEW q \in Seq(Stock), NEW m \in 2..3,
           NEW S, NEW T, S \cap T = {}, Lists(p, S), Lists(q, T),
           Touched(o, Stock) = S \cup T, Touched(o, Stock) # {}
    PROVE  /\ PlanOK(Joined(p, q, m)) /\ Covers(Joined(p, q, m), o, m)
           /\ \A i \in 1..Len(Joined(p, q, m)) : Joined(p, q, m)[i].mode = m
  <1> DEFINE plan == Joined(p, q, m)
             rowAt(i) == IF i <= Len(p) THEN p[i] ELSE q[i - Len(p)]
  <1>1. /\ plan \in Seq(Statement)
        /\ Len(plan) = Len(p) + Len(q) /\ Len(p) \in Nat /\ Len(q) \in Nat
    BY JoinedFacts
  <1>2. \A i \in 1..Len(plan) : \/ i \in 1..Len(p)
                                \/ ~(i <= Len(p)) /\ i - Len(p) \in 1..Len(q) /\ Len(p) + (i - Len(p)) = i
    BY <1>1
  <1>3. \A i \in 1..Len(p) : plan[i].row = p[i] /\ plan[i].mode = m
    BY JoinedFacts
  <1>4. \A i \in 1..Len(q) : plan[Len(p) + i].row = q[i] /\ plan[Len(p) + i].mode = m
    BY JoinedFacts
  <1> HIDE DEF plan
  <1>5. \A i \in 1..Len(plan) : plan[i].mode = m
    BY <1>2, <1>3, <1>4
  <1>6. \A i \in 1..Len(plan) : \/ i \in 1..Len(p) /\ plan[i].row = p[i] /\ plan[i].row \in S
                                \/ /\ i \notin 1..Len(p) /\ i - Len(p) \in 1..Len(q)
                                   /\ plan[i].row = q[i - Len(p)] /\ plan[i].row \in T
    <2> SUFFICES ASSUME NEW i \in 1..Len(plan)
                 PROVE \/ i \in 1..Len(p) /\ plan[i].row = p[i] /\ plan[i].row \in S
                       \/ /\ i \notin 1..Len(p) /\ i - Len(p) \in 1..Len(q)
                          /\ plan[i].row = q[i - Len(p)] /\ plan[i].row \in T
      OBVIOUS
    <2>1. CASE i \in 1..Len(p)
      BY <1>3, <2>1 DEF Lists
    <2>2. CASE i \notin 1..Len(p)
      <3>1. i - Len(p) \in 1..Len(q) /\ Len(p) + (i - Len(p)) = i
        BY <1>1, <1>2, <2>2
      <3>2. plan[i].row = q[i - Len(p)]
        BY <1>4, <3>1
      <3> QED
        BY <2>2, <3>1, <3>2 DEF Lists
    <2> QED
      BY <2>1, <2>2
  <1>7. \A i, j \in 1..Len(plan) : i # j => plan[i].row # plan[j].row
    <2> SUFFICES ASSUME NEW i \in 1..Len(plan), NEW j \in 1..Len(plan), i # j
                 PROVE  plan[i].row # plan[j].row
      OBVIOUS
    <2>1. CASE i \in 1..Len(p) /\ j \in 1..Len(p)
      BY <1>3, <2>1 DEF Lists
    <2>2. CASE i \notin 1..Len(p) /\ j \notin 1..Len(p)
      <3>1. /\ i - Len(p) \in 1..Len(q) /\ plan[i].row = q[i - Len(p)]
            /\ j - Len(p) \in 1..Len(q) /\ plan[j].row = q[j - Len(p)]
        BY <1>6, <2>2
      <3>2. i - Len(p) # j - Len(p)
        BY <1>1
      <3> QED
        BY <3>1, <3>2 DEF Lists
    <2>3. CASE ~(i \in 1..Len(p) <=> j \in 1..Len(p))
      BY <1>6, <2>3
    <2> QED
      BY <2>1, <2>2, <2>3
  <1>8. Covers(plan, o, m)
    <2> SUFFICES ASSUME NEW r \in Stock PROVE Asks(plan, r, m) <=> r \in S \cup T
      BY DEF Covers, Touched
    <2>1. ASSUME r \in S PROVE Asks(plan, r, m)
      <3>1. PICK i \in 1..Len(p) : p[i] = r
        BY <2>1 DEF Lists
      <3>2. i \in 1..Len(plan)
        BY <1>1
      <3> QED
        BY <1>3, <3>1, <3>2 DEF Asks
    <2>2. ASSUME r \in T PROVE Asks(plan, r, m)
      <3>1. PICK i \in 1..Len(q) : q[i] = r
        BY <2>2 DEF Lists
      <3>2. Len(p) + i \in 1..Len(plan)
        BY <1>1
      <3> QED
        BY <1>4, <3>1, <3>2 DEF Asks
    <2>3. ASSUME Asks(plan, r, m) PROVE r \in S \cup T
      BY <1>6, <2>3 DEF Asks
    <2> QED
      BY <2>1, <2>2, <2>3
  <1>9. plan # <<>>
    <2>1. (\E i \in 1..Len(p) : TRUE) \/ (\E i \in 1..Len(q) : TRUE)
      BY DEF Lists
    <2>2. Len(plan) > 0
      BY <1>1, <2>1
    <2> QED
      BY <2>2
  <1>10. PlanOK(plan)
    BY <1>1, <1>5, <1>7, <1>9 DEF PlanOK, ReleaseOnly, SaleOnly
  <1> QED
    BY <1>5, <1>8, <1>10 DEF plan

LEMMA ReleasePlanFacts ==
    ASSUME NEW o \in Orders, NEW plan \in ReleasePlans(o)
    PROVE  PlanOK(plan) /\ Covers(plan, o, 3) /\ ReleaseOnly(plan)
  <1>a. PICK ss \in AnyOrder(Touched(o, Sectors)), bs \in AnyOrder(Touched(o, Batches)) :
          plan = Joined(ss, bs, 3)
    BY DEF ReleasePlans, Joined
  <1>1. Lists(ss, Touched(o, Sectors)) /\ Lists(bs, Touched(o, Batches))
    BY TouchedFacts, SetToSeqsFacts
  <1>2. ss \in Seq(Stock) /\ bs \in Seq(Stock)
    BY TouchedTyped
  <1>3. /\ Touched(o, Sectors) \cap Touched(o, Batches) = {}
        /\ Touched(o, Stock) = Touched(o, Sectors) \cup Touched(o, Batches)
        /\ Touched(o, Stock) # {}
    BY TouchedFacts
  <1> QED
    BY <1>a, <1>1, <1>2, <1>3, TwoParts DEF ReleaseOnly

LEMMA UpdatePlanFacts ==
    ASSUME NEW o \in Orders, NEW plan \in UpdatePlans(o)
    PROVE  /\ PlanOK(plan) /\ Covers(plan, o, 2)
           /\ \A i \in 1..Len(plan) : plan[i].mode = 2
  <1>a. PICK bs \in IdOrder(Touched(o, Batches)), ss \in IdOrder(Touched(o, Sectors)) :
          plan = Joined(bs, ss, 2)
    BY DEF UpdatePlans, Joined
  <1>b. bs \in AnyOrder(Touched(o, Batches)) /\ ss \in AnyOrder(Touched(o, Sectors))
    BY DEF IdOrder, AnyOrder
  <1>1. Lists(ss, Touched(o, Sectors)) /\ Lists(bs, Touched(o, Batches))
    BY <1>b, TouchedFacts, SetToSeqsFacts
  <1>2. ss \in Seq(Stock) /\ bs \in Seq(Stock)
    BY <1>b, TouchedTyped
  <1>3. /\ Touched(o, Batches) \cap Touched(o, Sectors) = {}
        /\ Touched(o, Stock) = Touched(o, Batches) \cup Touched(o, Sectors)
        /\ Touched(o, Stock) # {}
    BY TouchedFacts
  <1> QED
    BY <1>a, <1>1, <1>2, <1>3, TwoParts

(* The foreign-key checks come first and ask for no row in mode 2. *)
LEMMA InsertPlanFacts ==
    ASSUME NEW o \in Orders, NEW fk \in ForeignKeyPlans(o), NEW upd \in UpdatePlans(o)
    PROVE  PlanOK(fk \o upd) /\ Covers(fk \o upd, o, 2) /\ SaleOnly(fk \o upd)
  <1> DEFINE plan == fk \o upd
  <1>1. fk \in Seq(Statement) /\ \A i \in 1..Len(fk) : fk[i].mode = 1
    <2>1. fk \in Seq(Statement)
      BY ForeignKeyPlansTyped
    <2>2. PICK q \in AnyOrder(Touched(o, Batches)) :
            fk = [i \in 1..(2 * Len(q)) |->
                   [row |-> IF i % 2 = 1 THEN SectorOf[q[(i + 1) \div 2]] ELSE q[i \div 2],
                    mode |-> 1]]
      BY DEF ForeignKeyPlans
    <2>3. Len(q) \in Nat
      BY TouchedFacts, SetToSeqsFacts
    <2>4. Len(fk) = 2 * Len(q)
      BY <2>1, <2>2, <2>3
    <2> QED
      BY <2>1, <2>2, <2>4
  <1>2. /\ upd \in Seq(Statement) /\ upd # <<>> /\ Covers(upd, o, 2)
        /\ \A i \in 1..Len(upd) : upd[i].mode = 2
        /\ \A i, j \in 1..Len(upd) : i # j => upd[i] # upd[j]
    BY UpdatePlanFacts DEF PlanOK
  <1>3. /\ plan \in Seq(Statement) /\ Len(plan) = Len(fk) + Len(upd)
        /\ Len(fk) \in Nat /\ Len(upd) \in Nat
        /\ \A i \in 1..Len(plan) : plan[i] = IF i <= Len(fk) THEN fk[i] ELSE upd[i - Len(fk)]
    BY <1>1, <1>2
  <1> HIDE DEF plan
  <1>4. \A i \in 1..Len(plan) : /\ i <= Len(fk) => plan[i].mode = 1
                                /\ i > Len(fk) => plan[i].mode = 2 /\ i - Len(fk) \in 1..Len(upd)
    <2> SUFFICES ASSUME NEW i \in 1..Len(plan)
                 PROVE  /\ i <= Len(fk) => plan[i].mode = 1
                        /\ i > Len(fk) => plan[i].mode = 2 /\ i - Len(fk) \in 1..Len(upd)
      OBVIOUS
    <2>1. CASE i <= Len(fk)
      BY <1>1, <1>3, <2>1
    <2>2. CASE i > Len(fk)
      <3>1. i - Len(fk) \in 1..Len(upd)
        BY <1>3, <2>2
      <3> QED
        BY <1>2, <1>3, <2>2, <3>1
    <2> QED
      BY <1>3, <2>1, <2>2
  <1>5. SaleOnly(plan) /\ plan # <<>>
    <2>1. Len(upd) > 0
      BY <1>2
    <2> QED
      BY <1>3, <1>4, <2>1 DEF SaleOnly
  <1>6. \A i, j \in 1..Len(plan) : i # j /\ plan[i].mode # 1 => plan[i] # plan[j]
    <2> SUFFICES ASSUME NEW i \in 1..Len(plan), NEW j \in 1..Len(plan), i # j, plan[i].mode # 1
                 PROVE  plan[i] # plan[j]
      OBVIOUS
    <2>1. i > Len(fk)
      BY <1>3, <1>4
    <2>2. CASE j <= Len(fk)
      BY <1>4, <2>1, <2>2
    <2>3. CASE j > Len(fk)
      <3>1. i - Len(fk) \in 1..Len(upd) /\ j - Len(fk) \in 1..Len(upd) /\ i - Len(fk) # j - Len(fk)
        BY <1>3, <1>4, <2>1, <2>3
      <3> QED
        BY <1>2, <1>3, <2>1, <2>3, <3>1
    <2> QED
      BY <1>3, <2>2, <2>3
  <1>7. \A r : Asks(plan, r, 2) <=> Asks(upd, r, 2)
    <2> TAKE r
    <2>1. ASSUME Asks(plan, r, 2) PROVE Asks(upd, r, 2)
      <3>1. PICK i \in 1..Len(plan) : plan[i].row = r /\ plan[i].mode = 2
        BY <2>1 DEF Asks
      <3>2. i > Len(fk)
        BY <1>3, <1>4, <3>1
      <3>3. plan[i] = upd[i - Len(fk)] /\ i - Len(fk) \in 1..Len(upd)
        BY <1>3, <1>4, <3>2
      <3> QED
        BY <3>1, <3>3 DEF Asks
    <2>2. ASSUME Asks(upd, r, 2) PROVE Asks(plan, r, 2)
      <3>1. PICK i \in 1..Len(upd) : upd[i].row = r /\ upd[i].mode = 2
        BY <2>2 DEF Asks
      <3>2. i + Len(fk) \in 1..Len(plan) /\ ~(i + Len(fk) <= Len(fk)) /\ i + Len(fk) - Len(fk) = i
        BY <1>3, <3>1
      <3>3. plan[i + Len(fk)] = upd[i]
        BY <1>3, <3>2
      <3> QED
        BY <3>1, <3>2, <3>3 DEF Asks
    <2> QED
      BY <2>1, <2>2
  <1> QED
    BY <1>2, <1>3, <1>5, <1>6, <1>7 DEF PlanOK, Covers, plan

(* What is left of a plan after its first statement. *)
LEMMA TailFacts ==
    ASSUME NEW q, PlanOK(q)
    PROVE  /\ Head(q) \in Statement /\ Tail(q) \in Seq(Statement)
           /\ \A r, m : Asks(q, r, m) <=> Asks(Tail(q), r, m) \/ (r = Head(q).row /\ m = Head(q).mode)
           /\ Head(q).mode # 1 => ~Asks(Tail(q), Head(q).row, Head(q).mode)
           /\ Head(q).mode = 3 <=> ReleaseOnly(q)
           /\ Head(q).mode = 3 \/ SaleOnly(q)
           /\ Tail(q) # <<>> => PlanOK(Tail(q)) /\ (Head(Tail(q)).mode = 3 <=> Head(q).mode = 3)
  <1>1. /\ q \in Seq(Statement) /\ q # <<>> /\ Len(q) \in Nat /\ Len(q) > 0
    BY DEF PlanOK
  <1>2. /\ Head(q) = q[1] /\ Tail(q) \in Seq(Statement) /\ Len(Tail(q)) = Len(q) - 1
        /\ \A i \in 1..Len(Tail(q)) : Tail(q)[i] = q[i + 1]
        /\ Head(q) \in Statement
    BY <1>1
  <1>3. \A i \in 1..Len(q) : q[i] \in Statement
    BY <1>1
  <1> DEFINE rest == Tail(q)
  <1>4. Head(q).mode = 3 <=> ReleaseOnly(q)
    BY <1>1, <1>2 DEF PlanOK, ReleaseOnly, SaleOnly
  <1>5. Head(q).mode = 3 \/ SaleOnly(q)
    BY <1>1, <1>2 DEF PlanOK, ReleaseOnly, SaleOnly
  <1>6. \A r, m : Asks(q, r, m) <=> Asks(rest, r, m) \/ (r = Head(q).row /\ m = Head(q).mode)
    <2> TAKE r, m
    <2> HIDE DEF rest
    <2>0. Len(rest) = Len(q) - 1 /\ \A i \in 1..Len(rest) : rest[i] = q[i + 1]
      BY <1>2 DEF rest
    <2>1. ASSUME Asks(q, r, m), ~(r = Head(q).row /\ m = Head(q).mode) PROVE Asks(rest, r, m)
      <3>1. PICK i \in 1..Len(q) : q[i].row = r /\ q[i].mode = m
        BY <2>1 DEF Asks
      <3>2. i # 1
        BY <1>2, <2>1, <3>1
      <3>3. i - 1 \in 1..Len(rest) /\ (i - 1) + 1 = i
        BY <1>1, <2>0, <3>1, <3>2
      <3>4. rest[i - 1] = q[i]
        BY <2>0, <3>3
      <3> QED
        BY <3>1, <3>3, <3>4 DEF Asks
    <2>2. ASSUME Asks(rest, r, m) PROVE Asks(q, r, m)
      <3>1. PICK i \in 1..Len(rest) : rest[i].row = r /\ rest[i].mode = m
        BY <2>2 DEF Asks
      <3>2. i + 1 \in 1..Len(q) /\ rest[i] = q[i + 1]
        BY <1>1, <2>0, <3>1
      <3> QED
        BY <3>1, <3>2 DEF Asks
    <2>3. ASSUME r = Head(q).row /\ m = Head(q).mode PROVE Asks(q, r, m)
      BY <1>1, <1>2, <2>3 DEF Asks
    <2> QED
      BY <2>1, <2>2, <2>3
  <1>7. \A i \in 1..Len(rest) : i + 1 \in 1..Len(q) /\ i + 1 # 1
    BY <1>1, <1>2
  <1>8. Head(q).mode # 1 => ~Asks(rest, Head(q).row, Head(q).mode)
    <2> SUFFICES ASSUME Head(q).mode # 1, NEW i \in 1..Len(rest), rest[i].row = Head(q).row,
                        rest[i].mode = Head(q).mode
                 PROVE  FALSE
      BY DEF Asks
    <2>1. q[i + 1] # q[1]
      BY <1>1, <1>2, <1>7 DEF PlanOK
    <2>2. q[i + 1] \in Statement /\ q[1] \in Statement
      BY <1>1, <1>3, <1>7
    <2>3. q[i + 1].row = q[1].row /\ q[i + 1].mode = q[1].mode
      BY <1>2
    <2> QED
      BY <2>1, <2>2, <2>3 DEF Statement
  <1>9. ASSUME rest # <<>> PROVE PlanOK(rest) /\ (Head(rest).mode = 3 <=> Head(q).mode = 3)
    <2>1. \A i, j \in 1..Len(rest) : i # j /\ rest[i].mode # 1 => rest[i] # rest[j]
      <3> SUFFICES ASSUME NEW i \in 1..Len(rest), NEW j \in 1..Len(rest), i # j, rest[i].mode # 1
                   PROVE  rest[i] # rest[j]
        OBVIOUS
      <3>1. i + 1 \in 1..Len(q) /\ j + 1 \in 1..Len(q) /\ i + 1 # j + 1
        BY <1>1, <1>2, <1>7
      <3> QED
        BY <1>2, <3>1 DEF PlanOK
    <2>2. ReleaseOnly(rest) \/ SaleOnly(rest)
      BY <1>2, <1>7 DEF PlanOK, ReleaseOnly, SaleOnly
    <2>3. Head(rest) = rest[1] /\ 1 \in 1..Len(rest)
      BY <1>1, <1>2, <1>9
    <2>4. Head(rest).mode = 3 <=> Head(q).mode = 3
      BY <1>2, <1>4, <1>5, <1>7, <2>3 DEF ReleaseOnly, SaleOnly
    <2> QED
      BY <1>2, <1>9, <2>1, <2>2, <2>4 DEF PlanOK
  <1> QED
    BY <1>2, <1>4, <1>5, <1>6, <1>8, <1>9

-----------------------------------------------------------------------------
(***************************************************************************)
(* The working state of a transaction: t is what the worker is doing and l *)
(* the locks it holds.                                                     *)
(***************************************************************************)
SaleKinds == {"create", "pay", "manual"}
EndKinds  == {"create", "expire", "cancel"}
Ends      == {"EXPIRED", "CANCELLED"}

Held(w) == [r \in Rows |-> locks[r][w]]

(* Releasing the old order's units; past its save; holding the order it     *)
(* sells or inserts.                                                        *)
Freeing(t) == t.pc = "stock" /\ Head(t.plan).mode = 3
Saved(t)   == t.pc \in {"insert", "commit"} \/ (t.pc = "stock" /\ ~Freeing(t))
Replaces(t) == t.kind = "create" => t.old # t.order
Selling(t, l) == t.kind \in SaleKinds /\ l[t.order] >= 2
AllFreed(t, l) == \A r \in Stock : Qty[t.old][r] > 0 => l[r] = 3

(* The version of row r the transaction leaves, from the committed one.     *)
Freed(t, l, r) == IF l[r] = 3 THEN Qty[t.old][r] ELSE 0
Taken(t, l, r) == IF Selling(t, l) /\ ~Asks(t.plan, r, 2) THEN Qty[t.order][r] ELSE 0
MovedRow(t, l, r, row) ==
    IF t.kind \in {"pay", "manual"} THEN Sold(row, Taken(t, l, r))
    ELSE Reserved(Released(row, Freed(t, l, r)), Taken(t, l, r))

KindsAt(pc) ==
    CASE pc = "idle" -> {"none"}
      [] pc = "fresh" -> {"create", "expire"}
      [] pc = "own" -> {"cancel"}
      [] pc = "manual" -> {"manual"}
      [] pc = "claim" -> {"pay", "manual"}
      [] pc = "charge" -> {"checkout"}
      [] pc = "insert" -> {"create"}
      [] pc = "reopen" -> {"reopen"}
      [] pc = "stock" -> SaleKinds \cup EndKinds
      [] pc = "commit" -> AllKinds \ {"reopen"}
      [] OTHER -> EndKinds \cup {"checkout"}
TxShape(t) ==
    /\ t.kind \in KindsAt(t.pc)
    /\ t.kind \notin {"create", "none"} => t.old = t.order
    /\ IF t.pc = "stock" THEN PlanOK(t.plan) ELSE t.plan = <<>>
    /\ t.pc = "stock" => IF Freeing(t) THEN t.kind \in EndKinds ELSE t.kind \in SaleKinds
    /\ Freeing(t) \/ t.pc \in {"fresh", "diff", "save"} => Replaces(t)
    /\ t.kind = "checkout" /\ t.pc \in {"charge", "diff", "save"} => t.snap.status = "PENDING"
    /\ t.kind \in EndKinds /\ t.pc = "save" => t.snap.status \in Ends

(* Nothing locked yet. *)
Unlocked == {"idle", "fresh", "own", "manual", "reopen", "charge"}
(* Its locks: orders it works on, and the rows its plan has gone through.   *)
OrderLocks(t, l) ==
    /\ t.pc \in Unlocked => \A r \in Rows : l[r] = 0
    /\ \A o \in Orders : l[o] >= 1 => o \in {t.order, t.old}
    /\ t.pc = "stock" /\ ~Freeing(t) => Selling(t, l)
    /\ t.kind = "create" /\ t.pc = "commit" => Selling(t, l)
    /\ Selling(t, l) => t.pc = "commit" \/ (t.pc = "stock" /\ ~Freeing(t))
StockLocks(t, l) ==
    /\ \A r \in Stock :
        /\ Asks(t.plan, r, 3) => l[r] # 3
        /\ Freeing(t) /\ Qty[t.old][r] > 0 /\ ~Asks(t.plan, r, 3) => l[r] = 3
        /\ l[r] = 3 => t.kind \in EndKinds
        /\ Selling(t, l) /\ Qty[t.order][r] > 0 /\ ~Asks(t.plan, r, 2) => l[r] >= 2
    /\ t.kind \in EndKinds /\ t.pc \in {"diff", "save"} => AllFreed(t, l)
    /\ t.kind \in {"expire", "cancel"} /\ t.pc = "commit" => AllFreed(t, l)

(* The order rows it will publish, against the committed ones.              *)
SaleWritten(t, l) ==
    Selling(t, l) =>
        IF t.kind = "create" THEN ordersW[t.order] = NewRow
        ELSE /\ orders[t.order].status = "PENDING"
             /\ ordersW[t.order].status = "PAID"
             /\ ordersW[t.order].issued = orders[t.order].issued + 1
EndWritten(t, l) ==
    t.kind \in EndKinds \cup {"checkout"} /\ Replaces(t) /\ l[t.old] >= 2 =>
        IF ~Saved(t) THEN ordersW[t.old] = orders[t.old]
        ELSE /\ ordersW[t.old].issued = orders[t.old].issued
             /\ \/ ordersW[t.old].status = orders[t.old].status
                \/ t.kind = "checkout" /\ ordersW[t.old].status = "PENDING"
                \/ t.kind # "checkout" /\ ordersW[t.old].status \in Ends /\ AllFreed(t, l)
StockWritten(t, l) == \A r \in Stock : l[r] >= 2 => stockW[r] = MovedRow(t, l, r, stock[r])
OrderFacts(t) ==
    /\ t.kind = "create" => orders[t.order] = NoRow
    /\ t.pc # "idle" /\ Replaces(t) => orders[t.old].status # "NONE"

WorkerOK(t, l) ==
    /\ TxShape(t) /\ OrderLocks(t, l) /\ StockLocks(t, l)
    /\ OrderFacts(t) /\ SaleWritten(t, l) /\ EndWritten(t, l) /\ StockWritten(t, l)

Exclusive == \A r \in Rows : \A v, w \in Workers : v # w => locks[r][v] + locks[r][w] <= 3
Clean == /\ \A o \in Orders : (\A w \in Workers : locks[o][w] < 2) => ordersW[o] = orders[o]
         /\ \A r \in Stock : (\A w \in Workers : locks[r][w] < 2) => stockW[r] = stock[r]
OneCreate == \A v, w \in Workers :
    v # w /\ tx[v].kind = "create" /\ tx[w].kind = "create" => tx[v].order # tx[w].order
Blank == \A o \in Orders : orders[o].status = "NONE" => orders[o] = NoRow
BaseInv == Exclusive /\ Clean /\ OneCreate /\ Blank /\ \A w \in Workers : WorkerOK(tx[w], Held(w))

LEMMA InvPartsNext == Inv' => RowsOK' /\ LocksOK' /\ TxOK' /\ RestOK'
  BY DEF Inv, TypeInv, TypeOK, RowsOK, LocksOK, TxOK, RestOK

LEMMA HeldTyped ==
    ASSUME Inv, NEW w \in Workers
    PROVE  Held(w) \in [Rows -> 0..3] /\ tx[w] \in TxState
  BY InvParts DEF LocksOK, TxOK, Held

(* What a step of another worker leaves to v: its own work, the rows it     *)
(* holds for writing, the absence of the order it is about to insert.       *)
RowsKept(v) ==
    /\ \A o \in Orders : locks[o][v] >= 2 => orders'[o] = orders[o] /\ ordersW'[o] = ordersW[o]
    /\ \A r \in Stock : locks[r][v] >= 2 => stock'[r] = stock[r] /\ stockW'[r] = stockW[r]
    /\ tx[v].kind = "create" => orders'[tx[v].order] = orders[tx[v].order]
    /\ \A o \in Orders : orders[o].status # "NONE" => orders'[o].status # "NONE"
Kept(v) == tx'[v] = tx[v] /\ Held(v)' = Held(v) /\ RowsKept(v)

LEMMA Frame ==
    ASSUME Inv, NEW v \in Workers, WorkerOK(tx[v], Held(v)), Kept(v)
    PROVE  WorkerOK(tx[v], Held(v))'
  <1> DEFINE t == tx[v]
             l == Held(v)
  <1>0. Stock \subseteq Rows /\ Orders \subseteq Rows
    BY DEF Rows
  <1>1. /\ t \in TxState /\ l \in [Rows -> 0..3] /\ \A r \in Rows : l[r] = locks[r][v]
        /\ t.pc # "idle" => t.order \in Orders /\ t.old \in Orders
    BY HeldTyped, InvParts DEF TxOK, Started, At, Held
  <1>2. tx'[v] = t /\ Held(v)' = l
    BY DEF Kept
  <1>3. t.kind # "none" => t.pc # "idle"
    BY DEF WorkerOK, TxShape, KindsAt
  <1>4. \A o \in Orders : l[o] >= 2 => orders'[o] = orders[o] /\ ordersW'[o] = ordersW[o]
    BY <1>0, <1>1 DEF Kept, RowsKept
  <1>5. \A r \in Stock : l[r] >= 2 => stock'[r] = stock[r] /\ stockW'[r] = stockW[r]
    BY <1>0, <1>1 DEF Kept, RowsKept
  <1> HIDE DEF t, l
  <1>6. OrderFacts(t)'
    BY <1>1, <1>2 DEF WorkerOK, OrderFacts, Kept, RowsKept, Replaces, t, l
  <1>7. SaleWritten(t, l)'
    BY <1>1, <1>2, <1>3, <1>4 DEF WorkerOK, SaleWritten, Selling, t, l, SaleKinds
  <1>8. EndWritten(t, l)'
    BY <1>1, <1>2, <1>3, <1>4
       DEF WorkerOK, EndWritten, t, l, EndKinds, Replaces, Saved, Freeing, AllFreed
  <1>9. StockWritten(t, l)'
    <2> SUFFICES ASSUME NEW r \in Stock, l[r] >= 2
                 PROVE  stockW'[r] = MovedRow(t, l, r, stock'[r])
      BY <1>2 DEF StockWritten, MovedRow, Freed, Taken, Selling, t, l
    <2>1. stockW[r] = MovedRow(t, l, r, stock[r])
      BY DEF WorkerOK, StockWritten, t, l
    <2> QED
      BY <1>5, <2>1
  <1>10. TxShape(t)' /\ OrderLocks(t, l)' /\ StockLocks(t, l)'
    <2>1. TxShape(t) /\ OrderLocks(t, l) /\ StockLocks(t, l)
      BY DEF WorkerOK, t, l
    <2>2. t' = t /\ l' = l
      BY <1>2 DEF t, l
    <2> QED
      BY <2>1, <2>2 DEF TxShape, OrderLocks, StockLocks, Selling, AllFreed, Replaces, Freeing
  <1> QED
    BY <1>6, <1>7, <1>8, <1>9, <1>10 DEF WorkerOK, t, l

(* A step of w as the other workers see it.                                 *)
LEMMA StepFrame ==
    ASSUME Inv, BaseInv, NEW w \in Workers, \A v \in Workers \ {w} : Kept(v),
           WorkerOK(tx[w], Held(w))', Exclusive', Clean', Blank',
           \/ tx'[w].kind # "create"
           \/ tx[w].kind = "create" /\ tx'[w].order = tx[w].order
           \/ \A v \in Workers \ {w} : tx[v].kind = "create" => tx[v].order # tx'[w].order
    PROVE  BaseInv'
  <1>1. \A v \in Workers : WorkerOK(tx[v], Held(v))'
    BY Frame DEF BaseInv
  <1>2. OneCreate'
    BY DEF BaseInv, OneCreate, Kept
  <1> QED
    BY <1>1, <1>2 DEF BaseInv

-----------------------------------------------------------------------------
(* What statements do to locks and to the versions of rows *)

LEMMA SetTx ==
    ASSUME Inv, NEW w \in Workers, NEW t, tx' = [tx EXCEPT ![w] = t]
    PROVE  tx'[w] = t /\ \A v \in Workers \ {w} : tx'[v] = tx[v]
  BY InvParts DEF TxOK

LEMMA LocksUnchanged ==
    ASSUME Inv, Exclusive, UNCHANGED locks
    PROVE  Exclusive' /\ \A v \in Workers : Held(v)' = Held(v)
  BY DEF Exclusive, Held

LEMMA LockFacts ==
    ASSUME Inv, Exclusive, NEW w \in Workers, NEW r \in Rows, NEW m, m \in {1, 2, 3}, Lock(w, r, m),
           \A v \in Workers \ {w} : locks[r][v] + m <= 3
    PROVE  /\ Exclusive'
           /\ \A x \in Rows : Held(w)'[x] = IF x = r THEN Stronger(Held(w)[r], m) ELSE Held(w)[x]
           /\ \A v \in Workers \ {w} : Held(v)' = Held(v)
           /\ \A x \in Rows, v \in Workers : locks'[x][v] >= locks[x][v]
           /\ locks'[r][w] >= m
  <1>0. m \in 1..3
    OBVIOUS
  <1>1. locks \in [Rows -> [Workers -> 0..3]]
    BY InvParts DEF LocksOK
  <1>2. locks' = [locks EXCEPT ![r][w] = Stronger(@, m)]
    BY DEF Lock
  <1>3. \A x \in Rows, v \in Workers :
          locks'[x][v] = IF x = r /\ v = w THEN Stronger(locks[r][w], m) ELSE locks[x][v]
    BY <1>1, <1>2
  <1>4. Stronger(locks[r][w], m) \in {locks[r][w], m} /\ Stronger(locks[r][w], m) >= m
        /\ Stronger(locks[r][w], m) >= locks[r][w]
    BY <1>0, <1>1 DEF Stronger
  <1>5. Exclusive'
    BY <1>0, <1>1, <1>3, <1>4 DEF Exclusive
  <1>6. \A x \in Rows : Held(w)'[x] = IF x = r THEN Stronger(Held(w)[r], m) ELSE Held(w)[x]
    BY <1>1, <1>3 DEF Held
  <1>7. \A v \in Workers \ {w} : Held(v)' = Held(v)
    BY <1>3 DEF Held
  <1> QED
    BY <1>0, <1>1, <1>3, <1>4, <1>5, <1>6, <1>7

LEMMA ReleaseFacts ==
    ASSUME Inv, Exclusive, NEW w \in Workers, ReleaseLocks(w)
    PROVE  /\ Exclusive'
           /\ \A r \in Rows : Held(w)'[r] = 0
           /\ \A v \in Workers \ {w} : Held(v)' = Held(v)
  <1>1. locks \in [Rows -> [Workers -> 0..3]]
    BY InvParts DEF LocksOK
  <1>2. \A x \in Rows, v \in Workers : locks'[x][v] = IF v = w THEN 0 ELSE locks[x][v]
    BY <1>1 DEF ReleaseLocks
  <1>3. Exclusive'
    BY <1>1, <1>2 DEF Exclusive
  <1> QED
    BY <1>2, <1>3 DEF Held

(* A row that no other transaction writes holds the committed version for   *)
(* one that has not written it.                                             *)
LEMMA CleanRow ==
    ASSUME Inv, Clean, NEW w \in Workers, NEW r \in Rows, locks[r][w] < 2,
           \A v \in Workers \ {w} : locks[r][v] + 2 <= 3
    PROVE  /\ r \in Orders => ordersW[r] = orders[r]
           /\ r \in Stock => stockW[r] = stock[r]
  <1>1. \A v \in Workers : locks[r][v] < 2
    BY InvParts DEF LocksOK
  <1> QED
    BY <1>1 DEF Clean

LEMMA QuietRow ==
    ASSUME Inv, Inv', NEW r \in Rows, \A v \in Workers : locks'[r][v] >= locks[r][v],
           \A v \in Workers : locks'[r][v] < 2
    PROVE  \A v \in Workers : locks[r][v] < 2
  <1>1. \A v \in Workers : locks[r][v] \in 0..3 /\ locks'[r][v] \in 0..3
    BY InvParts, InvPartsNext DEF LocksOK
  <1> QED
    BY <1>1

(* Nothing written.                                                         *)
LEMMA SilentRows ==
    ASSUME Inv, Inv', BaseInv, UNCHANGED rows,
           \A x \in Rows, v \in Workers : locks'[x][v] >= locks[x][v]
    PROVE  Clean' /\ \A v \in Workers : RowsKept(v)
  <1>1. locks \in [Rows -> [Workers -> 0..3]] /\ Orders \subseteq Rows /\ Stock \subseteq Rows
    BY InvParts DEF LocksOK, Rows
  <1>2. UNCHANGED <<orders, ordersW, stock, stockW>>
    BY DEF rows
  <1>3. Clean'
    <2>1. ASSUME NEW p \in Orders, \A v \in Workers : locks'[p][v] < 2 PROVE ordersW'[p] = orders'[p]
      <3>1. \A v \in Workers : locks[p][v] < 2
        BY <1>1, <2>1, QuietRow
      <3> QED
        BY <1>2, <2>1, <3>1 DEF Clean, BaseInv
    <2>2. ASSUME NEW p \in Stock, \A v \in Workers : locks'[p][v] < 2 PROVE stockW'[p] = stock'[p]
      <3>1. \A v \in Workers : locks[p][v] < 2
        BY <1>1, <2>2, QuietRow
      <3> QED
        BY <1>2, <2>2, <3>1 DEF Clean, BaseInv
    <2> QED
      BY <2>1, <2>2 DEF Clean
  <1> QED
    BY <1>2, <1>3 DEF RowsKept

LEMMA OrderRowWritten ==
    ASSUME Inv, Inv', BaseInv, NEW w \in Workers, NEW o \in Orders, NEW row,
           ordersW' = [ordersW EXCEPT ![o] = row], UNCHANGED <<orders, stock, stockW>>,
           \A x \in Rows, v \in Workers : locks'[x][v] >= locks[x][v],
           locks'[o][w] >= 2, \A v \in Workers \ {w} : locks[o][v] < 2
    PROVE  Clean' /\ \A v \in Workers \ {w} : RowsKept(v)
  <1>1. locks \in [Rows -> [Workers -> 0..3]] /\ Orders \subseteq Rows /\ Stock \subseteq Rows
    BY InvParts DEF LocksOK, Rows
  <1>0. locks'[o][w] \in 0..3
    BY <1>1, InvPartsNext DEF LocksOK
  <1>2. \A p \in Orders : p # o => ordersW'[p] = ordersW[p]
    BY InvParts DEF RowsOK
  <1>3. Clean'
    <2>1. ASSUME NEW p \in Orders, \A v \in Workers : locks'[p][v] < 2 PROVE ordersW'[p] = orders'[p]
      <3>1. \A v \in Workers : locks[p][v] < 2
        BY <1>1, <2>1, QuietRow
      <3> QED
        BY <1>0, <1>2, <2>1, <3>1 DEF Clean, BaseInv
    <2>2. ASSUME NEW p \in Stock, \A v \in Workers : locks'[p][v] < 2 PROVE stockW'[p] = stock'[p]
      <3>1. \A v \in Workers : locks[p][v] < 2
        BY <1>1, <2>2, QuietRow
      <3> QED
        BY <1>0, <1>2, <2>2, <3>1 DEF Clean, BaseInv
    <2> QED
      BY <2>1, <2>2 DEF Clean
  <1> QED
    BY <1>1, <1>2, <1>3 DEF RowsKept

LEMMA StockRowWritten ==
    ASSUME Inv, Inv', BaseInv, NEW w \in Workers, NEW s \in Stock, NEW row,
           stockW' = [stockW EXCEPT ![s] = row], UNCHANGED <<orders, stock, ordersW>>,
           \A x \in Rows, v \in Workers : locks'[x][v] >= locks[x][v],
           locks'[s][w] >= 2, \A v \in Workers \ {w} : locks[s][v] < 2
    PROVE  Clean' /\ \A v \in Workers \ {w} : RowsKept(v)
  <1>1. locks \in [Rows -> [Workers -> 0..3]] /\ Orders \subseteq Rows /\ Stock \subseteq Rows
    BY InvParts DEF LocksOK, Rows
  <1>0. locks'[s][w] \in 0..3
    BY <1>1, InvPartsNext DEF LocksOK
  <1>2. \A p \in Stock : p # s => stockW'[p] = stockW[p]
    BY InvParts DEF RowsOK
  <1>3. Clean'
    <2>1. ASSUME NEW p \in Orders, \A v \in Workers : locks'[p][v] < 2 PROVE ordersW'[p] = orders'[p]
      <3>1. \A v \in Workers : locks[p][v] < 2
        BY <1>1, <2>1, QuietRow
      <3> QED
        BY <1>0, <1>2, <2>1, <3>1 DEF Clean, BaseInv
    <2>2. ASSUME NEW p \in Stock, \A v \in Workers : locks'[p][v] < 2 PROVE stockW'[p] = stock'[p]
      <3>1. \A v \in Workers : locks[p][v] < 2
        BY <1>1, <2>2, QuietRow
      <3> QED
        BY <1>0, <1>2, <2>2, <3>1 DEF Clean, BaseInv
    <2> QED
      BY <2>1, <2>2 DEF Clean
  <1> QED
    BY <1>1, <1>2, <1>3 DEF RowsKept

(* Nobody else has locked the order a create inserts.                       *)
LEMMA NewOrderUntouched ==
    ASSUME Inv, BaseInv, NEW v \in Workers, NEW w \in Workers, v # w, tx[v].kind = "create"
    PROVE  /\ tx[v].order \in Orders /\ orders[tx[v].order] = NoRow
           /\ locks[tx[v].order][w] = 0
  <1> DEFINE o == tx[v].order
  <1>1. WorkerOK(tx[v], Held(v)) /\ WorkerOK(tx[w], Held(w))
    BY DEF BaseInv
  <1>2. tx[v].pc # "idle"
    BY <1>1 DEF WorkerOK, TxShape, KindsAt
  <1>3. o \in Orders /\ orders[o] = NoRow /\ orders[o].status = "NONE"
    BY <1>1, <1>2, InvParts DEF TxOK, Started, At, WorkerOK, OrderFacts, NoRow
  <1>4. o \in Rows /\ locks[o][w] \in 0..3 /\ Held(w)[o] = locks[o][w]
    BY <1>3, InvParts DEF LocksOK, Rows, Held
  <1>5. ASSUME locks[o][w] # 0 PROVE FALSE
    <2>1. tx[w].pc # "idle" /\ o \in {tx[w].order, tx[w].old}
      BY <1>1, <1>3, <1>4, <1>5 DEF WorkerOK, OrderLocks, Unlocked
    <2>2. o = tx[w].order \/ (o = tx[w].old /\ tx[w].order # tx[w].old)
      BY <2>1
    <2>3. tx[w].kind # "none"
      BY <1>1, <2>1 DEF WorkerOK, TxShape, KindsAt, AllKinds, SaleKinds, EndKinds
    <2>4. Replaces(tx[w]) => orders[tx[w].old].status # "NONE"
      BY <1>1, <2>1 DEF WorkerOK, OrderFacts
    <2>5. tx[w].kind # "create" => tx[w].old = tx[w].order
      BY <1>1, <2>3 DEF WorkerOK, TxShape
    <2>6. tx[w].kind = "create" => tx[w].order # o
      BY DEF BaseInv, OneCreate
    <2> QED
      BY <1>3, <2>1, <2>4, <2>5, <2>6 DEF Replaces
  <1> QED
    BY <1>3, <1>5

-----------------------------------------------------------------------------
(* One lemma per action: the working state of the transaction that acts *)

LEMMA Acting ==
    ASSUME Inv, BaseInv, NEW w \in Workers, tx[w].pc # "idle"
    PROVE  /\ tx[w] \in TxState /\ tx[w].order \in Orders /\ tx[w].old \in Orders
           /\ Orders \subseteq Rows /\ Stock \subseteq Rows /\ Orders \cap Stock = {}
           /\ Held(w) \in [Rows -> 0..3] /\ \A r \in Rows : Held(w)[r] = locks[r][w]
           /\ WorkerOK(tx[w], Held(w)) /\ tx[w].kind # "none"
  <1>1. WorkerOK(tx[w], Held(w))
    BY DEF BaseInv
  <1>2. tx[w].kind # "none"
    BY <1>1 DEF WorkerOK, TxShape, KindsAt, AllKinds, SaleKinds, EndKinds
  <1> QED
    BY <1>1, <1>2, HeldTyped, InvParts, ShapeAssumption DEF TxOK, Started, At, Rows, Held

LEMMA RowOps ==
    ASSUME NEW row \in StockRow
    PROVE  /\ Released(row, 0) = row /\ Reserved(row, 0) = row /\ Sold(row, 0) = row
           /\ \A q \in Nat : Released(row, q) \in StockRow /\ Reserved(row, q) \in StockRow
                             /\ Sold(row, q) \in StockRow
           /\ Less(row.reserved, 0) = row.reserved
  BY DEF StockRow, Released, Reserved, Sold, Less

(* A transaction without locks keeps its promises by having made none.      *)
LEMMA NoLocksOK ==
    ASSUME NEW t \in TxState, NEW l, \A r \in Rows : l[r] = 0,
           t.kind # "none" => t.order \in Orders /\ t.old \in Orders,
           TxShape(t), OrderFacts(t), t.pc \in {"diff", "save", "commit"} => t.kind = "checkout",
           t.pc = "stock" => Freeing(t) /\ Covers(t.plan, t.old, 3)
    PROVE  WorkerOK(t, l)
  <1>1. Orders \subseteq Rows /\ Stock \subseteq Rows
    BY DEF Rows
  <1>2. ~Selling(t, l)
    BY <1>1 DEF Selling, SaleKinds
  <1>3. OrderLocks(t, l)
    BY <1>1, <1>2 DEF OrderLocks
  <1>4. StockLocks(t, l)
    <2>1. t.pc # "stock" => t.plan = <<>>
      BY DEF TxShape
    <2>2. t.pc # "stock" => \A r : ~Asks(t.plan, r, 3)
      BY <2>1 DEF Asks
    <2>3. Freeing(t) => \A r \in Stock : Qty[t.old][r] > 0 => Asks(t.plan, r, 3)
      BY DEF Covers, Freeing
    <2> QED
      BY <1>1, <1>2, <2>3 DEF StockLocks, EndKinds
  <1>5. SaleWritten(t, l) /\ EndWritten(t, l) /\ StockWritten(t, l)
    BY <1>1, <1>2 DEF SaleWritten, EndWritten, StockWritten, EndKinds
  <1> QED
    BY <1>3, <1>4, <1>5 DEF WorkerOK

LEMMA IdleOK ==
    ASSUME NEW l, \A r \in Rows : l[r] = 0
    PROVE  WorkerOK(Idle, l)
  <1>1. TxShape(Idle) /\ OrderFacts(Idle)
    BY DEF TxShape, OrderFacts, Idle, KindsAt, Freeing, Replaces, EndKinds
  <1> QED
    BY <1>1, NoLocksOK, IdleTyped DEF Idle

LEMMA Unwritten ==
    ASSUME UNCHANGED rows, NEW w \in Workers, WorkerOK(tx'[w], Held(w)')
    PROVE  WorkerOK(tx[w], Held(w))'
  BY DEF rows, WorkerOK, TxShape, OrderLocks, StockLocks, OrderFacts, SaleWritten, EndWritten,
         StockWritten, Freeing, Selling, Saved, Replaces, AllFreed, MovedRow, Freed, Taken

(* The order a transaction inserts is nobody else's.                        *)
NewOrder(w, t) ==
    \/ t.kind # "create"
    \/ tx[w].kind = "create" /\ t.order = tx[w].order
    \/ \A v \in Workers \ {w} : tx[v].kind = "create" => tx[v].order # t.order

LEMMA SilentTx ==
    ASSUME Inv, Inv', BaseInv, NEW w \in Workers, NEW t, tx' = [tx EXCEPT ![w] = t],
           UNCHANGED <<rows, locks>>, WorkerOK(t, Held(w)), NewOrder(w, t)
    PROVE  BaseInv'
  <1>1. tx'[w] = t /\ \A v \in Workers \ {w} : tx'[v] = tx[v]
    BY SetTx
  <1>2. Exclusive' /\ \A v \in Workers : Held(v)' = Held(v)
    BY LocksUnchanged DEF BaseInv
  <1>3. locks \in [Rows -> [Workers -> 0..3]] /\ UNCHANGED rows /\ UNCHANGED locks
    BY InvParts DEF LocksOK
  <1>4. Clean' /\ \A v \in Workers : RowsKept(v)
    BY <1>3, SilentRows
  <1>5. WorkerOK(tx[w], Held(w))'
    BY <1>1, <1>2, <1>3, Unwritten
  <1>6. Blank'
    BY <1>3 DEF rows, Blank, BaseInv
  <1> QED
    BY <1>1, <1>2, <1>4, <1>5, <1>6, StepFrame DEF Kept, NewOrder

LEMMA SilentLock ==
    ASSUME Inv, Inv', BaseInv, NEW w \in Workers, NEW t, tx' = [tx EXCEPT ![w] = t],
           UNCHANGED rows, NEW r \in Rows, NEW m, m \in {1, 2, 3}, Lock(w, r, m),
           \A v \in Workers \ {w} : locks[r][v] + m <= 3,
           WorkerOK(t, Held(w)'), NewOrder(w, t)
    PROVE  BaseInv'
  <1>1. tx'[w] = t /\ \A v \in Workers \ {w} : tx'[v] = tx[v]
    BY SetTx
  <1>2. /\ Exclusive'
        /\ \A v \in Workers \ {w} : Held(v)' = Held(v)
        /\ \A x \in Rows, v \in Workers : locks'[x][v] >= locks[x][v]
    BY LockFacts DEF BaseInv, Free
  <1>4. Clean' /\ \A v \in Workers : RowsKept(v)
    BY <1>2, SilentRows
  <1>5. WorkerOK(tx[w], Held(w))'
    BY <1>1, <1>2, Unwritten
  <1>6. Blank'
    BY DEF rows, Blank, BaseInv
  <1> QED
    BY <1>1, <1>2, <1>4, <1>5, <1>6, StepFrame DEF Kept, NewOrder

LEMMA GivesUp ==
    ASSUME Inv, Inv', BaseInv, NEW w \in Workers, tx[w].pc \in Unlocked,
           tx' = [tx EXCEPT ![w] = Idle], UNCHANGED <<rows, locks>>
    PROVE  BaseInv'
  <1>1. \A r \in Rows : Held(w)[r] = 0
    BY DEF BaseInv, WorkerOK, OrderLocks
  <1>2. WorkerOK(Idle, Held(w))
    BY <1>1, IdleOK
  <1>3. NewOrder(w, Idle)
    BY DEF NewOrder, Idle
  <1> QED
    BY <1>2, <1>3, SilentTx

LEMMA BeginOK == ASSUME Inv, Inv', BaseInv, NEW w \in Workers, Begin(w) PROVE BaseInv'
  <1>1. PICK o \in Orders :
          \/ BeginCheckout(w, o)
          \/ /\ \/ BeginCreate(w, o) \/ BeginPay(w, o) \/ BeginManual(w, o)
                \/ BeginExpire(w, o) \/ BeginCancel(w, o) \/ BeginReopen(w, o)
             /\ UNCHANGED charges
    BY DEF Begin
  <1>2. orders[o] \in OrderRow /\ NoRow \in OrderRow
    BY InvParts, NoRowTyped DEF RowsOK
  <1>3. PICK k \in AllKinds, p \in Orders, pc \in {"insert", "fresh", "charge", "claim", "manual", "own", "reopen"},
             snap \in OrderRow :
          /\ Start(w, k, o, p, pc, snap)
          /\ k \in KindsAt(pc)
          /\ k # "create" => p = o
          /\ k = "create" => /\ orders[o].status = "NONE"
                             /\ \A v \in Workers : ~(tx[v].kind = "create" /\ tx[v].order = o)
          /\ (k = "create" => p # o) => orders[p].status # "NONE"
          /\ pc = "fresh" => (k = "create" => p # o)
          /\ pc = "charge" => snap.status = "PENDING"
    <2>1. CASE BeginCheckout(w, o)
      BY <1>2, <2>1 DEF BeginCheckout, AllKinds, KindsAt, Live
    <2>2. CASE BeginCreate(w, o)
      <3>1. CASE Start(w, "create", o, o, "insert", NoRow)
        BY <1>2, <2>2, <3>1 DEF BeginCreate, AllKinds, KindsAt
      <3>2. CASE \E p \in LivePriors(o) : Start(w, "create", o, p, "fresh", NoRow)
        BY <1>2, <2>2, <3>2 DEF BeginCreate, AllKinds, KindsAt, LivePriors, Live
      <3> QED
        BY <2>2, <3>1, <3>2 DEF BeginCreate
    <2>3. CASE BeginPay(w, o)
      BY <1>2, <2>3 DEF BeginPay, AllKinds, KindsAt
    <2>4. CASE BeginManual(w, o)
      BY <1>2, <2>4 DEF BeginManual, AllKinds, KindsAt
    <2>5. CASE BeginExpire(w, o)
      BY <1>2, <2>5 DEF BeginExpire, AllKinds, KindsAt
    <2>6. CASE BeginCancel(w, o)
      BY <1>2, <2>6 DEF BeginCancel, AllKinds, KindsAt
    <2>7. CASE BeginReopen(w, o)
      BY <1>2, <2>7 DEF BeginReopen, AllKinds, KindsAt
    <2> QED
      BY <1>1, <2>1, <2>2, <2>3, <2>4, <2>5, <2>6, <2>7
  <1> DEFINE t == [Idle EXCEPT !.pc = pc, !.kind = k, !.order = o, !.old = p, !.snap = snap]
  <1>4. /\ tx[w].pc = "idle" /\ tx' = [tx EXCEPT ![w] = t] /\ UNCHANGED <<rows, locks>>
    BY <1>3 DEF Start
  <1>5. /\ t \in TxState /\ t.pc = pc /\ t.kind = k /\ t.order = o /\ t.old = p /\ t.snap = snap
        /\ t.plan = <<>>
    <2>1. Idle \in TxState /\ Idle.plan = <<>>
      BY IdleTyped DEF Idle
    <2>2. pc \in Pc
      BY DEF Pc
    <2> QED
      BY <2>1, <2>2 DEF TxState
  <1> HIDE DEF t
  <1>6. TxShape(t)
    BY <1>3, <1>5 DEF TxShape, Replaces, Freeing, KindsAt
  <1>7. OrderFacts(t)
    BY <1>3, <1>5 DEF OrderFacts, Replaces, BaseInv, Blank
  <1>8. \A r \in Rows : Held(w)[r] = 0
    BY <1>4 DEF BaseInv, WorkerOK, OrderLocks, Unlocked
  <1>9. WorkerOK(t, Held(w))
    BY <1>5, <1>6, <1>7, <1>8, NoLocksOK
  <1>10. NewOrder(w, t)
    BY <1>3, <1>5 DEF NewOrder
  <1> QED
    BY <1>4, <1>9, <1>10, SilentTx

LEMMA ReadFreshOK == ASSUME Inv, Inv', BaseInv, NEW w \in Workers, ReadFresh(w) PROVE BaseInv'
  <1> DEFINE old == tx[w].old
  <1>0. tx[w].pc = "fresh"
    BY DEF ReadFresh, At
  <1>1. /\ tx[w] \in TxState /\ tx[w].order \in Orders /\ old \in Orders
        /\ WorkerOK(tx[w], Held(w)) /\ \A r \in Rows : Held(w)[r] = 0
        /\ orders[old] \in OrderRow
    BY <1>0, Acting, InvParts DEF WorkerOK, OrderLocks, Unlocked, RowsOK
  <1>2. tx[w].kind \in {"create", "expire"} /\ UNCHANGED <<rows, locks>> /\ tx[w].plan = <<>>
    BY <1>0, <1>1 DEF WorkerOK, TxShape, KindsAt, ReadFresh
  <1>3. CASE StillPending(old)
    <2>1. PICK plan \in ReleasePlans(old) :
            tx' = [tx EXCEPT ![w].pc = "stock", ![w].snap = orders[old], ![w].plan = plan]
      BY <1>3 DEF ReadFresh
    <2> DEFINE t == [tx[w] EXCEPT !.pc = "stock", !.snap = orders[old], !.plan = plan]
    <2>2. PlanOK(plan) /\ Covers(plan, old, 3) /\ ReleaseOnly(plan) /\ plan \in Seq(Statement)
      BY <1>1, ReleasePlanFacts DEF PlanOK
    <2>3. /\ tx' = [tx EXCEPT ![w] = t] /\ t \in TxState
          /\ t.pc = "stock" /\ t.kind = tx[w].kind /\ t.order = tx[w].order /\ t.old = old
          /\ t.plan = plan
      BY <1>1, <2>1, <2>2, InvParts DEF TxOK, TxState, Pc
    <2>4. Head(plan).mode = 3
      BY <2>2, TailFacts
    <2> HIDE DEF t
    <2>5. TxShape(t)
      BY <1>0, <1>1, <1>2, <2>2, <2>3, <2>4 DEF WorkerOK, TxShape, KindsAt, Freeing, Replaces, SaleKinds, EndKinds
    <2>6. OrderFacts(t)
      BY <1>0, <1>1, <2>3 DEF WorkerOK, OrderFacts, Replaces
    <2>7. WorkerOK(t, Held(w))
      BY <1>1, <2>2, <2>3, <2>4, <2>5, <2>6, NoLocksOK DEF Freeing
    <2>8. NewOrder(w, t)
      BY <2>3 DEF NewOrder
    <2> QED
      BY <1>2, <2>3, <2>7, <2>8, SilentTx
  <1>4. CASE ~StillPending(old) /\ tx[w].kind = "create"
    <2> DEFINE t == [tx[w] EXCEPT !.pc = "insert"]
    <2>1. /\ tx' = [tx EXCEPT ![w] = t] /\ t \in TxState
          /\ t.pc = "insert" /\ t.kind = "create" /\ t.order = tx[w].order /\ t.old = old
          /\ t.plan = <<>>
      BY <1>1, <1>2, <1>4, InvParts DEF ReadFresh, Goto, TxOK, TxState, Pc
    <2> HIDE DEF t
    <2>2. TxShape(t)
      BY <2>1 DEF TxShape, KindsAt, Freeing
    <2>3. OrderFacts(t)
      BY <1>0, <1>1, <1>4, <2>1 DEF WorkerOK, OrderFacts, Replaces
    <2>4. WorkerOK(t, Held(w))
      BY <1>1, <2>1, <2>2, <2>3, NoLocksOK
    <2>5. NewOrder(w, t)
      BY <1>4, <2>1 DEF NewOrder
    <2> QED
      BY <1>2, <2>1, <2>4, <2>5, SilentTx
  <1>5. CASE ~StillPending(old) /\ tx[w].kind # "create"
    BY <1>0, <1>2, <1>5, GivesUp DEF ReadFresh, Unlocked
  <1> QED
    BY <1>3, <1>4, <1>5

LEMMA ChargeCreatedOK == ASSUME Inv, Inv', BaseInv, NEW w \in Workers, ChargeCreated(w) PROVE BaseInv'
  <1>0. tx[w].pc = "charge"
    BY DEF ChargeCreated, At
  <1>1. /\ tx[w] \in TxState /\ tx[w].order \in Orders /\ tx[w].old \in Orders
        /\ WorkerOK(tx[w], Held(w)) /\ \A r \in Rows : Held(w)[r] = 0
    BY <1>0, Acting DEF WorkerOK, OrderLocks, Unlocked
  <1>2. PICK c \in Providers : tx' = [tx EXCEPT ![w].pc = "diff", ![w].snap.charge = c]
    BY DEF ChargeCreated
  <1>3. /\ tx[w].kind = "checkout" /\ tx[w].plan = <<>> /\ tx[w].snap.status = "PENDING"
        /\ UNCHANGED <<rows, locks>> /\ c \in Charge
    BY <1>0, <1>1, SizesAssumption DEF WorkerOK, TxShape, KindsAt, ChargeCreated, Charge
  <1> DEFINE t == [tx[w] EXCEPT !.pc = "diff", !.snap = [tx[w].snap EXCEPT !.charge = c]]
  <1>4. /\ tx' = [tx EXCEPT ![w] = t] /\ t \in TxState
        /\ t.pc = "diff" /\ t.kind = "checkout" /\ t.order = tx[w].order /\ t.old = tx[w].old
        /\ t.plan = <<>> /\ t.snap.status = "PENDING"
    BY <1>1, <1>2, <1>3, InvParts DEF TxOK, TxState, Pc, OrderRow
  <1> HIDE DEF t
  <1>5. TxShape(t)
    BY <1>0, <1>1, <1>3, <1>4 DEF WorkerOK, TxShape, KindsAt, Freeing, Replaces, EndKinds
  <1>6. OrderFacts(t)
    BY <1>0, <1>1, <1>3, <1>4 DEF WorkerOK, OrderFacts, Replaces
  <1>7. WorkerOK(t, Held(w))
    BY <1>1, <1>4, <1>5, <1>6, NoLocksOK
  <1>8. NewOrder(w, t)
    BY <1>4 DEF NewOrder
  <1> QED
    BY <1>3, <1>4, <1>7, <1>8, SilentTx

-----------------------------------------------------------------------------
LEMMA LockOrderOK == ASSUME Inv, Inv', BaseInv, NEW w \in Workers, LockOrder(w) PROVE BaseInv'
  <1> DEFINE o == tx[w].order
  <1>0. tx[w].pc = "own"
    BY DEF LockOrder, At
  <1>1. /\ tx[w] \in TxState /\ o \in Orders /\ o \in Rows /\ tx[w].old \in Orders
        /\ WorkerOK(tx[w], Held(w)) /\ \A r \in Rows : Held(w)[r] = 0
        /\ Held(w) \in [Rows -> 0..3] /\ \A r \in Rows : Held(w)[r] = locks[r][w]
        /\ orders[o] \in OrderRow /\ Orders \subseteq Rows /\ Stock \subseteq Rows /\ Orders \cap Stock = {}
    BY <1>0, Acting, InvParts DEF WorkerOK, OrderLocks, Unlocked, RowsOK
  <1>2. tx[w].kind = "cancel" /\ tx[w].old = o /\ UNCHANGED rows
    BY <1>0, <1>1 DEF WorkerOK, TxShape, KindsAt, LockOrder
  <1>3. CASE orders[o].status = "PENDING"
    <2>1. PICK plan \in ReleasePlans(o) :
            tx' = [tx EXCEPT ![w].pc = "stock", ![w].snap = orders[o], ![w].plan = plan]
      BY <1>3 DEF LockOrder
    <2> DEFINE t == [tx[w] EXCEPT !.pc = "stock", !.snap = orders[o], !.plan = plan]
               l == Held(w)'
    <2>2. PlanOK(plan) /\ Covers(plan, o, 3) /\ ReleaseOnly(plan) /\ plan \in Seq(Statement)
      BY <1>1, ReleasePlanFacts DEF PlanOK
    <2>3. /\ tx' = [tx EXCEPT ![w] = t] /\ t \in TxState
          /\ t.pc = "stock" /\ t.kind = "cancel" /\ t.order = o /\ t.old = o /\ t.plan = plan
      BY <1>1, <1>2, <2>1, <2>2, InvParts DEF TxOK, TxState, Pc
    <2>4. Head(plan).mode = 3
      BY <2>2, TailFacts
    <2>6. Lock(w, o, 3) /\ Free(w, o, 3)
      BY <1>3 DEF LockOrder
    <2>5. \A r \in Rows : l[r] = IF r = o THEN 3 ELSE 0
      BY <1>1, <2>6, LockFacts DEF Free, BaseInv, Stronger
    <2>7. ordersW[o] = orders[o]
      BY <1>1, <2>6, CleanRow, InvParts DEF Free, BaseInv, LocksOK
    <2> HIDE DEF t, l
    <2>8. TxShape(t)
      BY <2>2, <2>3, <2>4 DEF TxShape, KindsAt, Freeing, Replaces, SaleKinds, EndKinds
    <2>9. OrderFacts(t)
      BY <1>3, <2>3 DEF OrderFacts, Replaces
    <2>10. OrderLocks(t, l)
      BY <2>3, <2>4, <2>5, <1>1 DEF OrderLocks, Unlocked, Freeing, Selling, SaleKinds
    <2>11. StockLocks(t, l)
      <3>1. \A r \in Stock : l[r] = 0
        BY <1>1, <2>5
      <3>2. \A r \in Stock : Qty[o][r] > 0 => Asks(plan, r, 3)
        BY <2>2 DEF Covers
      <3> QED
        BY <2>3, <3>1, <3>2 DEF StockLocks, Selling, SaleKinds, EndKinds
    <2>12. SaleWritten(t, l) /\ EndWritten(t, l) /\ StockWritten(t, l)
      <3>1. \A r \in Stock : l[r] = 0
        BY <1>1, <2>5
      <3>2. ~Saved(t)
        BY <2>3, <2>4 DEF Saved, Freeing
      <3> QED
        BY <2>3, <2>7, <3>1, <3>2 DEF SaleWritten, EndWritten, StockWritten, Selling, SaleKinds, Replaces
    <2>13. NewOrder(w, t)
      BY <2>3 DEF NewOrder
    <2>14. WorkerOK(t, l)
      BY <2>8, <2>9, <2>10, <2>11, <2>12 DEF WorkerOK
    <2> QED
      BY <1>1, <1>2, <2>3, <2>6, <2>13, <2>14, SilentLock DEF l, Free
  <1>4. CASE orders[o].status # "PENDING"
    BY <1>0, <1>2, <1>4, GivesUp DEF LockOrder, Unlocked
  <1> QED
    BY <1>3, <1>4

LEMMA InsertManualOK == ASSUME Inv, Inv', BaseInv, NEW w \in Workers, InsertManual(w) PROVE BaseInv'
  <1> DEFINE o == tx[w].order
             seen == tx[w].snap.status
             next == IF seen = "PAID" THEN "commit" ELSE "claim"
  <1>0. tx[w].pc = "manual"
    BY DEF InsertManual, At
  <1>1. /\ tx[w] \in TxState /\ o \in Orders /\ o \in Rows /\ tx[w].old \in Orders
        /\ WorkerOK(tx[w], Held(w)) /\ \A r \in Rows : Held(w)[r] = 0
        /\ Held(w) \in [Rows -> 0..3]
        /\ Orders \subseteq Rows /\ Stock \subseteq Rows /\ Orders \cap Stock = {}
    BY <1>0, Acting DEF WorkerOK, OrderLocks, Unlocked
  <1>2. tx[w].kind = "manual" /\ tx[w].plan = <<>> /\ UNCHANGED rows
    BY <1>0, <1>1 DEF WorkerOK, TxShape, KindsAt, InsertManual
  <1>3. CASE o \in manual \/ seen \notin {"PENDING", "PAID"}
    BY <1>0, <1>2, <1>3, GivesUp DEF InsertManual, Unlocked
  <1>4. CASE ~(o \in manual \/ seen \notin {"PENDING", "PAID"})
    <2> DEFINE t == [tx[w] EXCEPT !.pc = next]
               l == Held(w)'
    <2>1. Lock(w, o, 1) /\ Free(w, o, 1) /\ Goto(w, next)
      BY <1>4 DEF InsertManual
    <2>2. next \in {"commit", "claim"} /\ next \in Pc
      BY DEF Pc
    <2> HIDE DEF next
    <2>3. /\ tx' = [tx EXCEPT ![w] = t] /\ t \in TxState
          /\ t.pc \in {"commit", "claim"} /\ t.kind = "manual" /\ t.order = o
          /\ t.old = tx[w].old /\ t.plan = <<>>
      BY <1>1, <1>2, <2>1, <2>2, InvParts DEF Goto, TxOK, TxState
    <2>4. \A r \in Rows : l[r] = IF r = o THEN 1 ELSE 0
      BY <1>1, <2>1, LockFacts DEF Free, BaseInv, Stronger
    <2> HIDE DEF t, l
    <2>5. t.old = t.order /\ orders[t.old].status # "NONE"
      BY <1>0, <1>1, <1>2, <2>3 DEF WorkerOK, TxShape, OrderFacts, Replaces
    <2>6. TxShape(t) /\ OrderFacts(t)
      BY <2>3, <2>5 DEF TxShape, KindsAt, Freeing, Replaces, OrderFacts, EndKinds, AllKinds
    <2>7. OrderLocks(t, l)
      BY <2>3, <2>4, <1>1 DEF OrderLocks, Unlocked, Freeing, Selling
    <2>8. StockLocks(t, l)
      <3>1. \A r \in Stock : l[r] = 0
        BY <1>1, <2>4
      <3> QED
        BY <1>1, <2>3, <2>4, <3>1 DEF StockLocks, Selling, EndKinds, Freeing, Asks
    <2>9. SaleWritten(t, l) /\ EndWritten(t, l) /\ StockWritten(t, l)
      <3>1. \A r \in Stock : l[r] = 0
        BY <1>1, <2>4
      <3> QED
        BY <1>1, <2>3, <2>4, <3>1 DEF SaleWritten, EndWritten, StockWritten, Selling, EndKinds
    <2>10. NewOrder(w, t)
      BY <2>3 DEF NewOrder
    <2>11. WorkerOK(t, l)
      BY <2>6, <2>7, <2>8, <2>9 DEF WorkerOK
    <2> QED
      BY <1>1, <1>2, <2>1, <2>3, <2>10, <2>11, SilentLock DEF l, Free
  <1> QED
    BY <1>3, <1>4

(* Locks and rows as they are, one step further on.                         *)
LEMMA MovesOn ==
    ASSUME Inv, Inv', BaseInv, NEW w \in Workers, tx[w].pc # "idle", NEW t \in TxState,
           tx' = [tx EXCEPT ![w] = t], UNCHANGED <<rows, locks>>,
           t.kind = tx[w].kind, t.order = tx[w].order, t.old = tx[w].old, t.plan = tx[w].plan,
           TxShape(t), t.pc \notin Unlocked, t.pc # "stock", tx[w].pc # "stock",
           ~Selling(tx[w], Held(w)), t.kind = "create" => t.pc # "commit",
           t.kind \in EndKinds /\ t.pc \in {"diff", "save", "commit"} => AllFreed(tx[w], Held(w)),
           Saved(tx[w]) => Saved(t)
    PROVE  BaseInv'
  <1> DEFINE l == Held(w)
  <1>1. WorkerOK(tx[w], l)
    BY DEF BaseInv
  <1>2. ~Selling(t, l) /\ (AllFreed(tx[w], l) <=> AllFreed(t, l))
    BY DEF Selling, AllFreed
  <1>3. OrderLocks(t, l)
    BY <1>1, <1>2 DEF WorkerOK, OrderLocks, Freeing
  <1>4. StockLocks(t, l)
    <2>1. t.plan = <<>>
      BY DEF TxShape
    <2> QED
      BY <1>1, <1>2, <2>1 DEF WorkerOK, StockLocks, Freeing, Asks, EndKinds
  <1>5. OrderFacts(t)
    BY <1>1 DEF WorkerOK, OrderFacts, Replaces
  <1>6. SaleWritten(t, l)
    BY <1>2 DEF SaleWritten
  <1>7. EndWritten(t, l)
    BY <1>1, <1>2 DEF WorkerOK, EndWritten, Replaces
  <1>8. StockWritten(t, l)
    BY <1>1, <1>2 DEF WorkerOK, StockWritten, MovedRow, Taken, Freed
  <1>9. NewOrder(w, t)
    BY DEF NewOrder
  <1>10. WorkerOK(t, l)
    BY <1>3, <1>4, <1>5, <1>6, <1>7, <1>8 DEF WorkerOK
  <1> QED
    BY <1>9, <1>10, SilentTx

LEMMA LosesClaim == ASSUME Inv, Inv', BaseInv, NEW w \in Workers, LoseClaim(w), ~Abort(w) PROVE BaseInv'
  <1>0. tx[w].pc = "claim"
    BY DEF LoseClaim, At
  <1>1. tx[w] \in TxState /\ WorkerOK(tx[w], Held(w)) /\ tx[w].old \in Orders
    BY <1>0, Acting
  <1>2. /\ tx' = [tx EXCEPT ![w].pc = "commit", ![w].snap = NoRow]
        /\ UNCHANGED <<rows, locks>>
    BY DEF LoseClaim
  <1> DEFINE t == [tx[w] EXCEPT !.pc = "commit", !.snap = NoRow]
  <1>3. /\ tx' = [tx EXCEPT ![w] = t] /\ t \in TxState
        /\ t.pc = "commit" /\ t.kind = tx[w].kind /\ t.order = tx[w].order /\ t.old = tx[w].old
        /\ t.plan = tx[w].plan
    BY <1>1, <1>2, NoRowTyped, InvParts DEF TxOK, TxState, Pc
  <1>4. tx[w].kind \in {"pay", "manual"} /\ tx[w].plan = <<>> /\ tx[w].old = tx[w].order
    BY <1>0, <1>1 DEF WorkerOK, TxShape, KindsAt
  <1> HIDE DEF t
  <1>5. TxShape(t)
    BY <1>3, <1>4 DEF TxShape, KindsAt, Freeing, Replaces, EndKinds, AllKinds
  <1>6. ~Selling(tx[w], Held(w))
    BY <1>0, <1>1 DEF WorkerOK, OrderLocks
  <1>7. ~Saved(tx[w])
    BY <1>0 DEF Saved
  <1> QED
    BY <1>0, <1>2, <1>3, <1>4, <1>5, <1>6, <1>7, MovesOn DEF Unlocked, EndKinds

LEMMA SaveSelectOK == ASSUME Inv, Inv', BaseInv, NEW w \in Workers, SaveSelect(w) PROVE BaseInv'
  <1> DEFINE goal == Goal(tx[w])
             dirty == {f \in {"status", "charge"} : goal[f] # orders[tx[w].old][f]}
             t == [tx[w] EXCEPT !.pc = "save", !.snap = goal, !.dirty = dirty]
  <1>0. tx[w].pc = "diff"
    BY DEF SaveSelect, At
  <1>1. tx[w] \in TxState /\ WorkerOK(tx[w], Held(w)) /\ tx[w].snap \in OrderRow
    BY <1>0, Acting DEF TxState
  <1>2. /\ tx' = [tx EXCEPT ![w].pc = "save", ![w].snap = goal, ![w].dirty = dirty]
        /\ UNCHANGED <<rows, locks>>
    BY DEF SaveSelect
  <1>3. /\ tx[w].kind \in EndKinds \cup {"checkout"} /\ tx[w].plan = <<>>
        /\ tx[w].kind = "checkout" => tx[w].snap.status = "PENDING"
    BY <1>0, <1>1 DEF WorkerOK, TxShape, KindsAt
  <1>4. /\ goal \in OrderRow
        /\ tx[w].kind = "checkout" => goal.status = "PENDING"
        /\ tx[w].kind \in EndKinds => goal.status \in Ends
    BY <1>1, <1>3 DEF Goal, OrderRow, Status, EndKinds, Ends
  <1>5. dirty \in SUBSET {"status", "charge"}
    OBVIOUS
  <1> HIDE DEF goal, dirty
  <1>6. /\ tx' = [tx EXCEPT ![w] = t] /\ t \in TxState
        /\ t.pc = "save" /\ t.kind = tx[w].kind /\ t.order = tx[w].order /\ t.old = tx[w].old
        /\ t.plan = tx[w].plan /\ t.snap = goal
    BY <1>1, <1>2, <1>4, <1>5, InvParts DEF TxOK, TxState, Pc
  <1> HIDE DEF t
  <1>7. TxShape(t)
    BY <1>0, <1>1, <1>3, <1>4, <1>6 DEF WorkerOK, TxShape, KindsAt, Freeing, Replaces
  <1>8. ~Selling(tx[w], Held(w))
    BY <1>0, <1>1 DEF WorkerOK, OrderLocks
  <1>9. ~Saved(tx[w])
    BY <1>0 DEF Saved
  <1>10. tx[w].kind \in EndKinds => AllFreed(tx[w], Held(w))
    BY <1>0, <1>1 DEF WorkerOK, StockLocks
  <1> QED
    BY <1>0, <1>2, <1>3, <1>6, <1>7, <1>8, <1>9, <1>10, MovesOn DEF Unlocked

-----------------------------------------------------------------------------
(* An UPDATE or INSERT of an order row by a transaction that may write it.  *)
LEMMA WroteOrder ==
    ASSUME Inv, Inv', BaseInv, NEW w \in Workers, NEW t, tx' = [tx EXCEPT ![w] = t],
           UNCHANGED <<orders, stock, stockW>>, NEW o \in Orders, NEW row,
           ordersW' = [ordersW EXCEPT ![o] = row], Lock(w, o, 2),
           \A v \in Workers \ {w} : locks[o][v] + 2 <= 3,
           NEW l, l = Held(w)',
           TxShape(t), OrderLocks(t, l), StockLocks(t, l), OrderFacts(t), StockWritten(t, l),
           SaleWritten(tx[w], Held(w))', EndWritten(tx[w], Held(w))', NewOrder(w, t)
    PROVE  BaseInv'
  <1>0. o \in Rows /\ \A v \in Workers : locks[o][v] \in 0..3
    BY InvParts DEF Rows, LocksOK
  <1>1. tx'[w] = t /\ \A v \in Workers \ {w} : tx'[v] = tx[v]
    BY SetTx
  <1>2. /\ Exclusive'
        /\ \A v \in Workers \ {w} : Held(v)' = Held(v)
        /\ \A x \in Rows, v \in Workers : locks'[x][v] >= locks[x][v]
        /\ locks'[o][w] >= 2
    BY <1>0, LockFacts DEF BaseInv
  <1>3. \A v \in Workers \ {w} : locks[o][v] < 2
    BY <1>0
  <1>4. Clean' /\ \A v \in Workers \ {w} : RowsKept(v)
    BY <1>2, <1>3, OrderRowWritten
  <1>5. TxShape(tx[w])' /\ OrderLocks(tx[w], Held(w))' /\ StockLocks(tx[w], Held(w))'
    BY <1>1 DEF TxShape, OrderLocks, StockLocks, Selling, AllFreed, Replaces, Freeing
  <1>6. OrderFacts(tx[w])' /\ StockWritten(tx[w], Held(w))'
    BY <1>1 DEF OrderFacts, StockWritten, Replaces, MovedRow, Taken, Freed, Selling
  <1>7. WorkerOK(tx[w], Held(w))'
    BY <1>5, <1>6 DEF WorkerOK
  <1>8. Blank'
    BY DEF Blank, BaseInv
  <1> QED
    BY <1>1, <1>2, <1>4, <1>7, <1>8, StepFrame DEF Kept, NewOrder

LEMMA ClaimOK == ASSUME Inv, Inv', BaseInv, NEW w \in Workers, Claim(w) PROVE BaseInv'
  <1> DEFINE o == tx[w].order
             l == Held(w)
             m == Held(w)'
  <1>0. tx[w].pc = "claim"
    BY DEF Claim, At
  <1>1. /\ tx[w] \in TxState /\ o \in Orders /\ o \in Rows /\ tx[w].old \in Orders
        /\ WorkerOK(tx[w], l) /\ l \in [Rows -> 0..3] /\ \A r \in Rows : l[r] = locks[r][w]
        /\ Orders \subseteq Rows /\ Stock \subseteq Rows /\ Orders \cap Stock = {}
        /\ ordersW[o] \in OrderRow
    BY <1>0, Acting, InvParts DEF RowsOK
  <1>2. tx[w].kind \in {"pay", "manual"} /\ tx[w].old = o /\ tx[w].plan = <<>>
    BY <1>0, <1>1 DEF WorkerOK, TxShape, KindsAt
  <1>3. ~Selling(tx[w], l) /\ l[o] < 2 /\ locks[o][w] < 2
    BY <1>0, <1>1, <1>2 DEF WorkerOK, OrderLocks, Selling, SaleKinds
  <1>4. Lock(w, o, 2) /\ \A v \in Workers \ {w} : locks[o][v] + 2 <= 3
    BY DEF Claim, Free
  <1>5. \A r \in Rows : m[r] = IF r = o THEN 2 ELSE l[r]
    BY <1>1, <1>3, <1>4, LockFacts DEF BaseInv, Stronger
  <1>6. ordersW[o] = orders[o] /\ orders[o].status = "PENDING"
    BY <1>1, <1>3, <1>4, CleanRow DEF BaseInv, Claim, Payable
  <1>7. PICK row \in OrderRow :
          /\ ordersW' = [ordersW EXCEPT ![o] = row]
          /\ row.status = "PAID" /\ row.issued = orders[o].issued + 1
    <2> DEFINE new == [ordersW[o] EXCEPT !.status = "PAID", !.issued = @ + 1,
                         !.charge = IF tx[w].snap.charge = "none" THEN "manual" ELSE tx[w].snap.charge]
    <2>0. o \in Orders /\ ordersW[o] \in OrderRow /\ ordersW \in [Orders -> OrderRow]
      BY <1>1, InvParts DEF RowsOK
    <2>1. ordersW' = [ordersW EXCEPT ![o] = new]
      BY <2>0 DEF Claim, OrderRow
    <2>2. new \in OrderRow /\ new.status = "PAID" /\ new.issued = orders[o].issued + 1
      <3> DEFINE row == ordersW[o]
                 i == row.issued + 1
                 v == row.revived
      <3>1. tx[w].snap.charge \in Charge
        BY <1>1 DEF TxState, OrderRow
      <3>2. PICK ch \in Charge : new = [row EXCEPT !.status = "PAID", !.issued = i, !.charge = ch]
        BY <3>1 DEF Charge
      <3>3. row \in OrderRow /\ i \in Nat /\ v \in Nat /\ "PAID" \in Status
        BY <2>0 DEF OrderRow, Status
      <3>4. new = RowWith(row, "PAID", ch, i, v)
        BY <3>2, <3>3 DEF OrderRow, RowWith
      <3> HIDE DEF new, row, i, v
      <3>5. new \in OrderRow /\ new.status = "PAID" /\ new.issued = i
        BY <3>3, <3>4, RowSet
      <3> QED
        BY <1>6, <3>5 DEF i, row
    <2> QED
      BY <2>1, <2>2
  <1>8. PICK plan \in UpdatePlans(o) :
          tx' = [tx EXCEPT ![w].pc = "stock", ![w].snap = NoRow, ![w].plan = plan]
    BY DEF Claim
  <1>9. /\ PlanOK(plan) /\ Covers(plan, o, 2) /\ \A i \in 1..Len(plan) : plan[i].mode = 2
        /\ plan \in Seq(Statement)
    BY <1>1, UpdatePlanFacts DEF PlanOK
  <1>10. Head(plan).mode # 3 /\ \A r : ~Asks(plan, r, 3)
    <2>1. Head(plan) = plan[1] /\ 1 \in 1..Len(plan)
      BY <1>9 DEF PlanOK
    <2> QED
      BY <1>9, <2>1 DEF Asks
  <1> DEFINE t == [tx[w] EXCEPT !.pc = "stock", !.snap = NoRow, !.plan = plan]
  <1>11. /\ tx' = [tx EXCEPT ![w] = t] /\ t \in TxState
         /\ t.pc = "stock" /\ t.kind = tx[w].kind /\ t.order = o /\ t.old = o /\ t.plan = plan
    BY <1>1, <1>2, <1>8, <1>9, NoRowTyped, InvParts DEF TxOK, TxState, Pc
  <1>12. tx'[w] = t
    BY <1>11, SetTx
  <1> HIDE DEF t, m
  <1>13. Selling(t, m) /\ ~Freeing(t)
    BY <1>1, <1>2, <1>5, <1>10, <1>11 DEF Selling, SaleKinds, Freeing
  <1>14. TxShape(t)
    BY <1>2, <1>9, <1>11, <1>13 DEF TxShape, KindsAt, SaleKinds, Replaces, Freeing, EndKinds
  <1>15. OrderLocks(t, m)
    BY <1>1, <1>2, <1>5, <1>11, <1>13 DEF WorkerOK, OrderLocks, Unlocked
  <1>16. StockLocks(t, m)
    <2>1. \A r \in Stock : m[r] = l[r] /\ l[r] # 3
      BY <1>1, <1>2, <1>5 DEF WorkerOK, StockLocks, EndKinds
    <2>2. \A r \in Stock : Qty[o][r] > 0 => Asks(plan, r, 2)
      BY <1>9 DEF Covers
    <2> QED
      BY <1>2, <1>10, <1>11, <1>13, <2>1, <2>2 DEF StockLocks, EndKinds
  <1>17. OrderFacts(t)
    BY <1>2, <1>6, <1>11 DEF OrderFacts, Replaces
  <1>18. StockWritten(t, m)
    <2> SUFFICES ASSUME NEW r \in Stock, m[r] >= 2 PROVE stockW[r] = MovedRow(t, m, r, stock[r])
      BY DEF StockWritten
    <2>1. m[r] = l[r] /\ Qty[o][r] \in Nat /\ stock[r] \in StockRow
      BY <1>1, <1>5, InvParts, ShapeAssumption DEF RowsOK
    <2>2. stockW[r] = MovedRow(tx[w], l, r, stock[r])
      BY <1>1, <2>1 DEF WorkerOK, StockWritten
    <2>3. Taken(tx[w], l, r) = 0
      BY <1>3 DEF Taken
    <2>4. Taken(t, m, r) = 0
      BY <1>9, <1>11, <2>1 DEF Taken, Covers
    <2> QED
      BY <1>2, <1>11, <2>2, <2>3, <2>4 DEF MovedRow
  <1>19. SaleWritten(tx[w], Held(w))'
    <2>1. ordersW'[o] = row /\ orders' = orders
      BY <1>1, <1>7, InvParts DEF RowsOK, Claim
    <2> QED
      BY <1>2, <1>6, <1>7, <1>11, <1>12, <2>1 DEF SaleWritten
  <1>20. EndWritten(tx[w], Held(w))'
    BY <1>2, <1>11, <1>12 DEF EndWritten, EndKinds
  <1>21. NewOrder(w, t)
    BY <1>2, <1>11 DEF NewOrder
  <1>22. UNCHANGED <<orders, stock, stockW>> /\ m = Held(w)'
    BY DEF Claim, m
  <1> QED
    BY <1>1, <1>4, <1>7, <1>11, <1>14, <1>15, <1>16, <1>17, <1>18, <1>19, <1>20, <1>21, <1>22, WroteOrder

LEMMA InsertsOK ==
    ASSUME Inv, Inv', BaseInv, NEW w \in Workers, Insert(w), ~Abort(w) PROVE BaseInv'
  <1> DEFINE o == tx[w].order
             l == Held(w)
             m == Held(w)'
  <1>0. tx[w].pc = "insert"
    BY DEF Insert, At
  <1>1. /\ tx[w] \in TxState /\ o \in Orders /\ o \in Rows /\ tx[w].old \in Orders
        /\ WorkerOK(tx[w], l) /\ l \in [Rows -> 0..3] /\ \A r \in Rows : l[r] = locks[r][w]
        /\ Orders \subseteq Rows /\ Stock \subseteq Rows /\ Orders \cap Stock = {}
    BY <1>0, Acting
  <1>2. tx[w].kind = "create" /\ tx[w].plan = <<>>
    BY <1>0, <1>1 DEF WorkerOK, TxShape, KindsAt
  <1>3. ~Selling(tx[w], l) /\ l[o] < 2
    BY <1>0, <1>1, <1>2 DEF WorkerOK, OrderLocks, Selling, SaleKinds
  <1>4. /\ Lock(w, o, 2) /\ ordersW' = [ordersW EXCEPT ![o] = NewRow]
        /\ UNCHANGED <<orders, stock, stockW>>
    BY DEF Insert
  <1>5. \A v \in Workers \ {w} : locks[o][v] + 2 <= 3
    BY <1>2, NewOrderUntouched
  <1>6. \A r \in Rows : m[r] = IF r = o THEN 2 ELSE l[r]
    BY <1>1, <1>3, <1>4, <1>5, LockFacts DEF BaseInv, Stronger
  <1>7. PICK fk \in ForeignKeyPlans(o), upd \in UpdatePlans(o) :
          tx' = [tx EXCEPT ![w].pc = "stock", ![w].plan = fk \o upd]
    BY DEF Insert
  <1> DEFINE plan == fk \o upd
  <1>8. /\ PlanOK(plan) /\ Covers(plan, o, 2) /\ SaleOnly(plan) /\ plan \in Seq(Statement)
    BY <1>1, InsertPlanFacts DEF PlanOK
  <1> HIDE DEF plan
  <1>9. Head(plan).mode # 3 /\ \A r : ~Asks(plan, r, 3)
    <2>1. Head(plan) = plan[1] /\ 1 \in 1..Len(plan)
      BY <1>8 DEF PlanOK
    <2> QED
      BY <1>8, <2>1 DEF Asks, SaleOnly
  <1> DEFINE t == [tx[w] EXCEPT !.pc = "stock", !.plan = plan]
  <1>10. /\ tx' = [tx EXCEPT ![w] = t] /\ t \in TxState
         /\ t.pc = "stock" /\ t.kind = "create" /\ t.order = o /\ t.old = tx[w].old /\ t.plan = plan
    BY <1>1, <1>2, <1>7, <1>8, InvParts DEF TxOK, TxState, Pc, plan
  <1>11. tx'[w] = t
    BY <1>10, SetTx
  <1> HIDE DEF t, m
  <1>12. Selling(t, m) /\ ~Freeing(t)
    BY <1>1, <1>2, <1>6, <1>9, <1>10 DEF Selling, SaleKinds, Freeing
  <1>13. TxShape(t)
    BY <1>2, <1>8, <1>10, <1>12 DEF TxShape, KindsAt, SaleKinds, Freeing
  <1>14. OrderLocks(t, m)
    BY <1>1, <1>2, <1>6, <1>10, <1>12 DEF WorkerOK, OrderLocks, Unlocked
  <1>15. StockLocks(t, m)
    <2>1. \A r \in Stock : m[r] = l[r]
      BY <1>1, <1>6
    <2>2. \A r \in Stock : Qty[o][r] > 0 => Asks(plan, r, 2)
      BY <1>8 DEF Covers
    <2> QED
      BY <1>9, <1>10, <1>12, <2>1, <2>2 DEF StockLocks, EndKinds
  <1>16. OrderFacts(t)
    BY <1>0, <1>1, <1>2, <1>10 DEF WorkerOK, OrderFacts, Replaces
  <1>17. StockWritten(t, m)
    <2> SUFFICES ASSUME NEW r \in Stock, m[r] >= 2 PROVE stockW[r] = MovedRow(t, m, r, stock[r])
      BY DEF StockWritten
    <2>1. m[r] = l[r] /\ Qty[o][r] \in Nat /\ stock[r] \in StockRow
      BY <1>1, <1>6, InvParts, ShapeAssumption DEF RowsOK
    <2>2. stockW[r] = MovedRow(tx[w], l, r, stock[r])
      BY <1>1, <2>1 DEF WorkerOK, StockWritten
    <2>3. Taken(tx[w], l, r) = 0
      BY <1>3 DEF Taken
    <2>4. Taken(t, m, r) = 0
      BY <1>8, <1>10, <2>1 DEF Taken, Covers
    <2>5. Freed(t, m, r) = Freed(tx[w], l, r)
      BY <1>10, <2>1 DEF Freed
    <2> QED
      BY <1>2, <1>10, <2>2, <2>3, <2>4, <2>5 DEF MovedRow
  <1>18. SaleWritten(tx[w], Held(w))'
    <2>1. ordersW'[o] = NewRow
      BY <1>1, <1>4, InvParts DEF RowsOK
    <2> QED
      BY <1>10, <1>11, <2>1 DEF SaleWritten
  <1>19. EndWritten(tx[w], Held(w))'
    <2> SUFFICES ASSUME t.old # o, m[t.old] >= 2
                 PROVE  /\ ordersW'[t.old].issued = orders[t.old].issued
                        /\ \/ ordersW'[t.old].status = orders[t.old].status
                           \/ ordersW'[t.old].status \in Ends /\ AllFreed(t, m)
      BY <1>4, <1>10, <1>11, <1>12 DEF EndWritten, Replaces, AllFreed, m, Saved, Freeing
    <2>1. ordersW'[t.old] = ordersW[t.old] /\ m[t.old] = l[t.old]
      BY <1>1, <1>4, <1>6, <1>10, InvParts DEF RowsOK
    <2>2. /\ ordersW[t.old].issued = orders[t.old].issued
          /\ \/ ordersW[t.old].status = orders[t.old].status
             \/ ordersW[t.old].status \in Ends /\ AllFreed(tx[w], l)
      BY <1>0, <1>1, <1>2, <1>10, <2>1 DEF WorkerOK, EndWritten, EndKinds, Replaces, Saved
    <2>3. AllFreed(tx[w], l) => AllFreed(t, m)
      BY <1>1, <1>6, <1>10 DEF AllFreed
    <2> QED
      BY <2>1, <2>2, <2>3
  <1>20. NewOrder(w, t)
    BY <1>2, <1>10 DEF NewOrder
  <1>21. m = Held(w)'
    BY DEF m
  <1> QED
    BY <1>1, <1>4, <1>5, <1>10, <1>13, <1>14, <1>15, <1>16, <1>17, <1>18, <1>19, <1>20, <1>21, WroteOrder

-----------------------------------------------------------------------------
LEMMA NothingAsked == \A r, k : ~Asks(<<>>, r, k)
  BY DEF Asks

(* One statement of the plan done: what remains, and the lock it took.      *)
Performed(t, l, s, u, m) ==
    /\ s = Head(t.plan)
    /\ u.kind = t.kind /\ u.order = t.order /\ u.old = t.old /\ u.plan = Tail(t.plan)
    /\ u.pc = IF Tail(t.plan) # <<>> THEN "stock" ELSE IF s.mode = 3 THEN "diff" ELSE "commit"
    /\ \A x \in Rows : m[x] = IF x = s.row THEN Stronger(l[x], s.mode) ELSE l[x]

LEMMA StatementDone ==
    ASSUME NEW t \in TxState, NEW l \in [Rows -> 0..3], t.order \in Orders, t.old \in Orders,
           TxShape(t), OrderLocks(t, l), StockLocks(t, l), t.pc = "stock",
           NEW s, NEW u, NEW m, Performed(t, l, s, u, m)
    PROVE  /\ s.row \in Stock /\ s.mode \in {1, 2, 3}
           /\ Freeing(t) <=> s.mode = 3
           /\ TxShape(u) /\ OrderLocks(u, m) /\ StockLocks(u, m)
           /\ (Saved(u) <=> Saved(t)) /\ (Selling(u, m) <=> Selling(t, l))
           /\ AllFreed(t, l) => AllFreed(u, m)
  <1>0. /\ s = Head(t.plan)
        /\ u.kind = t.kind /\ u.order = t.order /\ u.old = t.old /\ u.plan = Tail(t.plan)
        /\ u.pc = IF u.plan # <<>> THEN "stock" ELSE IF s.mode = 3 THEN "diff" ELSE "commit"
        /\ \A x \in Rows : m[x] = IF x = s.row THEN Stronger(l[x], s.mode) ELSE l[x]
    BY DEF Performed
  <1>1. PlanOK(t.plan)
    BY DEF TxShape
  <1>2. /\ s \in Statement
        /\ \A r, k : Asks(t.plan, r, k) <=> Asks(u.plan, r, k) \/ (r = s.row /\ k = s.mode)
        /\ s.mode # 1 => ~Asks(u.plan, s.row, s.mode)
        /\ s.mode = 3 <=> ReleaseOnly(t.plan)
        /\ s.mode = 3 \/ SaleOnly(t.plan)
        /\ u.plan # <<>> => PlanOK(u.plan) /\ (Head(u.plan).mode = 3 <=> s.mode = 3)
    BY <1>0, <1>1, TailFacts
  <1>3. s.row \in Stock /\ s.mode \in {1, 2, 3}
    BY <1>0, <1>2 DEF Statement
  <1>4. Freeing(t) <=> s.mode = 3
    BY <1>0 DEF Freeing
  <1>5. u.plan # <<>> => (Freeing(u) <=> s.mode = 3)
    BY <1>0, <1>2 DEF Freeing
  <1>6. s.mode # 3 => \A r : ~Asks(t.plan, r, 3)
    BY <1>0, <1>2 DEF SaleOnly, Asks
  <1>7. /\ Orders \subseteq Rows /\ Stock \subseteq Rows
        /\ \A o \in Orders : m[o] = l[o]
        /\ \A x \in Stock : /\ l[x] \in 0..3 /\ m[x] \in 0..3 /\ m[x] >= l[x]
                            /\ m[x] = IF x = s.row THEN Stronger(l[x], s.mode) ELSE l[x]
    <2>1. \A o \in Orders : o # s.row
      BY <1>0, <1>3, ShapeAssumption
    <2> QED
      BY <1>0, <1>3, <2>1 DEF Rows, Stronger
  <1>8. Selling(u, m) <=> Selling(t, l)
    BY <1>0, <1>7 DEF Selling
  <1>9. TxShape(u)
    <2>1. t.kind # "none" /\ t.kind \in IF s.mode = 3 THEN EndKinds ELSE SaleKinds
      BY <1>0, <1>4 DEF TxShape, SaleKinds, EndKinds
    <2>2. s.mode = 3 => Replaces(t)
      BY <1>0, <1>4 DEF TxShape
    <2>3. CASE u.plan # <<>>
      BY <1>0, <1>2, <1>4, <1>5, <2>1, <2>2, <2>3 DEF TxShape, KindsAt, Replaces, EndKinds, SaleKinds
    <2>4. CASE u.plan = <<>> /\ s.mode = 3
      BY <1>0, <2>1, <2>2, <2>4, <1>4 DEF TxShape, KindsAt, Replaces, Freeing, EndKinds
    <2>5. CASE u.plan = <<>> /\ s.mode # 3
      BY <1>0, <2>1, <2>5, <1>4 DEF TxShape, KindsAt, Freeing, SaleKinds, AllKinds
    <2> QED
      BY <1>0, <2>3, <2>4, <2>5
  <1>10. OrderLocks(u, m)
    <2>1. s.mode # 3 => Selling(t, l)
      BY <1>0, <1>4 DEF OrderLocks
    <2>2. s.mode = 3 => ~Selling(t, l)
      BY <1>0, <1>4 DEF OrderLocks
    <2>3. \A o \in Orders : m[o] >= 1 => o \in {u.order, u.old}
      BY <1>0, <1>7 DEF OrderLocks
    <2>4. CASE u.plan # <<>>
      BY <1>0, <1>5, <1>8, <2>1, <2>2, <2>3, <2>4 DEF OrderLocks, Unlocked, Freeing
    <2>5. CASE u.plan = <<>>
      BY <1>0, <1>8, <2>1, <2>2, <2>3, <2>5 DEF OrderLocks, Unlocked, Freeing
    <2> QED
      BY <1>0, <2>4, <2>5
  <1>11. \A r \in Stock :
           /\ Asks(u.plan, r, 3) => m[r] # 3
           /\ s.mode = 3 /\ Qty[u.old][r] > 0 /\ ~Asks(u.plan, r, 3) => m[r] = 3
           /\ m[r] = 3 => u.kind \in EndKinds
           /\ Selling(u, m) /\ Qty[u.order][r] > 0 /\ ~Asks(u.plan, r, 2) => m[r] >= 2
    <2> SUFFICES ASSUME NEW r \in Stock
                 PROVE  /\ Asks(u.plan, r, 3) => m[r] # 3
                        /\ s.mode = 3 /\ Qty[u.old][r] > 0 /\ ~Asks(u.plan, r, 3) => m[r] = 3
                        /\ m[r] = 3 => u.kind \in EndKinds
                        /\ Selling(u, m) /\ Qty[u.order][r] > 0 /\ ~Asks(u.plan, r, 2) => m[r] >= 2
      OBVIOUS
    <2>1. /\ Asks(t.plan, r, 3) => l[r] # 3
          /\ s.mode = 3 /\ Qty[t.old][r] > 0 /\ ~Asks(t.plan, r, 3) => l[r] = 3
          /\ l[r] = 3 => t.kind \in EndKinds
          /\ Selling(t, l) /\ Qty[t.order][r] > 0 /\ ~Asks(t.plan, r, 2) => l[r] >= 2
      BY <1>0, <1>4 DEF StockLocks
    <2>2. s.mode = 3 => t.kind \in EndKinds
      BY <1>0, <1>4 DEF TxShape
    <2>3. CASE r # s.row
      BY <1>0, <1>2, <1>7, <1>8, <2>1, <2>3
    <2>4. CASE r = s.row /\ s.mode = 3
      <3>1. m[r] = 3
        BY <1>0, <1>7, <2>4 DEF Stronger
      <3> QED
        BY <1>0, <1>2, <2>2, <2>4, <3>1
    <2>5. CASE r = s.row /\ s.mode # 3
      <3>1. ~Asks(u.plan, r, 3) /\ (m[r] = 3 => l[r] = 3) /\ (s.mode = 2 => m[r] >= 2)
        <4>1. ~Asks(u.plan, r, 3)
          BY <1>0, <1>2, <1>6, <2>5
        <4>2. m[r] = Stronger(l[r], s.mode) /\ l[r] \in 0..3
          BY <1>0, <1>7, <2>5
        <4>3. CASE s.mode = 1
          BY <1>0, <4>1, <4>2, <4>3 DEF Stronger
        <4>4. CASE s.mode = 2
          BY <1>0, <4>1, <4>2, <4>4 DEF Stronger
        <4> QED
          BY <1>0, <1>3, <2>5, <4>3, <4>4
      <3>2. s.mode # 2 => (Asks(t.plan, r, 2) <=> Asks(u.plan, r, 2))
        BY <1>0, <1>2
      <3>3. Selling(u, m) /\ Qty[u.order][r] > 0 /\ ~Asks(u.plan, r, 2) => m[r] >= 2
        <4>1. CASE s.mode = 2
          BY <1>0, <3>1, <4>1
        <4>2. CASE s.mode # 2
          <5>1. Selling(u, m) /\ Qty[u.order][r] > 0 /\ ~Asks(u.plan, r, 2) => l[r] >= 2
            BY <1>0, <1>8, <2>1, <3>2, <4>2
          <5>2. m[r] >= l[r] /\ m[r] \in 0..3 /\ l[r] \in 0..3
            BY <1>0, <1>7
          <5> QED
            BY <1>0, <5>1, <5>2
        <4> QED
          BY <1>0, <4>1, <4>2
      <3>4. (m[r] = 3 => u.kind \in EndKinds) /\ s.mode # 3
        BY <1>0, <2>1, <2>5, <3>1
      <3> QED
        BY <1>0, <3>1, <3>3, <3>4
    <2> QED
      BY <1>0, <2>3, <2>4, <2>5
  <1>12. StockLocks(u, m)
    <2>1. Freeing(u) => s.mode = 3
      <3>1. u.pc = "stock" => u.plan # <<>>
        BY <1>0
      <3> QED
        BY <1>0, <1>5, <3>1 DEF Freeing
    <2>2. u.plan = <<>> => \A r : ~Asks(u.plan, r, 3)
      BY NothingAsked
    <2>3. u.pc \in {"diff", "save"} => AllFreed(u, m)
      BY <1>0, <1>11, <2>2 DEF AllFreed
    <2>4. u.pc = "commit" => u.kind \notin {"expire", "cancel"}
      BY <1>0, <1>4 DEF TxShape, SaleKinds
    <2> QED
      BY <1>0, <1>11, <2>1, <2>3, <2>4 DEF StockLocks
  <1>13. Saved(u) <=> Saved(t)
    BY <1>0, <1>4, <1>5 DEF Saved, Freeing
  <1>14. AllFreed(t, l) => AllFreed(u, m)
    BY <1>0, <1>3, <1>7 DEF AllFreed, Stronger
  <1> QED
    BY <1>0, <1>3, <1>4, <1>8, <1>9, <1>10, <1>12, <1>13, <1>14

-----------------------------------------------------------------------------
LEMMA LessFacts ==
    ASSUME NEW x \in Nat, NEW q \in Nat
    PROVE  Less(x, q) \in Nat /\ Less(x, 0) = x
  BY DEF Less

(* The row a statement leaves is the committed row with what the            *)
(* transaction has released and taken so far.                               *)
LEMMA EffectMoves ==
    ASSUME NEW t \in TxState, t.order \in Orders, t.old \in Orders, NEW l, NEW u, NEW m,
           NEW s \in Statement, NEW row \in StockRow,
           u.kind = t.kind, u.order = t.order, u.old = t.old,
           Selling(u, m) <=> Selling(t, l),
           Asks(t.plan, s.row, 2) <=> Asks(u.plan, s.row, 2) \/ s.mode = 2,
           s.mode = 2 => ~Asks(u.plan, s.row, 2) /\ Selling(t, l) /\ (m[s.row] = 3 <=> l[s.row] = 3),
           s.mode = 3 => /\ ~Selling(t, l) /\ l[s.row] # 3 /\ m[s.row] = 3
                         /\ t.kind \in EndKinds,
           s.mode \in {2, 3}
    PROVE  Effect(t, s, MovedRow(t, l, s.row, row)) = MovedRow(u, m, s.row, row)
  <1> DEFINE r == s.row
  <1>1. r \in Stock /\ Qty[t.order][r] \in Nat /\ Qty[t.old][r] \in Nat
    BY ShapeAssumption DEF Statement
  <1>2. CASE s.mode = 2
    <2>1. Taken(t, l, r) = 0 /\ Taken(u, m, r) = Qty[t.order][r] /\ Freed(u, m, r) = Freed(t, l, r)
      BY <1>2 DEF Taken, Freed
    <2>2. t.kind \in SaleKinds
      BY <1>2 DEF Selling
    <2>3. CASE t.kind = "create"
      <3>1. Released(row, Freed(t, l, r)) \in StockRow
        BY <1>1, RowOps DEF Freed
      <3>2. MovedRow(t, l, r, row) = Released(row, Freed(t, l, r))
        BY <2>1, <2>3, <3>1, RowOps DEF MovedRow
      <3>3. MovedRow(u, m, r, row) = Reserved(Released(row, Freed(t, l, r)), Qty[t.order][r])
        BY <2>1, <2>3 DEF MovedRow
      <3>4. Effect(t, s, MovedRow(t, l, r, row)) = Reserved(MovedRow(t, l, r, row), Qty[t.order][r])
        BY <1>2, <2>3 DEF Effect
      <3> QED
        BY <3>2, <3>3, <3>4
    <2>4. CASE t.kind \in {"pay", "manual"}
      <3>1. MovedRow(t, l, r, row) = row
        BY <2>1, <2>4, RowOps DEF MovedRow
      <3>2. MovedRow(u, m, r, row) = Sold(row, Qty[t.order][r])
        BY <2>1, <2>4 DEF MovedRow
      <3>3. Effect(t, s, MovedRow(t, l, r, row)) = Sold(MovedRow(t, l, r, row), Qty[t.order][r])
        BY <1>2, <2>4 DEF Effect
      <3> QED
        BY <3>1, <3>2, <3>3
    <2> QED
      BY <2>2, <2>3, <2>4 DEF SaleKinds
  <1>3. CASE s.mode = 3
    <2>1. /\ Taken(t, l, r) = 0 /\ Taken(u, m, r) = 0
          /\ Freed(t, l, r) = 0 /\ Freed(u, m, r) = Qty[t.old][r]
      BY <1>3 DEF Taken, Freed
    <2>2. t.kind \notin {"pay", "manual"}
      BY <1>3 DEF EndKinds
    <2>3. MovedRow(t, l, r, row) = row
      BY <2>1, <2>2, RowOps DEF MovedRow
    <2>4. Released(row, Qty[t.old][r]) \in StockRow
      BY <1>1, RowOps
    <2>5. MovedRow(u, m, r, row) = Released(row, Qty[t.old][r])
      BY <2>1, <2>2, <2>4, RowOps DEF MovedRow
    <2>6. Effect(t, s, MovedRow(t, l, r, row)) = Released(MovedRow(t, l, r, row), Qty[t.old][r])
      BY <1>3 DEF Effect
    <2> QED
      BY <2>3, <2>5, <2>6
  <1> QED
    BY <1>2, <1>3

LEMMA TouchesOK ==
    ASSUME Inv, Inv', BaseInv, NEW w \in Workers, TouchStock(w), ~Abort(w) PROVE BaseInv'
  <1> DEFINE s == Head(tx[w].plan)
             t == tx[w]
             l == Held(w)
             m == Held(w)'
  <1>0. tx[w].pc = "stock"
    BY DEF TouchStock, At
  <1>1. /\ t \in TxState /\ t.order \in Orders /\ t.old \in Orders
        /\ WorkerOK(t, l) /\ l \in [Rows -> 0..3] /\ \A r \in Rows : l[r] = locks[r][w]
        /\ Orders \subseteq Rows /\ Stock \subseteq Rows /\ Orders \cap Stock = {}
    BY <1>0, Acting
  <1>2. TxShape(t) /\ OrderLocks(t, l) /\ StockLocks(t, l) /\ PlanOK(t.plan)
    BY <1>0, <1>1 DEF WorkerOK, TxShape
  <1>3. /\ Lock(w, s.row, s.mode) /\ \A v \in Workers \ {w} : locks[s.row][v] + s.mode <= 3
        /\ stockW' = [stockW EXCEPT ![s.row] = Effect(t, s, @)]
        /\ tx' = [tx EXCEPT ![w].plan = Tail(@),
                            ![w].pc = IF Tail(tx[w].plan) # <<>> THEN "stock"
                                      ELSE IF s.mode = 3 THEN "diff" ELSE "commit"]
        /\ UNCHANGED <<orders, ordersW, stock>>
    BY DEF TouchStock, Free
  <1>4. /\ s \in Statement /\ s.row \in Stock /\ s.row \in Rows /\ s.mode \in {1, 2, 3}
        /\ Tail(t.plan) \in Seq(Statement)
        /\ \A r, k : Asks(t.plan, r, k) <=> Asks(Tail(t.plan), r, k) \/ (r = s.row /\ k = s.mode)
        /\ s.mode # 1 => ~Asks(Tail(t.plan), s.row, s.mode)
    <2> DEFINE q == tx[w].plan
    <2>0. PlanOK(q)
      BY <1>2
    <2> HIDE DEF q
    <2>q. /\ Head(q) \in Statement /\ Tail(q) \in Seq(Statement)
          /\ \A r, k : Asks(q, r, k) <=> Asks(Tail(q), r, k) \/ (r = Head(q).row /\ k = Head(q).mode)
          /\ Head(q).mode # 1 => ~Asks(Tail(q), Head(q).row, Head(q).mode)
      BY <2>0, TailFacts
    <2>1. /\ s \in Statement /\ Tail(t.plan) \in Seq(Statement)
          /\ \A r, k : Asks(t.plan, r, k) <=> Asks(Tail(t.plan), r, k) \/ (r = s.row /\ k = s.mode)
          /\ s.mode # 1 => ~Asks(Tail(t.plan), s.row, s.mode)
      BY <2>q DEF q
    <2>2. s.row \in Stock /\ s.mode \in {1, 2, 3}
      BY <2>1 DEF Statement
    <2>3. s.row \in Rows
      BY <2>2 DEF Rows
    <2> HIDE DEF s
    <2> QED
      BY <2>1, <2>2, <2>3
  <1> DEFINE next == IF Tail(t.plan) # <<>> THEN "stock" ELSE IF s.mode = 3 THEN "diff" ELSE "commit"
             u == [t EXCEPT !.plan = Tail(t.plan), !.pc = next]
  <1>5. next \in Pc
    BY DEF Pc
  <1>6. tx' = [tx EXCEPT ![w] = u]
    BY <1>1, <1>3, InvParts DEF TxOK, TxState
  <1>7. /\ u.kind = t.kind /\ u.order = t.order /\ u.old = t.old /\ u.plan = Tail(t.plan)
        /\ u.pc = next
    BY <1>1 DEF TxState
  <1> HIDE DEF u
  <1>8. \A x \in Rows : m[x] = IF x = s.row THEN Stronger(l[x], s.mode) ELSE l[x]
    BY <1>1, <1>3, <1>4, LockFacts DEF BaseInv
  <1>9. /\ Exclusive' /\ locks'[s.row][w] >= s.mode
        /\ \A v \in Workers \ {w} : Held(v)' = Held(v)
        /\ \A x \in Rows, v \in Workers : locks'[x][v] >= locks[x][v]
    BY <1>3, <1>4, LockFacts DEF BaseInv
  <1>10. tx'[w] = u /\ \A v \in Workers \ {w} : tx'[v] = tx[v]
    BY <1>6, SetTx
  <1>11. /\ Freeing(t) <=> s.mode = 3
         /\ TxShape(u) /\ OrderLocks(u, m) /\ StockLocks(u, m)
         /\ (Saved(u) <=> Saved(t)) /\ (Selling(u, m) <=> Selling(t, l))
         /\ AllFreed(t, l) => AllFreed(u, m)
    <2> HIDE DEF m, l
    <2>1. Performed(t, l, s, u, m)
      BY <1>7, <1>8 DEF Performed
    <2> HIDE DEF t, s
    <2>2. t.pc = "stock"
      BY <1>0 DEF t
    <2> QED
      BY <1>1, <1>2, <2>1, <2>2, StatementDone
  <1> HIDE DEF m, next
  <1>12. OrderFacts(u)
    BY <1>0, <1>1, <1>7, <1>11 DEF WorkerOK, OrderFacts, Replaces, TxShape, KindsAt, SaleKinds, EndKinds
  <1>13. NewOrder(w, u)
    BY <1>7 DEF NewOrder
  <1>14. SaleWritten(u, m) /\ EndWritten(u, m)
    <2>1. \A o \in Orders : m[o] = l[o]
      BY <1>1, <1>4, <1>8
    <2>2. SaleWritten(t, l) /\ EndWritten(t, l)
      BY <1>1 DEF WorkerOK
    <2>3. SaleWritten(u, m)
      BY <1>7, <1>11, <2>2 DEF SaleWritten
    <2>4. EndWritten(u, m)
      BY <1>1, <1>7, <1>11, <2>1, <2>2 DEF EndWritten, Replaces
    <2> QED
      BY <2>3, <2>4
  <1>15. \A r \in Stock : r # s.row => MovedRow(u, m, r, stock[r]) = MovedRow(t, l, r, stock[r])
                                       /\ m[r] = l[r]
    <2> SUFFICES ASSUME NEW r \in Stock, r # s.row
                 PROVE  MovedRow(u, m, r, stock[r]) = MovedRow(t, l, r, stock[r]) /\ m[r] = l[r]
      OBVIOUS
    <2>1. m[r] = l[r] /\ (Asks(t.plan, r, 2) <=> Asks(u.plan, r, 2))
      BY <1>1, <1>4, <1>7, <1>8
    <2>2. Taken(u, m, r) = Taken(t, l, r) /\ Freed(u, m, r) = Freed(t, l, r)
      BY <1>7, <1>11, <2>1 DEF Taken, Freed
    <2> QED
      BY <1>7, <2>1, <2>2 DEF MovedRow
  <1>16. StockWritten(t, l)
    BY <1>1 DEF WorkerOK
  <1>17. CASE s.mode = 1
    <2>1. stockW' = stockW
      BY <1>3, <1>4, <1>17, InvParts DEF Effect, RowsOK
    <2>2. UNCHANGED rows
      BY <1>3, <2>1 DEF rows
    <2>3. StockWritten(u, m)
      <3> SUFFICES ASSUME NEW r \in Stock, r = s.row, m[r] >= 2
                   PROVE  stockW[r] = MovedRow(u, m, r, stock[r])
        BY <1>15, <1>16 DEF StockWritten
      <3>1. m[r] = l[r]
        BY <1>1, <1>8, <1>17 DEF Stronger
      <3>2. Asks(t.plan, r, 2) <=> Asks(u.plan, r, 2)
        BY <1>4, <1>7, <1>17
      <3>3. Taken(u, m, r) = Taken(t, l, r) /\ Freed(u, m, r) = Freed(t, l, r)
        BY <1>7, <1>11, <3>1, <3>2 DEF Taken, Freed
      <3> QED
        BY <1>7, <1>16, <3>1, <3>3 DEF MovedRow, StockWritten
    <2>4. WorkerOK(u, m)
      BY <1>11, <1>12, <1>14, <2>3 DEF WorkerOK
    <2> HIDE DEF s
    <2> QED
      BY <1>3, <1>4, <1>6, <1>13, <2>2, <2>4, SilentLock DEF m
  <1>18. CASE s.mode # 1
    <2>1. s.mode \in {2, 3} /\ \A v \in Workers \ {w} : locks[s.row][v] < 2 /\ locks[s.row][v] + 2 <= 3
      <3>1. s.mode = 2 \/ s.mode = 3
        BY <1>4, <1>18
      <3>2. \A v \in Workers : locks[s.row][v] \in 0..3
        BY <1>4, InvParts DEF LocksOK
      <3> QED
        BY <1>3, <3>1, <3>2
    <2>2. stockW[s.row] = MovedRow(t, l, s.row, stock[s.row]) /\ stock[s.row] \in StockRow
      <3>0. stock[s.row] \in StockRow
        BY <1>4, InvParts DEF RowsOK
      <3>1. CASE l[s.row] >= 2
        BY <1>4, <1>16, <3>0, <3>1 DEF StockWritten
      <3>2. CASE ~(l[s.row] >= 2)
        <4>1. stockW[s.row] = stock[s.row]
          BY <1>1, <1>4, <2>1, <3>2, CleanRow, InvParts DEF BaseInv, LocksOK
        <4>2. Freed(t, l, s.row) = 0
          BY <3>2 DEF Freed
        <4>3. Taken(t, l, s.row) = 0
          <5>1. s.mode = 2 => Asks(t.plan, s.row, 2)
            BY <1>4
          <5>2. s.mode = 3 => ~Selling(t, l)
            BY <1>0, <1>2, <1>11 DEF OrderLocks
          <5> QED
            BY <2>1, <5>1, <5>2 DEF Taken
        <4> QED
          BY <3>0, <4>1, <4>2, <4>3, RowOps DEF MovedRow
      <3> QED
        BY <3>1, <3>2
    <2>3. stockW'[s.row] = MovedRow(u, m, s.row, stock[s.row])
      <3>1. stockW'[s.row] = Effect(t, s, stockW[s.row])
        BY <1>3, <1>4, InvParts DEF RowsOK
      <3>2. s.mode = 2 => /\ ~Asks(u.plan, s.row, 2) /\ Selling(t, l)
                          /\ (m[s.row] = 3 <=> l[s.row] = 3)
        BY <1>0, <1>1, <1>2, <1>4, <1>7, <1>8, <1>11 DEF OrderLocks, Stronger
      <3>3. s.mode = 3 => /\ ~Selling(t, l) /\ l[s.row] # 3 /\ m[s.row] = 3
                          /\ t.kind \in EndKinds
        BY <1>0, <1>1, <1>2, <1>4, <1>8, <1>11 DEF OrderLocks, StockLocks, TxShape, Stronger
      <3>4. Asks(t.plan, s.row, 2) <=> Asks(u.plan, s.row, 2) \/ s.mode = 2
        BY <1>4, <1>7
      <3> HIDE DEF s, t, l
      <3>5. /\ t \in TxState /\ t.order \in Orders /\ t.old \in Orders /\ s \in Statement
            /\ stock[s.row] \in StockRow /\ s.mode \in {2, 3}
            /\ u.kind = t.kind /\ u.order = t.order /\ u.old = t.old
            /\ Selling(u, m) <=> Selling(t, l)
        BY <1>1, <1>4, <1>7, <1>11, <2>1, <2>2
      <3>6. Effect(t, s, MovedRow(t, l, s.row, stock[s.row])) = MovedRow(u, m, s.row, stock[s.row])
        BY <3>2, <3>3, <3>4, <3>5, EffectMoves
      <3> QED
        BY <2>2, <3>1, <3>6
    <2>4. locks'[s.row][w] >= 2
      BY <1>4, <1>9, <2>1, InvPartsNext DEF LocksOK
    <2>5. Clean' /\ \A v \in Workers \ {w} : RowsKept(v)
      BY <1>3, <1>4, <1>9, <2>1, <2>4, StockRowWritten
    <2>6. StockWritten(tx[w], Held(w))'
      <3>1. \A r \in Stock : r # s.row => stockW'[r] = stockW[r]
        BY <1>3, <1>4, InvParts DEF RowsOK
      <3>2. \A r \in Stock : m[r] >= 2 => stockW'[r] = MovedRow(u, m, r, stock[r])
        BY <1>15, <1>16, <2>3, <3>1 DEF StockWritten
      <3>3. stock' = stock /\ tx'[w] = u /\ Held(w)' = m
        BY <1>3, <1>10 DEF m
      <3> HIDE DEF t, l
      <3> QED
        BY <3>2, <3>3 DEF StockWritten, MovedRow, Taken, Freed, Selling
    <2>7. /\ TxShape(tx[w])' /\ OrderLocks(tx[w], Held(w))' /\ StockLocks(tx[w], Held(w))'
      BY <1>10, <1>11 DEF TxShape, OrderLocks, StockLocks, Selling, AllFreed, Replaces, Freeing, m
    <2>8. /\ OrderFacts(tx[w])' /\ SaleWritten(tx[w], Held(w))' /\ EndWritten(tx[w], Held(w))'
      BY <1>3, <1>10, <1>12, <1>14
         DEF OrderFacts, SaleWritten, EndWritten, Selling, AllFreed, Replaces, Freeing, Saved, m
    <2>9. WorkerOK(tx[w], Held(w))'
      BY <2>6, <2>7, <2>8 DEF WorkerOK
    <2>10. Blank'
      BY <1>3 DEF Blank, BaseInv
    <2> QED
      BY <1>9, <1>10, <1>13, <2>5, <2>9, <2>10, StepFrame DEF Kept, NewOrder
  <1> QED
    BY <1>17, <1>18

-----------------------------------------------------------------------------
LEMMA OverwrittenFacts ==
    ASSUME NEW row \in OrderRow, NEW snap \in OrderRow, NEW dirty \in SUBSET {"status", "charge"}
    PROVE  /\ Overwritten(row, snap, dirty).issued = row.issued
           /\ Overwritten(row, snap, dirty).status \in {row.status, snap.status}
           /\ "status" \in dirty => Overwritten(row, snap, dirty).status = snap.status
           /\ "status" \notin dirty => Overwritten(row, snap, dirty).status = row.status
  BY DEF Overwritten, OrderRow

LEMMA SaveUpdateOK == ASSUME Inv, Inv', BaseInv, NEW w \in Workers, SaveUpdate(w) PROVE BaseInv'
  <1> DEFINE t == tx[w]
             old == tx[w].old
             l == Held(w)
             next == IF t.kind = "create" THEN "insert" ELSE "commit"
             row == Overwritten(ordersW[old], t.snap, t.dirty)
             u == [t EXCEPT !.pc = next, !.snap = NoRow, !.dirty = {}]
  <1>0. tx[w].pc = "save"
    BY DEF SaveUpdate, At
  <1>1. /\ t \in TxState /\ old \in Orders /\ old \in Rows /\ t.order \in Orders
        /\ WorkerOK(t, l) /\ l \in [Rows -> 0..3] /\ \A r \in Rows : l[r] = locks[r][w]
        /\ Orders \subseteq Rows /\ Stock \subseteq Rows /\ Orders \cap Stock = {}
        /\ ordersW[old] \in OrderRow /\ t.snap \in OrderRow /\ t.dirty \in SUBSET {"status", "charge"}
    BY <1>0, Acting, InvParts DEF RowsOK, TxState
  <1>2. /\ t.kind \in EndKinds \cup {"checkout"} /\ t.plan = <<>> /\ Replaces(t)
        /\ t.kind = "checkout" => t.snap.status = "PENDING"
        /\ t.kind \in EndKinds => t.snap.status \in Ends
        /\ ~Selling(t, l) /\ (t.kind \in EndKinds => AllFreed(t, l))
    BY <1>0, <1>1 DEF WorkerOK, TxShape, KindsAt, OrderLocks, StockLocks
  <1>3. next \in Pc /\ next \in {"insert", "commit"} /\ (t.kind = "create" <=> next = "insert")
    BY DEF Pc
  <1>4. tx' = [tx EXCEPT ![w] = u]
    BY <1>1, InvParts DEF SaveUpdate, TxOK, TxState
  <1>5. /\ u \in TxState /\ u.pc = next /\ u.kind = t.kind /\ u.order = t.order /\ u.old = old
        /\ u.plan = t.plan
    BY <1>1, <1>3, NoRowTyped DEF TxState
  <1> HIDE DEF u, next
  <1>6. TxShape(u)
    <2>1. t.kind # "create" => t.old = t.order
      BY <1>1, <1>2 DEF WorkerOK, TxShape, EndKinds
    <2> QED
      BY <1>2, <1>3, <1>5, <2>1 DEF TxShape, KindsAt, Freeing, EndKinds, AllKinds
  <1>7. ~Saved(t) /\ Saved(u)
    BY <1>0, <1>3, <1>5 DEF Saved
  <1>8. CASE t.dirty = {}
    <2>1. UNCHANGED <<rows, locks>>
      BY <1>8 DEF SaveUpdate, rows
    <2> QED
      BY <1>0, <1>1, <1>2, <1>3, <1>4, <1>5, <1>6, <1>7, <2>1, MovesOn DEF Unlocked
  <1>9. CASE t.dirty # {}
    <2> DEFINE m == Held(w)'
    <2>1. /\ Lock(w, old, 2) /\ \A v \in Workers \ {w} : locks[old][v] + 2 <= 3
          /\ ordersW' = [ordersW EXCEPT ![old] = row]
          /\ UNCHANGED <<orders, stock, stockW>>
      BY <1>9 DEF SaveUpdate, Free
    <2>2. \A x \in Rows : m[x] = IF x = old THEN Stronger(l[x], 2) ELSE l[x]
      BY <1>1, <2>1, LockFacts DEF BaseInv
    <2>3. ordersW[old] = orders[old]
      <3>1. CASE l[old] >= 2
        BY <1>1, <1>2, <1>7, <3>1 DEF WorkerOK, EndWritten
      <3>2. CASE ~(l[old] >= 2)
        BY <1>1, <2>1, <3>2, CleanRow DEF BaseInv
      <3> QED
        BY <3>1, <3>2
    <2>4. tx'[w] = u
      BY <1>4, SetTx
    <2> HIDE DEF m
    <2>5. \A r \in Stock : m[r] = l[r]
      BY <1>1, <2>2
    <2>6. ~Selling(u, m)
      <3>1. CASE t.kind = "create"
        <4>1. t.order # old /\ t.order \in Rows
          BY <1>1, <1>2, <3>1 DEF Replaces
        <4>2. m[t.order] = l[t.order]
          BY <2>2, <4>1
        <4> QED
          BY <1>2, <1>5, <4>2 DEF Selling
      <3>2. CASE t.kind # "create"
        BY <1>2, <1>5, <3>2 DEF Selling, SaleKinds, EndKinds
      <3> QED
        BY <3>1, <3>2
    <2>7. AllFreed(t, l) => AllFreed(u, m)
      BY <1>5, <2>5 DEF AllFreed
    <2>8. OrderLocks(u, m)
      <3>1. \A o \in Orders : m[o] >= 1 => o \in {u.order, u.old}
        BY <1>1, <1>5, <2>2 DEF WorkerOK, OrderLocks
      <3> QED
        BY <1>2, <1>3, <1>5, <2>6, <3>1 DEF OrderLocks, Unlocked, Freeing
    <2>9. StockLocks(u, m)
      <3>1. \A r, k : ~Asks(u.plan, r, k)
        BY <1>2, <1>5, NothingAsked
      <3>2. ~Freeing(u)
        BY <1>3, <1>5 DEF Freeing
      <3>3. \A r \in Stock : l[r] = 3 => t.kind \in EndKinds
        BY <1>1 DEF WorkerOK, StockLocks
      <3> QED
        BY <1>2, <1>3, <1>5, <2>5, <2>6, <2>7, <3>1, <3>2, <3>3 DEF StockLocks, EndKinds
    <2>10. OrderFacts(u)
      BY <1>0, <1>1, <1>2, <1>3, <1>5 DEF WorkerOK, OrderFacts, Replaces
    <2>11. StockWritten(u, m)
      <3>1. \A r \in Stock : Taken(u, m, r) = 0 /\ Taken(t, l, r) = 0 /\ Freed(u, m, r) = Freed(t, l, r)
        BY <1>2, <1>5, <2>5, <2>6 DEF Taken, Freed
      <3>2. \A r \in Stock : MovedRow(u, m, r, stock[r]) = MovedRow(t, l, r, stock[r])
        BY <1>5, <3>1 DEF MovedRow
      <3> QED
        BY <1>1, <2>5, <3>2 DEF WorkerOK, StockWritten
    <2>12. Held(w)' = m
      BY DEF m
    <2>13. SaleWritten(tx[w], Held(w))'
      BY <2>4, <2>6, <2>12 DEF SaleWritten, Selling
    <2>14. EndWritten(tx[w], Held(w))'
      <3>1. ordersW'[old] = row /\ orders' = orders
        BY <1>1, <2>1, InvParts DEF RowsOK
      <3>2. /\ row.issued = orders[old].issued
            /\ row.status \in {orders[old].status, t.snap.status}
        BY <1>1, <2>3, OverwrittenFacts
      <3> HIDE DEF row
      <3>3. /\ row.issued = orders[old].issued
            /\ \/ row.status = orders[old].status
               \/ u.kind = "checkout" /\ row.status = "PENDING"
               \/ u.kind # "checkout" /\ row.status \in Ends /\ AllFreed(u, m)
        BY <1>2, <1>5, <2>7, <3>2 DEF EndKinds
      <3> HIDE DEF t, l
      <3>4. tx'[w].old = old
        BY <1>5, <2>4
      <3>5. AllFreed(tx[w], Held(w))' <=> AllFreed(u, m)
        BY <2>4, <2>12 DEF AllFreed
      <3>6. Saved(tx[w])' <=> Saved(u)
        BY <2>4 DEF Saved, Freeing
      <3> QED
        BY <1>7, <2>4, <2>12, <3>1, <3>3, <3>4, <3>5, <3>6 DEF EndWritten
    <2>15. NewOrder(w, u)
      BY <1>5 DEF NewOrder
    <2> HIDE DEF row
    <2> QED
      BY <1>1, <1>4, <1>6, <2>1, <2>8, <2>9, <2>10, <2>11, <2>12, <2>13, <2>14, <2>15, WroteOrder
  <1> QED
    BY <1>8, <1>9

LEMMA ReopenOK == ASSUME Inv, Inv', BaseInv, NEW w \in Workers, Reopen(w) PROVE BaseInv'
  <1> DEFINE o == tx[w].order
  <1>0. tx[w].pc = "reopen"
    BY DEF Reopen, At
  <1>1. /\ o \in Orders /\ o \in Rows /\ Orders \subseteq Rows /\ Stock \subseteq Rows
        /\ WorkerOK(tx[w], Held(w)) /\ \A r \in Rows : Held(w)[r] = 0
        /\ orders[o] \in OrderRow /\ \A v \in Workers : locks[o][v] \in 0..3
    BY <1>0, Acting, InvParts DEF WorkerOK, OrderLocks, Unlocked, RowsOK, LocksOK
  <1>2. CASE UNCHANGED <<orders, ordersW>>
    <2>1. tx' = [tx EXCEPT ![w] = Idle] /\ UNCHANGED <<rows, locks>>
      BY <1>2 DEF Reopen, rows
    <2> QED
      BY <1>0, <2>1, GivesUp DEF Unlocked
  <1>3. CASE ~(UNCHANGED <<orders, ordersW>>)
    <2>1. /\ orders[o].status = "EXPIRED"
          /\ orders' = [orders EXCEPT ![o].status = "PENDING", ![o].revived = @ + 1]
          /\ ordersW' = [ordersW EXCEPT ![o] = orders'[o]]
          /\ tx' = [tx EXCEPT ![w] = Idle] /\ UNCHANGED <<stock, stockW, locks>>
          /\ \A v \in Workers \ {w} : locks[o][v] + 2 <= 3
      BY <1>3 DEF Reopen, Free
    <2>2. /\ \A p \in Orders : p # o => orders'[p] = orders[p] /\ ordersW'[p] = ordersW[p]
          /\ ordersW'[o] = orders'[o] /\ orders'[o].status = "PENDING"
      BY <1>1, <2>1, InvParts DEF RowsOK, OrderRow
    <2>3. tx'[w] = Idle /\ \A v \in Workers \ {w} : tx'[v] = tx[v]
      BY <2>1, SetTx
    <2>4. Exclusive' /\ \A v \in Workers : Held(v)' = Held(v)
      BY <2>1, LocksUnchanged DEF BaseInv
    <2>5. Clean'
      BY <2>1, <2>2 DEF BaseInv, Clean
    <2>6. Blank'
      BY <2>2 DEF BaseInv, Blank
    <2>8. WorkerOK(tx[w], Held(w))'
      <3>1. (tx[w])' = Idle /\ Held(w)' = Held(w)
        BY <2>3, <2>4
      <3>2. Idle.kind = "none" /\ Idle.pc = "idle" /\ Idle.plan = <<>>
        BY DEF Idle
      <3>3. TxShape(Idle) /\ OrderLocks(Idle, Held(w)) /\ StockLocks(Idle, Held(w))
        BY <1>1, IdleOK DEF WorkerOK
      <3>4. TxShape(tx[w])' /\ OrderLocks(tx[w], Held(w))' /\ StockLocks(tx[w], Held(w))'
        BY <3>1, <3>3 DEF TxShape, OrderLocks, StockLocks, Selling, AllFreed, Replaces, Freeing
      <3>5. /\ OrderFacts(tx[w])' /\ SaleWritten(tx[w], Held(w))' /\ EndWritten(tx[w], Held(w))'
            /\ StockWritten(tx[w], Held(w))'
        BY <1>1, <3>1, <3>2 DEF OrderFacts, SaleWritten, EndWritten, StockWritten, Selling, SaleKinds, EndKinds
      <3> QED
        BY <3>4, <3>5 DEF WorkerOK
    <2>9. \A v \in Workers \ {w} : Kept(v)
      <3> SUFFICES ASSUME NEW v \in Workers \ {w} PROVE RowsKept(v)
        BY <2>3, <2>4 DEF Kept
      <3>1. locks[o][v] < 2
        BY <1>1, <2>1
      <3>2. tx[v].kind = "create" => tx[v].order # o
        BY <2>1, NewOrderUntouched DEF NoRow
      <3>3. tx[v].kind = "create" => tx[v].order \in Orders
        BY NewOrderUntouched
      <3>4. \A p \in Orders : locks[p][v] >= 2 => p # o
        BY <1>1, <3>1
      <3>5. tx[v].kind = "create" => orders'[tx[v].order] = orders[tx[v].order]
        BY <2>2, <3>2, <3>3
      <3>6. \A p \in Orders : orders[p].status # "NONE" => orders'[p].status # "NONE"
        <4> SUFFICES ASSUME NEW p \in Orders, orders[p].status # "NONE" PROVE orders'[p].status # "NONE"
          OBVIOUS
        <4> QED
          BY <2>2
      <3> QED
        BY <2>1, <2>2, <3>4, <3>5, <3>6 DEF RowsKept
    <2> QED
      BY <2>3, <2>4, <2>5, <2>6, <2>8, <2>9, StepFrame DEF Idle
  <1> QED
    BY <1>2, <1>3

LEMMA LapseOK == ASSUME Inv, Inv', BaseInv, NEW o \in Orders, Lapse(o) PROVE BaseInv'
  <1>1. UNCHANGED <<orders, ordersW, stock, stockW, locks, tx>>
    BY DEF Lapse, rows
  <1>2. \A v \in Workers : Held(v)' = Held(v)
    BY <1>1 DEF Held
  <1>3. \A v \in Workers : Kept(v)
    BY <1>1, <1>2 DEF Kept, RowsKept
  <1>4. \A v \in Workers : WorkerOK(tx[v], Held(v))'
    BY <1>3, Frame DEF BaseInv
  <1>5. Exclusive' /\ Clean' /\ OneCreate' /\ Blank'
    BY <1>1 DEF BaseInv, Exclusive, Clean, OneCreate, Blank
  <1> QED
    BY <1>4, <1>5 DEF BaseInv

-----------------------------------------------------------------------------
(* A worker that has ended its transaction.                                 *)
LEMMA IdleAfter ==
    ASSUME NEW w \in Workers, tx'[w] = Idle, \A r \in Rows : Held(w)'[r] = 0
    PROVE  WorkerOK(tx[w], Held(w))'
  <1> DEFINE l == Held(w)'
  <1>1. (tx[w])' = Idle /\ Held(w)' = l /\ Orders \subseteq Rows /\ Stock \subseteq Rows
    BY DEF Rows
  <1>2. Idle.kind = "none" /\ Idle.pc = "idle" /\ Idle.plan = <<>>
    BY DEF Idle
  <1>3. \A r \in Rows : l[r] = 0
    OBVIOUS
  <1> HIDE DEF l
  <1>4. TxShape(Idle) /\ OrderLocks(Idle, l) /\ StockLocks(Idle, l)
    BY <1>3, IdleOK DEF WorkerOK
  <1>5. TxShape(tx[w])' /\ OrderLocks(tx[w], Held(w))' /\ StockLocks(tx[w], Held(w))'
    BY <1>1, <1>4 DEF TxShape, OrderLocks, StockLocks, Selling, AllFreed, Replaces, Freeing
  <1>6. /\ OrderFacts(tx[w])' /\ SaleWritten(tx[w], Held(w))' /\ EndWritten(tx[w], Held(w))'
        /\ StockWritten(tx[w], Held(w))'
    BY <1>1, <1>2, <1>3 DEF OrderFacts, SaleWritten, EndWritten, StockWritten, Selling, SaleKinds, EndKinds
  <1> QED
    BY <1>5, <1>6 DEF WorkerOK

LEMMA AbortOK == ASSUME Inv, Inv', BaseInv, NEW w \in Workers, Abort(w) PROVE BaseInv'
  <1>1. /\ Orders \subseteq Rows /\ Stock \subseteq Rows /\ Orders \cap Stock = {}
        /\ locks \in [Rows -> [Workers -> 0..3]]
    BY InvParts, ShapeAssumption DEF LocksOK, Rows
  <1>2. tx'[w] = Idle /\ \A v \in Workers \ {w} : tx'[v] = tx[v]
    BY SetTx DEF Abort
  <1>3. /\ Exclusive' /\ \A r \in Rows : Held(w)'[r] = 0
        /\ \A v \in Workers \ {w} : Held(v)' = Held(v)
    BY ReleaseFacts DEF Abort, BaseInv
  <1>4. \A r \in Rows, v \in Workers : locks'[r][v] = IF v = w THEN 0 ELSE locks[r][v]
    BY <1>1 DEF Abort, ReleaseLocks
  <1>5. /\ \A o \in Orders : ordersW'[o] = IF locks[o][w] >= 2 THEN orders[o] ELSE ordersW[o]
        /\ \A r \in Stock : stockW'[r] = IF locks[r][w] >= 2 THEN stock[r] ELSE stockW[r]
        /\ UNCHANGED <<orders, stock>>
    BY DEF Abort, Discard
  <1>6. Clean'
    <2>1. ASSUME NEW x \in Rows, \A v \in Workers : locks'[x][v] < 2, ~(locks[x][w] >= 2)
          PROVE  \A v \in Workers : locks[x][v] < 2
      BY <1>1, <1>4, <2>1
    <2>2. ASSUME NEW o \in Orders, \A v \in Workers : locks'[o][v] < 2 PROVE ordersW'[o] = orders'[o]
      BY <1>1, <1>5, <2>1, <2>2 DEF BaseInv, Clean
    <2>3. ASSUME NEW r \in Stock, \A v \in Workers : locks'[r][v] < 2 PROVE stockW'[r] = stock'[r]
      BY <1>1, <1>5, <2>1, <2>3 DEF BaseInv, Clean
    <2> QED
      BY <2>2, <2>3 DEF Clean
  <1>7. \A v \in Workers \ {w} : Kept(v)
    <2> SUFFICES ASSUME NEW v \in Workers \ {w} PROVE RowsKept(v)
      BY <1>2, <1>3 DEF Kept
    <2>1. \A x \in Rows : locks[x][v] >= 2 => ~(locks[x][w] >= 2)
      BY <1>1 DEF BaseInv, Exclusive
    <2> QED
      BY <1>1, <1>5, <2>1 DEF RowsKept
  <1>8. Blank'
    BY <1>5 DEF BaseInv, Blank
  <1>9. WorkerOK(tx[w], Held(w))'
    BY <1>2, <1>3, IdleAfter
  <1> QED
    BY <1>2, <1>3, <1>6, <1>7, <1>8, <1>9, StepFrame DEF Idle

-----------------------------------------------------------------------------
(* What a commit publishes *)

(* The old order of an operation other than a payment: nothing, a checkout  *)
(* that overwrites it, or its end, with its units released.                 *)
KeptOrEnded(t, l, before, after) ==
    /\ after.issued = before.issued
    /\ \/ after.status = before.status
       \/ t.kind = "checkout" /\ after.status = "PENDING"
       \/ t.kind # "checkout" /\ after.status \in Ends /\ AllFreed(t, l)
OldPublished(t, l) ==
    t.kind \in EndKinds \cup {"checkout"} /\ Replaces(t) =>
        KeptOrEnded(t, l, orders[t.old], orders'[t.old])
SalePublished(t, l) ==
    IF t.kind = "create" THEN Selling(t, l) /\ orders[t.order] = NoRow /\ orders'[t.order] = NewRow
    ELSE IF Selling(t, l)
         THEN /\ orders[t.order].status = "PENDING" /\ orders'[t.order].status = "PAID"
              /\ orders'[t.order].issued = orders[t.order].issued + 1
         ELSE t.kind \in SaleKinds => orders'[t.order] = orders[t.order]
StockPublished(t, l) == \A r \in Stock : stock'[r] = MovedRow(t, l, r, stock[r])

LEMMA CommitFacts ==
    ASSUME Inv, BaseInv, NEW w \in Workers, Commit(w)
    PROVE  /\ SalePublished(tx[w], Held(w)) /\ OldPublished(tx[w], Held(w))
           /\ StockPublished(tx[w], Held(w))
           /\ \A o \in Orders \ {tx[w].order, tx[w].old} : orders'[o] = orders[o]
           /\ tx[w].kind \in AllKinds \ {"reopen"} /\ tx[w].plan = <<>>
           /\ tx[w].kind # "create" => tx[w].old = tx[w].order
           /\ Replaces(tx[w]) => orders[tx[w].old].status # "NONE"
  <1> DEFINE t == tx[w]
             l == Held(w)
             o == tx[w].order
  <1>0. tx[w].pc = "commit"
    BY DEF Commit, At
  <1>1. /\ t \in TxState /\ o \in Orders /\ t.old \in Orders /\ WorkerOK(t, l)
        /\ Orders \subseteq Rows /\ Stock \subseteq Rows
        /\ l \in [Rows -> 0..3] /\ \A r \in Rows : l[r] = locks[r][w]
    BY <1>0, Acting
  <1>2. /\ t.kind \in AllKinds \ {"reopen"} /\ t.plan = <<>> /\ ~Freeing(t)
        /\ t.kind # "create" => t.old = o
        /\ t.kind = "create" => Selling(t, l) /\ orders[o] = NoRow
        /\ Replaces(t) => orders[t.old].status # "NONE"
    BY <1>0, <1>1 DEF WorkerOK, TxShape, KindsAt, AllKinds, OrderLocks, OrderFacts, Freeing
  <1>3. /\ \A p \in Orders : orders'[p] = IF l[p] >= 2 THEN ordersW[p] ELSE orders[p]
        /\ \A r \in Stock : stock'[r] = IF l[r] >= 2 THEN stockW[r] ELSE stock[r]
    BY <1>1 DEF Commit, Publish
  <1>4. \A p \in Orders : l[p] >= 1 => p \in {o, t.old}
    BY <1>1 DEF WorkerOK, OrderLocks
  <1>5. /\ SaleWritten(t, l) /\ EndWritten(t, l) /\ StockWritten(t, l) /\ Saved(t)
    BY <1>0, <1>1 DEF WorkerOK, Saved
  <1>6. \A r \in Stock : Selling(t, l) /\ Qty[o][r] > 0 => l[r] >= 2
    <2>1. \A r : ~Asks(t.plan, r, 2)
      BY <1>2, NothingAsked
    <2> QED
      BY <1>1, <2>1 DEF WorkerOK, StockLocks
  <1> HIDE DEF t, l
  <1>7. StockPublished(t, l)
    <2> SUFFICES ASSUME NEW r \in Stock PROVE stock'[r] = MovedRow(t, l, r, stock[r])
      BY DEF StockPublished
    <2>1. CASE l[r] >= 2
      BY <1>3, <1>5, <2>1 DEF StockWritten
    <2>2. CASE ~(l[r] >= 2)
      <3>1. stock[r] \in StockRow /\ Qty[o][r] \in Nat /\ l[r] \in 0..3
        BY <1>1, InvParts, ShapeAssumption DEF RowsOK
      <3>2. Freed(t, l, r) = 0
        BY <2>2 DEF Freed
      <3>3. Taken(t, l, r) = 0
        <4>1. Selling(t, l) => Qty[o][r] = 0
          BY <1>6, <2>2, <3>1
        <4> QED
          BY <4>1 DEF Taken, t
      <3>4. stock'[r] = stock[r]
        BY <1>3, <2>2
      <3> QED
        BY <3>1, <3>2, <3>3, <3>4, RowOps DEF MovedRow
    <2> QED
      BY <2>1, <2>2
  <1>8. SalePublished(t, l)
    <2>1. CASE Selling(t, l)
      <3>1. orders'[o] = ordersW[o]
        BY <1>1, <1>3, <2>1 DEF Selling, t
      <3> QED
        BY <1>2, <1>5, <2>1, <3>1 DEF SalePublished, SaleWritten, t
    <2>2. CASE ~Selling(t, l)
      <3>1. t.kind \in SaleKinds => orders'[o] = orders[o]
        BY <1>1, <1>3, <2>2 DEF Selling, t
      <3> QED
        BY <1>2, <2>2, <3>1 DEF SalePublished, t
    <2> QED
      BY <2>1, <2>2
  <1>9. OldPublished(t, l)
    <2>1. CASE l[t.old] >= 2
      BY <1>1, <1>3, <1>5, <2>1 DEF OldPublished, EndWritten, KeptOrEnded
    <2>2. CASE ~(l[t.old] >= 2)
      BY <1>1, <1>3, <2>2 DEF OldPublished, KeptOrEnded
    <2> QED
      BY <2>1, <2>2
  <1>10. \A p \in Orders \ {o, t.old} : orders'[p] = orders[p]
    BY <1>1, <1>3, <1>4
  <1> QED
    BY <1>2, <1>7, <1>8, <1>9, <1>10 DEF t, l

LEMMA CommitOK == ASSUME Inv, Inv', BaseInv, NEW w \in Workers, Commit(w) PROVE BaseInv'
  <1> DEFINE t == tx[w]
             l == Held(w)
  <1>1. /\ Orders \subseteq Rows /\ Stock \subseteq Rows /\ Orders \cap Stock = {}
        /\ locks \in [Rows -> [Workers -> 0..3]]
        /\ \A r \in Rows : Held(w)[r] = locks[r][w]
    BY InvParts, ShapeAssumption DEF LocksOK, Rows, Held
  <1>2. tx'[w] = Idle /\ \A v \in Workers \ {w} : tx'[v] = tx[v]
    BY SetTx DEF Commit
  <1>3. /\ Exclusive' /\ \A r \in Rows : Held(w)'[r] = 0
        /\ \A v \in Workers \ {w} : Held(v)' = Held(v)
    BY ReleaseFacts DEF Commit, BaseInv
  <1>4. \A r \in Rows, v \in Workers : locks'[r][v] = IF v = w THEN 0 ELSE locks[r][v]
    BY <1>1 DEF Commit, ReleaseLocks
  <1>5. /\ \A o \in Orders : orders'[o] = IF locks[o][w] >= 2 THEN ordersW[o] ELSE orders[o]
        /\ \A r \in Stock : stock'[r] = IF locks[r][w] >= 2 THEN stockW[r] ELSE stock[r]
        /\ UNCHANGED <<ordersW, stockW>>
    BY DEF Commit, Publish
  <1>6. Clean'
    <2>1. ASSUME NEW x \in Rows, \A v \in Workers : locks'[x][v] < 2, ~(locks[x][w] >= 2)
          PROVE  \A v \in Workers : locks[x][v] < 2
      BY <1>1, <1>4, <2>1
    <2>2. ASSUME NEW o \in Orders, \A v \in Workers : locks'[o][v] < 2 PROVE ordersW'[o] = orders'[o]
      BY <1>1, <1>5, <2>1, <2>2 DEF BaseInv, Clean
    <2>3. ASSUME NEW r \in Stock, \A v \in Workers : locks'[r][v] < 2 PROVE stockW'[r] = stock'[r]
      BY <1>1, <1>5, <2>1, <2>3 DEF BaseInv, Clean
    <2> QED
      BY <2>2, <2>3 DEF Clean
  <1>7. \A o \in Orders : orders'[o].status = "NONE" =>
            orders[o].status = "NONE" /\ orders'[o] = orders[o]
    <2> SUFFICES ASSUME NEW o \in Orders, orders'[o].status = "NONE" PROVE orders'[o] = orders[o]
      OBVIOUS
    <2>1. /\ SalePublished(t, l) /\ OldPublished(t, l)
          /\ \A p \in Orders \ {t.order, t.old} : orders'[p] = orders[p]
          /\ t.kind \in AllKinds \ {"reopen"}
          /\ t.kind # "create" => t.old = t.order
          /\ Replaces(t) => orders[t.old].status # "NONE"
      BY CommitFacts
    <2> HIDE DEF t, l
    <2>2. t.kind = "create" => orders'[t.order].status = "PENDING"
      BY <2>1 DEF SalePublished, NewRow, NoRow
    <2>3. t.kind \in {"pay", "manual"} => orders'[t.order].status = "PAID" \/ orders'[t.order] = orders[t.order]
      BY <2>1 DEF SalePublished, SaleKinds
    <2>4. t.kind \in EndKinds \cup {"checkout"} /\ Replaces(t) => orders'[t.old].status # "NONE"
      BY <2>1 DEF OldPublished, KeptOrEnded, Ends
    <2> QED
      BY <2>1, <2>2, <2>3, <2>4 DEF AllKinds, EndKinds, Replaces
  <1>8. \A v \in Workers \ {w} : Kept(v)
    <2> SUFFICES ASSUME NEW v \in Workers \ {w} PROVE RowsKept(v)
      BY <1>2, <1>3 DEF Kept
    <2>1. \A x \in Rows : locks[x][v] >= 2 => ~(locks[x][w] >= 2)
      BY <1>1 DEF BaseInv, Exclusive
    <2>2. tx[v].kind = "create" => orders'[tx[v].order] = orders[tx[v].order]
      BY <1>5, NewOrderUntouched
    <2> QED
      BY <1>1, <1>5, <1>7, <2>1, <2>2 DEF RowsKept
  <1>9. Blank'
    BY <1>7 DEF BaseInv, Blank
  <1>10. WorkerOK(tx[w], Held(w))'
    BY <1>2, <1>3, IdleAfter
  <1> QED
    BY <1>2, <1>3, <1>6, <1>8, <1>9, <1>10, StepFrame DEF Idle

-----------------------------------------------------------------------------
LEMMA InitBase == Init => BaseInv
  <1> SUFFICES ASSUME Init PROVE BaseInv
    OBVIOUS
  <1>1. /\ \A r \in Rows, w \in Workers : locks[r][w] = 0
        /\ \A w \in Workers : tx[w] = Idle
        /\ ordersW = orders /\ stockW = stock
        /\ \A o \in Orders : orders[o] = NoRow
    BY DEF Init
  <1>2. \A w \in Workers : WorkerOK(tx[w], Held(w))
    BY <1>1, IdleOK DEF Held
  <1> QED
    BY <1>1, <1>2 DEF BaseInv, Exclusive, Clean, OneCreate, Blank, Idle

LEMMA StepOK == ASSUME Inv, Inv', BaseInv, NEW w \in Workers, Step(w) PROVE BaseInv'
  <1>1. CASE ReadFresh(w)
    BY <1>1, ReadFreshOK
  <1>2. CASE LockOrder(w)
    BY <1>2, LockOrderOK
  <1>3. CASE InsertManual(w)
    BY <1>3, InsertManualOK
  <1>4. CASE Claim(w)
    BY <1>4, ClaimOK
  <1>5. CASE LoseClaim(w)
    BY <1>5, LosesClaim, AbortOK
  <1>6. CASE Insert(w)
    BY <1>6, InsertsOK, AbortOK
  <1>7. CASE TouchStock(w)
    BY <1>7, TouchesOK, AbortOK
  <1>8. CASE SaveSelect(w)
    BY <1>8, SaveSelectOK
  <1>9. CASE SaveUpdate(w)
    BY <1>9, SaveUpdateOK
  <1>10. CASE Reopen(w)
    BY <1>10, ReopenOK
  <1>11. CASE Commit(w)
    BY <1>11, CommitOK
  <1>12. CASE DeadlockVictim(w)
    BY <1>12, AbortOK DEF DeadlockVictim
  <1> QED
    BY <1>1, <1>2, <1>3, <1>4, <1>5, <1>6, <1>7, <1>8, <1>9, <1>10, <1>11, <1>12 DEF Step

LEMMA BaseNext == ASSUME Inv, Inv', BaseInv, [Next]_vars PROVE BaseInv'
  <1>1. CASE UNCHANGED vars
    <2>1. UNCHANGED <<orders, ordersW, stock, stockW, locks, tx>>
      BY <1>1 DEF vars
    <2>2. \A v \in Workers : Held(v)' = Held(v)
      BY <2>1 DEF Held
    <2>3. \A v \in Workers : Kept(v)
      BY <2>1, <2>2 DEF Kept, RowsKept
    <2>4. \A v \in Workers : WorkerOK(tx[v], Held(v))'
      BY <2>3, Frame DEF BaseInv
    <2>5. Exclusive' /\ Clean' /\ OneCreate' /\ Blank'
      BY <2>1 DEF BaseInv, Exclusive, Clean, OneCreate, Blank
    <2> QED
      BY <2>4, <2>5 DEF BaseInv
  <1>2. ASSUME NEW w \in Workers, Begin(w) \/ Step(w) \/ ChargeCreated(w) \/ Rollback(w)
        PROVE  BaseInv'
    BY <1>2, BeginOK, StepOK, ChargeCreatedOK, AbortOK DEF Rollback
  <1>3. ASSUME NEW o \in Orders, Lapse(o) PROVE BaseInv'
    BY <1>3, LapseOK
  <1> QED
    BY <1>1, <1>2, <1>3 DEF Next

-----------------------------------------------------------------------------
(* Units of sets of orders *)

LEMMA SameCounting ==
    /\ \A S : Ledger!IsFiniteSet(S) <=> IsFiniteSet(S)
    /\ \A S : Ledger!Cardinality(S) = Cardinality(S)
    /\ Ledger!Stock = Stock /\ Ledger!LedgerConstants
  <1>1. ASSUME NEW S PROVE Ledger!IsFiniteSet(S) <=> IsFiniteSet(S)
    BY DEF IsFiniteSet, Ledger!IsFiniteSet
  <1>2. ASSUME NEW S PROVE Ledger!Cardinality(S) = Cardinality(S)
    BY DEF Cardinality, Ledger!Cardinality
  <1>3. Ledger!Stock = Stock
    BY DEF Ledger!Stock, Stock
  <1>4. Ledger!LedgerConstants
    BY <1>3, ShapeAssumption DEF Ledger!LedgerConstants
  <1> QED
    BY <1>1, <1>2, <1>3, <1>4

Finite(S, r) == IsFiniteSet(Ledger!Units(S, r))

LEMMA UnitsOfUnits == \A S, r : UnitsOf(S, r) = Cardinality(Ledger!Units(S, r))
  BY DEF UnitsOf, Ledger!Units

(* Adding an order to a set of orders adds exactly its quantity of units.   *)
LEMMA UnitsPlus ==
    ASSUME NEW S, NEW o \in Orders, o \notin S, NEW r \in Stock, Finite(S, r)
    PROVE  /\ Finite(S \cup {o}, r) /\ UnitsOf(S, r) \in Nat /\ Qty[o][r] \in Nat
           /\ UnitsOf(S \cup {o}, r) = UnitsOf(S, r) + Qty[o][r]
  <1> DEFINE U == Ledger!Units(S, r)
             V == {o} \X (1..Qty[o][r])
  <1>1. Qty[o][r] \in Nat
    BY ShapeAssumption
  <1>2. IsFiniteSet(1..Qty[o][r]) /\ Cardinality(1..Qty[o][r]) = Qty[o][r]
    <2>1. 1 \in Int /\ Qty[o][r] \in Int
      BY <1>1
    <2>2. /\ IsFiniteSet(1..Qty[o][r])
          /\ Cardinality(1..Qty[o][r]) = IF 1 > Qty[o][r] THEN 0 ELSE Qty[o][r] - 1 + 1
      BY <2>1, FS_Interval
    <2> QED
      BY <1>1, <2>2
  <1>3. IsFiniteSet({o}) /\ Cardinality({o}) = 1
    BY FS_Singleton
  <1>4. IsFiniteSet(V) /\ Cardinality(V) = Cardinality({o}) * Cardinality(1..Qty[o][r])
    BY <1>2, <1>3, FS_Product
  <1>5. Cardinality(V) = Qty[o][r]
    BY <1>1, <1>2, <1>3, <1>4
  <1>6. IsFiniteSet(U) /\ U \cap V = {} /\ Ledger!Units(S \cup {o}, r) = U \cup V
    BY DEF Finite, Ledger!Units
  <1>7. /\ IsFiniteSet(U \cup V)
        /\ Cardinality(U \cup V) = Cardinality(U) + Cardinality(V) - Cardinality(U \cap V)
    BY <1>4, <1>6, FS_Union
  <1>8. Cardinality(U \cap V) = 0 /\ Cardinality(U) \in Nat
    BY <1>6, FS_EmptySet, FS_CardinalityType
  <1>9. Cardinality(U \cup V) = Cardinality(U) + Qty[o][r]
    <2> HIDE DEF U, V
    <2> QED
      BY <1>1, <1>5, <1>7, <1>8
  <1> QED
    BY <1>1, <1>6, <1>7, <1>8, <1>9, UnitsOfUnits DEF Finite

(* Removing an order of the set takes exactly its quantity away.            *)
LEMMA UnitsMinus ==
    ASSUME NEW S, NEW o \in Orders, o \in S, NEW r \in Stock, Finite(S, r)
    PROVE  /\ Finite(S \ {o}, r) /\ UnitsOf(S \ {o}, r) \in Nat /\ Qty[o][r] \in Nat
           /\ UnitsOf(S \ {o}, r) + Qty[o][r] = UnitsOf(S, r)
  <1> DEFINE T == S \ {o}
  <1>1. Ledger!Units(T, r) \subseteq Ledger!Units(S, r)
    BY DEF Ledger!Units
  <1>2. Finite(T, r)
    BY <1>1, FS_Subset DEF Finite
  <1>3. T \cup {o} = S /\ o \notin T
    OBVIOUS
  <1> HIDE DEF T
  <1>4. /\ UnitsOf(S, r) = UnitsOf(T, r) + Qty[o][r]
        /\ UnitsOf(T, r) \in Nat /\ Qty[o][r] \in Nat
    BY <1>2, <1>3, UnitsPlus
  <1> QED
    BY <1>2, <1>4 DEF T

(* A counter that stays below the units of a set of orders.                 *)
Below(n, S, r) == n \in Nat /\ Finite(S, r) /\ n <= UnitsOf(S, r)

LEMMA BelowPlus ==
    ASSUME NEW S, NEW o \in Orders, o \notin S, NEW r \in Stock, NEW n, Below(n, S, r)
    PROVE  Below(n + Qty[o][r], S \cup {o}, r)
  BY UnitsPlus DEF Below

LEMMA BelowMinus ==
    ASSUME NEW S, NEW o \in Orders, NEW r \in Stock, NEW n, Below(n, S, r)
    PROVE  Below(Less(n, Qty[o][r]), S \ {o}, r)
  <1>1. n \in Nat /\ Qty[o][r] \in Nat /\ UnitsOf(S, r) \in Nat
    BY ShapeAssumption, UnitsOfUnits, FS_CardinalityType DEF Below, Finite
  <1>2. CASE o \in S
    <2>1. /\ Finite(S \ {o}, r) /\ UnitsOf(S \ {o}, r) \in Nat
          /\ UnitsOf(S \ {o}, r) + Qty[o][r] = UnitsOf(S, r) /\ n <= UnitsOf(S, r)
      BY <1>2, UnitsMinus DEF Below
    <2>2. Less(n, Qty[o][r]) \in Nat /\ Less(n, Qty[o][r]) <= UnitsOf(S \ {o}, r)
      BY <1>1, <2>1 DEF Less
    <2> QED
      BY <2>1, <2>2 DEF Below
  <1>3. CASE o \notin S
    <2>1. S \ {o} = S
      BY <1>3
    <2> QED
      BY <1>1, <2>1 DEF Below, Less
  <1> QED
    BY <1>2, <1>3

LEMMA BelowMore ==
    ASSUME NEW S, NEW o \in Orders, NEW r \in Stock, NEW n, NEW k \in Nat, Below(n, S, r)
    PROVE  Below(Less(n, k), S, r) /\ Below(n, S \cup {o}, r)
  <1>1. n \in Nat /\ UnitsOf(S, r) \in Nat
    BY UnitsOfUnits, FS_CardinalityType DEF Below, Finite
  <1>2. Below(Less(n, k), S, r)
    BY <1>1 DEF Below, Less
  <1>3. CASE o \notin S
    <2>1. /\ Finite(S \cup {o}, r) /\ Qty[o][r] \in Nat /\ n <= UnitsOf(S, r)
          /\ UnitsOf(S \cup {o}, r) = UnitsOf(S, r) + Qty[o][r]
      BY <1>3, UnitsPlus DEF Below
    <2> QED
      BY <1>1, <1>2, <2>1 DEF Below
  <1>4. CASE o \in S
    <2>1. S \cup {o} = S
      BY <1>4
    <2> QED
      BY <1>2, <2>1
  <1> QED
    BY <1>2, <1>3, <1>4

-----------------------------------------------------------------------------
(* Committed rows change by a commit or by the reopening script alone       *)

LEMMA AbortSilent == ASSUME NEW w \in Workers, Abort(w) PROVE UNCHANGED <<orders, stock>>
  BY DEF Abort, Discard

LEMMA WhoPublishes ==
    ASSUME [Next]_vars
    PROVE  \/ UNCHANGED <<orders, stock>>
           \/ \E w \in Workers : Commit(w)
           \/ \E w \in Workers : Reopen(w)
  <1>1. CASE UNCHANGED vars
    BY <1>1 DEF vars
  <1>2. ASSUME NEW w \in Workers, Begin(w) PROVE UNCHANGED <<orders, stock>>
    BY <1>2 DEF Begin, BeginCheckout, BeginCreate, BeginPay, BeginManual, BeginExpire, BeginCancel,
                BeginReopen, Start, rows
  <1>3. ASSUME NEW w \in Workers, Step(w)
        PROVE  UNCHANGED <<orders, stock>> \/ Commit(w) \/ Reopen(w)
    <2>1. CASE ReadFresh(w) \/ LockOrder(w) \/ InsertManual(w) \/ Claim(w) \/ SaveSelect(w) \/ SaveUpdate(w)
      BY <2>1 DEF ReadFresh, LockOrder, InsertManual, Claim, SaveSelect, SaveUpdate, rows
    <2>2. CASE LoseClaim(w) \/ Insert(w) \/ TouchStock(w) \/ DeadlockVictim(w)
      BY <2>2, AbortSilent DEF LoseClaim, Insert, TouchStock, DeadlockVictim, rows
    <2> QED
      BY <1>3, <2>1, <2>2 DEF Step
  <1>4. ASSUME NEW w \in Workers, ChargeCreated(w) \/ Rollback(w) PROVE UNCHANGED <<orders, stock>>
    BY <1>4, AbortSilent DEF ChargeCreated, Rollback, rows
  <1>5. ASSUME NEW o \in Orders, Lapse(o) PROVE UNCHANGED <<orders, stock>>
    BY <1>5 DEF Lapse, rows
  <1> QED
    BY <1>1, <1>2, <1>3, <1>4, <1>5 DEF Next

LEMMA ReopenFacts ==
    ASSUME Inv, BaseInv, NEW w \in Workers, Reopen(w)
    PROVE  /\ UNCHANGED stock
           /\ \/ UNCHANGED orders
              \/ /\ tx[w].order \in Orders /\ orders[tx[w].order].status = "EXPIRED"
                 /\ orders'[tx[w].order].status = "PENDING"
                 /\ \A o \in Orders : orders'[o].issued = orders[o].issued
                 /\ \A o \in Orders \ {tx[w].order} : orders'[o] = orders[o]
  <1>1. tx[w].order \in Orders /\ orders[tx[w].order] \in OrderRow
    BY Acting, InvParts DEF Reopen, At, RowsOK
  <1> QED
    BY <1>1, InvParts DEF Reopen, RowsOK, OrderRow

LEMMA CommitTyped ==
    ASSUME Inv, BaseInv, NEW w \in Workers, Commit(w)
    PROVE  /\ tx[w].order \in Orders /\ tx[w].old \in Orders
           /\ \A r \in Stock : /\ stock[r] \in StockRow
                               /\ Freed(tx[w], Held(w), r) \in Nat /\ Taken(tx[w], Held(w), r) \in Nat
                               /\ Qty[tx[w].order][r] \in Nat /\ Qty[tx[w].old][r] \in Nat
           /\ \A r \in Stock : Taken(tx[w], Held(w), r)
                               = IF Selling(tx[w], Held(w)) THEN Qty[tx[w].order][r] ELSE 0
           /\ AllFreed(tx[w], Held(w)) =>
                \A r \in Stock : Freed(tx[w], Held(w), r) = Qty[tx[w].old][r]
  <1>1. tx[w].order \in Orders /\ tx[w].old \in Orders
    BY Acting DEF Commit, At
  <1>2. \A r \in Stock : /\ stock[r] \in StockRow
                         /\ Qty[tx[w].order][r] \in Nat /\ Qty[tx[w].old][r] \in Nat
    BY <1>1, InvParts, ShapeAssumption DEF RowsOK
  <1>3. \A r, k : ~Asks(tx[w].plan, r, k)
    BY CommitFacts, NothingAsked
  <1>4. \A r \in Stock : Taken(tx[w], Held(w), r)
                         = IF Selling(tx[w], Held(w)) THEN Qty[tx[w].order][r] ELSE 0
    BY <1>3 DEF Taken
  <1>5. \A r \in Stock : Freed(tx[w], Held(w), r) \in Nat /\ Taken(tx[w], Held(w), r) \in Nat
    BY <1>2, <1>4 DEF Freed
  <1>6. ASSUME AllFreed(tx[w], Held(w)), NEW r \in Stock
        PROVE  Freed(tx[w], Held(w), r) = Qty[tx[w].old][r]
    BY <1>2, <1>6 DEF AllFreed, Freed
  <1> QED
    BY <1>1, <1>2, <1>4, <1>5, <1>6

-----------------------------------------------------------------------------
(* Sold is what was issued *)

SoldInv == \A r \in Stock : /\ IsFiniteSet(IssuedUnits(r))
                            /\ stock[r].sold = Cardinality(IssuedUnits(r))

LEMMA IssuedOneMore ==
    ASSUME Inv, Inv', NEW o \in Orders, orders'[o].issued = orders[o].issued + 1,
           \A p \in Orders \ {o} : orders'[p].issued = orders[p].issued,
           NEW r \in Stock, IsFiniteSet(IssuedUnits(r))
    PROVE  /\ IsFiniteSet(IssuedUnits(r)')
           /\ Cardinality(IssuedUnits(r)') = Cardinality(IssuedUnits(r)) + Qty[o][r]
  <1> DEFINE n == orders[o].issued
             q == Qty[o][r]
             U == IssuedUnits(r)
             V == {o} \X ({n + 1} \X (1..q))
  <1>1. q \in Nat /\ n \in Nat
    BY ShapeAssumption, InvParts DEF RowsOK, OrderRow
  <1>2. IsFiniteSet(1..q) /\ Cardinality(1..q) = q
    <2>1. 1 \in Int /\ q \in Int
      BY <1>1
    <2>2. IsFiniteSet(1..q) /\ Cardinality(1..q) = IF 1 > q THEN 0 ELSE q - 1 + 1
      BY <2>1, FS_Interval
    <2> QED
      BY <1>1, <2>2
  <1>3. IsFiniteSet({o}) /\ Cardinality({o}) = 1 /\ IsFiniteSet({n + 1}) /\ Cardinality({n + 1}) = 1
    BY FS_Singleton
  <1>4. IsFiniteSet(V) /\ Cardinality(V) = q
    <2> DEFINE W == {n + 1} \X (1..q)
    <2>0. IsFiniteSet(W) /\ Cardinality(W) = Cardinality({n + 1}) * Cardinality(1..q)
      BY <1>2, <1>3, FS_Product
    <2>1. IsFiniteSet(W) /\ Cardinality(W) = 1 * q
      BY <1>2, <1>3, <2>0
    <2> HIDE DEF W
    <2>2. IsFiniteSet({o} \X W) /\ Cardinality({o} \X W) = Cardinality({o}) * Cardinality(W)
      BY <1>3, <2>1, FS_Product
    <2>3. Cardinality({o} \X W) = q
      BY <1>1, <1>3, <2>1, <2>2
    <2> QED
      BY <2>2, <2>3 DEF W
  <1>5. IssuedUnits(r)' = U \cup V
    <2> DEFINE Row(p, k) == {p} \X ((1..k) \X (1..Qty[p][r]))
    <2>1. U = UNION {Row(p, orders[p].issued) : p \in Orders}
      BY DEF IssuedUnits
    <2>2. IssuedUnits(r)' = UNION {Row(p, orders'[p].issued) : p \in Orders}
      BY DEF IssuedUnits
    <2>3. Row(o, n + 1) = Row(o, n) \cup V
      <3>1. 1..(n + 1) = (1..n) \cup {n + 1}
        BY <1>1
      <3> QED
        BY <3>1
    <2>4. \A p \in Orders \ {o} : Row(p, orders'[p].issued) = Row(p, orders[p].issued)
      OBVIOUS
    <2>5. Row(o, orders'[o].issued) = Row(o, orders[o].issued) \cup V
      BY <2>3
    <2> HIDE DEF Row, V, U
    <2> QED
      BY <2>1, <2>2, <2>4, <2>5
  <1>6. U \cap V = {}
    <2>1. ASSUME NEW x \in V PROVE x \notin U
      <3>1. x[1] = o /\ x[2][1] = n + 1
        BY <2>1
      <3>2. ASSUME x \in U PROVE x[2][1] \in 1..n
        BY <3>1, <3>2 DEF IssuedUnits
      <3> QED
        BY <1>1, <3>1, <3>2
    <2> QED
      BY <2>1
  <1>7. /\ IsFiniteSet(U \cup V)
        /\ Cardinality(U \cup V) = Cardinality(U) + Cardinality(V) - Cardinality(U \cap V)
    BY <1>4, FS_Union
  <1>8. Cardinality(U \cap V) = 0 /\ Cardinality(U) \in Nat
    BY <1>6, FS_EmptySet, FS_CardinalityType
  <1> HIDE DEF U, V, q
  <1>9. Cardinality(U \cup V) = Cardinality(U) + q
    BY <1>1, <1>4, <1>7, <1>8
  <1> QED
    BY <1>5, <1>7, <1>9 DEF U, q

LEMMA SoldSame ==
    ASSUME SoldInv, \A o \in Orders : orders'[o].issued = orders[o].issued,
           \A r \in Stock : stock'[r].sold = stock[r].sold
    PROVE  SoldInv'
  <1>1. \A r \in Stock : IssuedUnits(r)' = IssuedUnits(r)
    BY DEF IssuedUnits
  <1> QED
    BY <1>1 DEF SoldInv

LEMMA CommitSold ==
    ASSUME Inv, Inv', BaseInv, SoldInv, NEW w \in Workers, Commit(w) PROVE SoldInv'
  <1> DEFINE t == tx[w]
             l == Held(w)
             o == tx[w].order
  <1>1. /\ o \in Orders /\ t.old \in Orders
        /\ \A r \in Stock : /\ stock[r] \in StockRow /\ Freed(t, l, r) \in Nat /\ Taken(t, l, r) \in Nat
                            /\ Taken(t, l, r) = IF Selling(t, l) THEN Qty[o][r] ELSE 0
    BY CommitTyped
  <1>2. /\ SalePublished(t, l) /\ OldPublished(t, l)
        /\ \A r \in Stock : stock'[r] = MovedRow(t, l, r, stock[r])
        /\ \A p \in Orders \ {o, t.old} : orders'[p] = orders[p]
        /\ t.kind \in AllKinds \ {"reopen"}
        /\ t.kind # "create" => t.old = o
    BY CommitFacts DEF StockPublished
  <1> HIDE DEF t, l
  <1>3. CASE t.kind \in {"pay", "manual"} /\ Selling(t, l)
    <2>1. orders'[o].issued = orders[o].issued + 1 /\ \A p \in Orders \ {o} : orders'[p].issued = orders[p].issued
      BY <1>2, <1>3 DEF SalePublished, t
    <2> SUFFICES ASSUME NEW r \in Stock
                 PROVE  /\ IsFiniteSet(IssuedUnits(r)') /\ stock'[r].sold = Cardinality(IssuedUnits(r)')
      BY DEF SoldInv
    <2>2. /\ IsFiniteSet(IssuedUnits(r)')
          /\ Cardinality(IssuedUnits(r)') = Cardinality(IssuedUnits(r)) + Qty[o][r]
      BY <1>1, <2>1, IssuedOneMore DEF SoldInv
    <2>3. stock'[r].sold = stock[r].sold + Qty[o][r]
      <3>1. stock'[r] = Sold(stock[r], Taken(t, l, r))
        BY <1>2, <1>3 DEF MovedRow
      <3>2. Taken(t, l, r) = Qty[o][r]
        BY <1>1, <1>3
      <3> QED
        BY <3>1, <3>2 DEF Sold
    <2> QED
      BY <2>2, <2>3 DEF SoldInv
  <1>4. CASE ~(t.kind \in {"pay", "manual"} /\ Selling(t, l))
    <2>1. \A r \in Stock : stock'[r].sold = stock[r].sold
      <3> SUFFICES ASSUME NEW r \in Stock PROVE stock'[r].sold = stock[r].sold
        OBVIOUS
      <3>1. stock[r] \in StockRow /\ Freed(t, l, r) \in Nat /\ Taken(t, l, r) \in Nat
        BY <1>1
      <3>2. CASE t.kind \in {"pay", "manual"}
        <4>1. stock'[r] = Sold(stock[r], Taken(t, l, r))
          BY <1>2, <3>2 DEF MovedRow
        <4>2. Taken(t, l, r) = 0
          BY <1>1, <1>4, <3>2
        <4> QED
          BY <3>1, <4>1, <4>2 DEF Sold, StockRow
      <3>3. CASE t.kind \notin {"pay", "manual"}
        <4>1. stock'[r] = Reserved(Released(stock[r], Freed(t, l, r)), Taken(t, l, r))
          BY <1>2, <3>3 DEF MovedRow
        <4> QED
          BY <3>1, <4>1 DEF Reserved, Released, StockRow
      <3> QED
        BY <3>2, <3>3
    <2>2. t.kind = "create" => orders'[o].issued = orders[o].issued
      BY <1>2 DEF SalePublished, NewRow, NoRow, t
    <2>3. t.kind \in {"pay", "manual"} => orders'[o].issued = orders[o].issued
      BY <1>2, <1>4 DEF SalePublished, SaleKinds, t
    <2>4. t.kind \in EndKinds \cup {"checkout"} /\ Replaces(t) => orders'[t.old].issued = orders[t.old].issued
      BY <1>2 DEF OldPublished, KeptOrEnded
    <2>5. \A p \in Orders : orders'[p].issued = orders[p].issued
      BY <1>2, <2>2, <2>3, <2>4 DEF AllKinds, EndKinds, Replaces, t
    <2> QED
      BY <2>1, <2>5, SoldSame
  <1> QED
    BY <1>3, <1>4

LEMMA InitSold == Init => SoldInv
  <1> SUFFICES ASSUME Init, NEW r \in Stock
               PROVE  IsFiniteSet(IssuedUnits(r)) /\ stock[r].sold = Cardinality(IssuedUnits(r))
    BY DEF SoldInv
  <1>1. IssuedUnits(r) = {}
    <2>1. \A o \in Orders : 1..orders[o].issued = {}
      BY DEF Init, NoRow
    <2> QED
      BY <2>1 DEF IssuedUnits
  <1> QED
    BY <1>1, FS_EmptySet DEF Init

LEMMA SoldNext == ASSUME Inv, Inv', BaseInv, SoldInv, [Next]_vars PROVE SoldInv'
  <1>1. CASE UNCHANGED <<orders, stock>>
    BY <1>1, SoldSame
  <1>2. ASSUME NEW w \in Workers, Commit(w) PROVE SoldInv'
    BY <1>2, CommitSold
  <1>3. ASSUME NEW w \in Workers, Reopen(w) PROVE SoldInv'
    <2>1. /\ UNCHANGED stock
          /\ \A o \in Orders : orders'[o].issued = orders[o].issued
      BY <1>3, ReopenFacts
    <2> QED
      BY <2>1, SoldSame
  <1> QED
    BY <1>1, <1>2, <1>3, WhoPublishes

(* What is counted as sold is what was issued, for any number of concurrent *)
(* requests: a confirmation's claim, tickets and stock move are one commit. *)
THEOREM SoldIsIssued == Spec => []SoldMatchesIssued
  <1>1. Spec => []Inv
    BY InitInv, NextInv, PTL DEF Spec
  <1>2. Init => BaseInv /\ SoldInv
    BY InitBase, InitSold
  <1>3. Inv /\ Inv' /\ BaseInv /\ SoldInv /\ [Next]_vars => BaseInv' /\ SoldInv'
    BY BaseNext, SoldNext
  <1>4. SoldInv => SoldMatchesIssued
    BY DEF SoldInv, SoldMatchesIssued
  <1> QED
    BY <1>1, <1>2, <1>3, <1>4, PTL DEF Spec

-----------------------------------------------------------------------------
(* Reserved stays below the units of the pending orders                     *)

Pending == InStatus({"PENDING"})
HoldInv == \A r \in Stock : Below(stock[r].reserved, Pending, r)

(* Where the status of one order alone changes, or of none.                 *)
LEMMA PendingMoves ==
    ASSUME NEW o \in Orders, \A p \in Orders \ {o} : orders'[p].status = orders[p].status
    PROVE  /\ orders'[o].status = "PENDING" => Pending' = Pending \cup {o}
           /\ orders'[o].status # "PENDING" => Pending' = Pending \ {o}
           /\ orders'[o].status = orders[o].status => Pending' = Pending
  BY DEF Pending, InStatus

(* Any two orders at once: the old one of a create, and the new one.        *)
LEMMA PendingSwaps ==
    ASSUME NEW o \in Orders, NEW p \in Orders, o # p,
           \A q \in Orders \ {o, p} : orders'[q].status = orders[q].status,
           orders'[o].status = "PENDING", orders[o].status # "PENDING"
    PROVE  /\ o \notin Pending
           /\ orders'[p].status = orders[p].status => Pending' = Pending \cup {o}
           /\ orders'[p].status # "PENDING" => Pending' = (Pending \ {p}) \cup {o}
  BY DEF Pending, InStatus

LEMMA CommitHold ==
    ASSUME Inv, Inv', BaseInv, HoldInv, NEW w \in Workers, Commit(w), NEW r \in Stock
    PROVE  Below(stock'[r].reserved, Pending', r)
  <1> DEFINE t == tx[w]
             l == Held(w)
             o == tx[w].order
             p == tx[w].old
             n == stock[r].reserved
             f == Freed(t, l, r)
  <1>1. /\ o \in Orders /\ p \in Orders /\ stock[r] \in StockRow
        /\ f \in Nat /\ Taken(t, l, r) \in Nat
        /\ Qty[o][r] \in Nat /\ Qty[p][r] \in Nat
        /\ Taken(t, l, r) = IF Selling(t, l) THEN Qty[o][r] ELSE 0
        /\ AllFreed(t, l) => f = Qty[p][r]
    BY CommitTyped
  <1>2. /\ SalePublished(t, l) /\ OldPublished(t, l)
        /\ stock'[r] = MovedRow(t, l, r, stock[r])
        /\ \A q \in Orders \ {o, p} : orders'[q] = orders[q]
        /\ t.kind \in AllKinds \ {"reopen"}
        /\ t.kind # "create" => p = o
    BY CommitFacts DEF StockPublished
  <1>3. n \in Nat /\ Below(n, Pending, r)
    BY <1>1 DEF HoldInv, StockRow
  <1>4. CASE t.kind \in {"pay", "manual"}
    <2>1. stock'[r] = Sold(stock[r], Taken(t, l, r))
      BY <1>2, <1>4 DEF MovedRow
    <2>2. stock'[r].reserved = Less(n, Taken(t, l, r))
      BY <2>1 DEF Sold
    <2>3. CASE Selling(t, l)
      <3>1. orders'[o].status = "PAID" /\ \A q \in Orders \ {o} : orders'[q].status = orders[q].status
        BY <1>2, <1>4, <2>3 DEF SalePublished
      <3>2. Pending' = Pending \ {o}
        BY <1>1, <3>1, PendingMoves
      <3>3. Taken(t, l, r) = Qty[o][r]
        BY <1>1, <2>3
      <3> HIDE DEF t, l, o, n
      <3> QED
        BY <1>1, <1>3, <2>2, <3>2, <3>3, BelowMinus
    <2>4. CASE ~Selling(t, l)
      <3>1. \A q \in Orders : orders'[q].status = orders[q].status
        BY <1>2, <1>4, <2>4 DEF SalePublished, SaleKinds
      <3>2. Pending' = Pending
        BY <3>1 DEF Pending, InStatus
      <3>3. stock'[r].reserved = n
        BY <1>1, <1>3, <2>2, <2>4 DEF Less
      <3> QED
        BY <1>3, <3>2, <3>3
    <2> QED
      BY <2>3, <2>4
  <1>5. t.kind \notin {"pay", "manual"} => stock'[r].reserved = Less(n, f) + Taken(t, l, r)
    <2>1. t.kind \notin {"pay", "manual"} => stock'[r] = Reserved(Released(stock[r], f), Taken(t, l, r))
      BY <1>2 DEF MovedRow
    <2> QED
      BY <1>1, <2>1 DEF Reserved, Released, StockRow
  <1>6. Below(Less(n, f), Pending, r) /\ (AllFreed(t, l) => Below(Less(n, f), Pending \ {p}, r))
    <2> HIDE DEF t, l, o, p, n, f
    <2> QED
      BY <1>1, <1>3, BelowMore, BelowMinus
  <1>7. CASE t.kind = "create"
    <2>1. /\ Selling(t, l) /\ orders[o].status # "PENDING" /\ orders'[o].status = "PENDING"
          /\ o \notin Pending
      BY <1>2, <1>7 DEF SalePublished, NoRow, NewRow, Pending, InStatus
    <2>2. stock'[r].reserved = Less(n, f) + Qty[o][r]
      BY <1>1, <1>5, <1>7, <2>1
    <2>3. CASE p = o
      <3>1. Pending' = Pending \cup {o}
        BY <1>1, <1>2, <2>1, <2>3, PendingMoves
      <3> HIDE DEF t, l, o, p, n, f
      <3>2. Below(Less(n, f) + Qty[o][r], Pending \cup {o}, r)
        BY <1>1, <1>6, <2>1, BelowPlus
      <3> QED
        BY <2>2, <3>1, <3>2
    <2>4. CASE p # o
      <3>1. KeptOrEnded(t, l, orders[p], orders'[p])
        BY <1>2, <1>7, <2>4 DEF OldPublished, Replaces, EndKinds
      <3>2. \/ orders'[p].status = orders[p].status
            \/ orders'[p].status # "PENDING" /\ AllFreed(t, l)
        BY <1>7, <3>1 DEF KeptOrEnded, Ends
      <3>3. /\ orders'[p].status = orders[p].status => Pending' = Pending \cup {o}
            /\ orders'[p].status # "PENDING" => Pending' = (Pending \ {p}) \cup {o}
        BY <1>1, <1>2, <2>1, <2>4, PendingSwaps
      <3> HIDE DEF t, l, o, p, n, f
      <3>4. CASE Pending' = Pending \cup {o}
        <4>1. Below(Less(n, f) + Qty[o][r], Pending \cup {o}, r)
          BY <1>1, <1>6, <2>1, BelowPlus
        <4> QED
          BY <2>2, <3>4, <4>1
      <3>5. CASE AllFreed(t, l) /\ Pending' = (Pending \ {p}) \cup {o}
        BY <1>1, <1>6, <2>1, <2>2, <3>5, BelowPlus
      <3> QED
        BY <3>2, <3>3, <3>4, <3>5
    <2> QED
      BY <2>3, <2>4
  <1>8. CASE t.kind \notin {"create", "pay", "manual"}
    <2>1. p = o /\ ~Selling(t, l) /\ Replaces(t) /\ t.kind \in EndKinds \cup {"checkout"}
      BY <1>2, <1>8 DEF Selling, SaleKinds, Replaces, EndKinds, AllKinds
    <2>2. stock'[r].reserved = Less(n, f)
      <3>1. Less(n, f) \in Nat
        BY <1>1, <1>3, LessFacts
      <3> QED
        BY <1>1, <1>5, <1>8, <2>1, <3>1
    <2>3. \/ orders'[o].status = orders[o].status
          \/ orders'[o].status = "PENDING"
          \/ orders'[o].status # "PENDING" /\ AllFreed(t, l)
      BY <1>2, <1>8, <2>1 DEF OldPublished, KeptOrEnded, Ends
    <2>4. /\ orders'[o].status = "PENDING" => Pending' = Pending \cup {o}
          /\ orders'[o].status # "PENDING" => Pending' = Pending \ {o}
          /\ orders'[o].status = orders[o].status => Pending' = Pending
      BY <1>1, <1>2, <2>1, PendingMoves
    <2>5. Below(Less(n, f), Pending \cup {o}, r)
      <3> HIDE DEF t, l, o, p, n, f
      <3> QED
        BY <1>1, <1>6, BelowMore
    <2> HIDE DEF t, l, n, f
    <2> QED
      BY <1>6, <2>1, <2>2, <2>3, <2>4, <2>5
  <1> QED
    BY <1>4, <1>7, <1>8

LEMMA InitHold == Init => HoldInv
  <1> SUFFICES ASSUME Init, NEW r \in Stock PROVE Below(stock[r].reserved, Pending, r)
    BY DEF HoldInv
  <1>1. Pending = {}
    BY DEF Init, NoRow, Pending, InStatus
  <1>2. Ledger!Units(Pending, r) = {}
    BY <1>1 DEF Ledger!Units
  <1>3. Finite(Pending, r) /\ UnitsOf(Pending, r) = 0
    BY <1>2, UnitsOfUnits, FS_EmptySet DEF Finite
  <1> QED
    BY <1>3 DEF Init, Below

LEMMA HoldNext == ASSUME Inv, Inv', BaseInv, HoldInv, [Next]_vars PROVE HoldInv'
  <1>1. CASE UNCHANGED <<orders, stock>>
    <2>1. Pending' = Pending
      BY <1>1 DEF Pending, InStatus
    <2>2. \A r \in Stock : Below(stock'[r].reserved, Pending', r)
      BY <1>1, <2>1 DEF HoldInv
    <2> QED
      BY <2>2 DEF HoldInv, Below, Finite, UnitsOf, Ledger!Units
  <1>2. ASSUME NEW w \in Workers, Commit(w) PROVE HoldInv'
    <2>1. \A r \in Stock : Below(stock'[r].reserved, Pending', r)
      BY <1>2, CommitHold
    <2> QED
      BY <2>1 DEF HoldInv, Below, Finite, UnitsOf, Ledger!Units
  <1>3. ASSUME NEW w \in Workers, Reopen(w), ~(UNCHANGED orders) PROVE HoldInv'
    <2>1. /\ UNCHANGED stock /\ tx[w].order \in Orders /\ orders'[tx[w].order].status = "PENDING"
          /\ \A p \in Orders \ {tx[w].order} : orders'[p].status = orders[p].status
      BY <1>3, ReopenFacts
    <2>2. Pending' = Pending \cup {tx[w].order}
      BY <2>1, PendingMoves
    <2>3. \A r \in Stock : Below(stock'[r].reserved, Pending', r)
      BY <2>1, <2>2, BelowMore DEF HoldInv
    <2> QED
      BY <2>3 DEF HoldInv, Below, Finite, UnitsOf, Ledger!Units
  <1> QED
    BY <1>1, <1>2, <1>3, WhoPublishes, ReopenFacts

(* No interleaving of create, pay, expire, cancel, replacement, rollback    *)
(* and reopening leaves reserved stock without pending orders behind it.    *)
THEOREM NothingLeaks == Spec => []NoLeakedHold
  <1>1. Spec => []Inv
    BY InitInv, NextInv, PTL DEF Spec
  <1>2. Init => BaseInv /\ HoldInv
    BY InitBase, InitHold
  <1>3. Inv /\ Inv' /\ BaseInv /\ HoldInv /\ [Next]_vars => BaseInv' /\ HoldInv'
    BY BaseNext, HoldNext
  <1>4. HoldInv => NoLeakedHold
    BY DEF HoldInv, Below, NoLeakedHold, Pending
  <1> QED
    BY <1>1, <1>2, <1>3, <1>4, PTL DEF Spec

-----------------------------------------------------------------------------
(***************************************************************************)
(* Calm runs.  What a transaction read of its old order still holds when   *)
(* it commits: whoever released units ends the pending order they were of, *)
(* a checkout leaves the status alone, and a create has room.              *)
(***************************************************************************)
EndOf(kind) == IF kind = "cancel" THEN "CANCELLED" ELSE "EXPIRED"
Releasing(l) == \E r \in Stock : l[r] = 3
CalmSave(t) ==
    /\ Freeing(t) \/ t.pc \in {"charge", "diff", "save"} => orders[t.old].status = "PENDING"
    /\ t.pc = "save" /\ t.kind = "checkout" => "status" \notin t.dirty
    /\ t.pc = "save" /\ t.kind # "checkout" => "status" \in t.dirty /\ t.snap.status = EndOf(t.kind)
CalmEnd(t, l) ==
    Saved(t) /\ Releasing(l) =>
        /\ l[t.old] >= 2 /\ AllFreed(t, l)
        /\ orders[t.old].status = "PENDING" /\ ordersW[t.old].status = EndOf(t.kind)
CalmCheckout(t, l) ==
    t.kind = "checkout" /\ l[t.old] >= 2 => ordersW[t.old].status = orders[t.old].status
CalmRoom(t, l) ==
    t.kind = "create" => \A b \in Batches :
        Taken(t, l, b) > 0 => stockW[b].sold + stockW[b].reserved <= Capacity[b]
CalmOK(t, l) ==
    t.kind # "reopen" /\ CalmSave(t) /\ CalmEnd(t, l) /\ CalmCheckout(t, l) /\ CalmRoom(t, l)
CalmInv == \A w \in Workers : CalmOK(tx[w], Held(w))

-----------------------------------------------------------------------------
(* What a step of w leaves to the others *)

Mine(w, r) == locks[r][w] >= 2 \/ locks'[r][w] >= 2 \/ \A v \in Workers \ {w} : locks[r][v] + 2 <= 3
Acts(w) ==
    /\ \A v \in Workers \ {w} : tx'[v] = tx[v]
    /\ \A r \in Rows, v \in Workers \ {w} : locks'[r][v] = locks[r][v]
    /\ \A o \in Orders : (orders'[o] = orders[o] /\ ordersW'[o] = ordersW[o]) \/ Mine(w, o)
    /\ \A r \in Stock : (stock'[r] = stock[r] /\ stockW'[r] = stockW[r]) \/ Mine(w, r)

LEMMA TxOthers ==
    ASSUME Inv, NEW w \in Workers, NEW u, tx' = [tx EXCEPT ![w] = u]
    PROVE  \A v \in Workers \ {w} : tx'[v] = tx[v]
  BY SetTx

LEMMA LockOthers ==
    ASSUME Inv, NEW w \in Workers, NEW x \in Rows, NEW m, Lock(w, x, m)
    PROVE  /\ \A r \in Rows, v \in Workers \ {w} : locks'[r][v] = locks[r][v]
           /\ locks'[x][w] = Stronger(locks[x][w], m)
  BY InvParts DEF LocksOK, Lock

LEMMA SilentActs ==
    ASSUME Inv, NEW w \in Workers, \A v \in Workers \ {w} : tx'[v] = tx[v],
           UNCHANGED rows,
           UNCHANGED locks \/ \E x \in Rows, m \in 1..3 : Lock(w, x, m)
    PROVE  Acts(w)
  <1>1. \A r \in Rows, v \in Workers \ {w} : locks'[r][v] = locks[r][v]
    BY LockOthers
  <1> QED
    BY <1>1 DEF Acts, rows

LEMMA AbortActs == ASSUME Inv, NEW w \in Workers, Abort(w) PROVE Acts(w)
  <1>1. \A v \in Workers \ {w} : tx'[v] = tx[v]
    BY SetTx DEF Abort
  <1>2. \A r \in Rows, v \in Workers \ {w} : locks'[r][v] = locks[r][v]
    BY InvParts DEF LocksOK, Abort, ReleaseLocks
  <1> QED
    BY <1>1, <1>2 DEF Acts, Mine, Abort, Discard

LEMMA BeginActs == ASSUME Inv, NEW w \in Workers, Begin(w) PROVE Acts(w)
  <1>1. PICK k, o, p, pc, snap : Start(w, k, o, p, pc, snap)
    BY DEF Begin, BeginCheckout, BeginCreate, BeginPay, BeginManual, BeginExpire, BeginCancel, BeginReopen
  <1> QED
    BY <1>1, SetTx, SilentActs DEF Start

LEMMA OrderActs ==
    ASSUME Inv, NEW w \in Workers, NEW o \in Orders, NEW row, \A v \in Workers \ {w} : tx'[v] = tx[v],
           ordersW' = [ordersW EXCEPT ![o] = row], UNCHANGED <<orders, stock, stockW>>, Lock(w, o, 2)
    PROVE  Acts(w)
  <1>1. o \in Rows /\ locks[o][w] \in 0..3
    BY InvParts DEF Rows, LocksOK
  <1>2. /\ \A r \in Rows, v \in Workers \ {w} : locks'[r][v] = locks[r][v]
        /\ locks'[o][w] = Stronger(locks[o][w], 2)
    BY <1>1, LockOthers
  <1>3. locks'[o][w] >= 2
    BY <1>1, <1>2 DEF Stronger
  <1>4. \A p \in Orders : p # o => ordersW'[p] = ordersW[p]
    BY InvParts DEF RowsOK
  <1> QED
    BY <1>2, <1>3, <1>4 DEF Acts, Mine

LEMMA ReadFreshActs == ASSUME Inv, NEW w \in Workers, ReadFresh(w) PROVE Acts(w)
  <1>1. \A v \in Workers \ {w} : tx'[v] = tx[v]
    BY InvParts DEF ReadFresh, TxOK, Goto
  <1> QED
    BY <1>1, SilentActs DEF ReadFresh

LEMMA LockOrderActs == ASSUME Inv, NEW w \in Workers, LockOrder(w) PROVE Acts(w)
  <1>1. \A v \in Workers \ {w} : tx'[v] = tx[v]
    BY InvParts DEF LockOrder, TxOK
  <1>2. tx[w].order \in Rows
    BY InvParts DEF LockOrder, At, TxOK, Started, Rows
  <1>3. UNCHANGED locks \/ Lock(w, tx[w].order, 3)
    BY DEF LockOrder
  <1>4. UNCHANGED rows /\ 3 \in 1..3
    BY DEF LockOrder
  <1> QED
    BY <1>1, <1>2, <1>3, <1>4, SilentActs

LEMMA InsertManualActs == ASSUME Inv, NEW w \in Workers, InsertManual(w) PROVE Acts(w)
  <1>1. \A v \in Workers \ {w} : tx'[v] = tx[v]
    BY InvParts DEF InsertManual, TxOK, Goto
  <1>2. tx[w].order \in Rows
    BY InvParts DEF InsertManual, At, TxOK, Started, Rows
  <1>3. UNCHANGED locks \/ Lock(w, tx[w].order, 1)
    BY DEF InsertManual
  <1>4. UNCHANGED rows /\ 1 \in 1..3
    BY DEF InsertManual
  <1> QED
    BY <1>1, <1>2, <1>3, <1>4, SilentActs

LEMMA ClaimActs == ASSUME Inv, NEW w \in Workers, Claim(w) PROVE Acts(w)
  <1> DEFINE o == tx[w].order
  <1>1. o \in Orders
    BY InvParts DEF Claim, At, TxOK, Started
  <1>2. \A v \in Workers \ {w} : tx'[v] = tx[v]
    BY InvParts DEF Claim, TxOK
  <1>3. PICK row : ordersW' = [ordersW EXCEPT ![o] = row]
    <2> DEFINE new == [ordersW[o] EXCEPT !.status = "PAID", !.issued = @ + 1,
                         !.charge = IF tx[w].snap.charge = "none" THEN "manual" ELSE tx[w].snap.charge]
    <2>1. ordersW' = [ordersW EXCEPT ![o] = new]
      BY <1>1, InvParts DEF Claim, OrderRow, RowsOK
    <2> QED
      BY <2>1
  <1> QED
    BY <1>1, <1>2, <1>3, OrderActs DEF Claim

LEMMA InsertActs == ASSUME Inv, NEW w \in Workers, Insert(w) PROVE Acts(w)
  <1>1. CASE Abort(w)
    BY <1>1, AbortActs
  <1>2. CASE ~Abort(w)
    <2>1. tx[w].order \in Orders
      BY InvParts DEF Insert, At, TxOK, Started
    <2>2. \A v \in Workers \ {w} : tx'[v] = tx[v]
      BY <1>2, InvParts DEF Insert, TxOK
    <2> QED
      BY <1>2, <2>1, <2>2, OrderActs DEF Insert
  <1> QED
    BY <1>1, <1>2

LEMMA TouchStockActs == ASSUME Inv, BaseInv, NEW w \in Workers, TouchStock(w) PROVE Acts(w)
  <1> DEFINE s == Head(tx[w].plan)
  <1>1. CASE Abort(w)
    BY <1>1, AbortActs
  <1>2. CASE ~Abort(w)
    <2>1. \A v \in Workers \ {w} : tx'[v] = tx[v]
      BY <1>2, InvParts DEF TouchStock, TxOK
    <2>2. PlanOK(tx[w].plan)
      BY Acting DEF TouchStock, At, WorkerOK, TxShape
    <2>3. s \in Statement
      BY <2>2, TailFacts
    <2>4. s.row \in Stock /\ s.row \in Rows /\ s.mode \in 1..3
      BY <2>3 DEF Statement, Rows
    <2>5. /\ Lock(w, s.row, s.mode) /\ UNCHANGED <<orders, ordersW, stock>>
          /\ \A v \in Workers \ {w} : locks[s.row][v] + s.mode <= 3
          /\ stockW' = [stockW EXCEPT ![s.row] = Effect(tx[w], s, @)]
      BY <1>2 DEF TouchStock, Free
    <2>6. stockW[s.row] = stockW'[s.row] \/ s.mode # 1
      BY <2>4, <2>5, InvParts DEF RowsOK, Effect
    <2> HIDE DEF s
    <2>7. s.mode # 1 => \A v \in Workers \ {w} : locks[s.row][v] + 2 <= 3
      BY <2>4, <2>5, InvParts DEF LocksOK
    <2>8. /\ \A r \in Rows, v \in Workers \ {w} : locks'[r][v] = locks[r][v]
          /\ \A r \in Stock : r # s.row => stockW'[r] = stockW[r]
      BY <2>4, <2>5, LockOthers, InvParts DEF RowsOK
    <2> QED
      BY <2>1, <2>4, <2>5, <2>6, <2>7, <2>8 DEF Acts, Mine
  <1> QED
    BY <1>1, <1>2

LEMMA SaveUpdateActs == ASSUME Inv, NEW w \in Workers, SaveUpdate(w) PROVE Acts(w)
  <1>1. tx[w].old \in Orders
    BY InvParts DEF SaveUpdate, At, TxOK, Started
  <1>2. \A v \in Workers \ {w} : tx'[v] = tx[v]
    BY InvParts DEF SaveUpdate, TxOK
  <1>3. CASE tx[w].dirty = {}
    BY <1>2, <1>3, SilentActs DEF SaveUpdate, rows
  <1>4. CASE tx[w].dirty # {}
    BY <1>1, <1>2, <1>4, OrderActs DEF SaveUpdate
  <1> QED
    BY <1>3, <1>4

LEMMA ReopenActs == ASSUME Inv, NEW w \in Workers, Reopen(w) PROVE Acts(w)
  <1>1. tx[w].order \in Orders /\ tx[w].order \in Rows
    BY InvParts DEF Reopen, At, TxOK, Started, Rows
  <1>2. \A v \in Workers \ {w} : tx'[v] = tx[v]
    BY InvParts DEF Reopen, TxOK
  <1>3. /\ \A o \in Orders : o # tx[w].order => orders'[o] = orders[o] /\ ordersW'[o] = ordersW[o]
        /\ UNCHANGED <<stock, stockW, locks>>
        /\ \A v \in Workers \ {w} : locks[tx[w].order][v] + 2 <= 3
    BY <1>1, InvParts DEF Reopen, RowsOK, Free
  <1> QED
    BY <1>2, <1>3 DEF Acts, Mine

LEMMA CommitActs == ASSUME Inv, NEW w \in Workers, Commit(w) PROVE Acts(w)
  <1>1. \A v \in Workers \ {w} : tx'[v] = tx[v]
    BY SetTx DEF Commit
  <1>2. \A r \in Rows, v \in Workers \ {w} : locks'[r][v] = locks[r][v]
    BY InvParts DEF LocksOK, Commit, ReleaseLocks
  <1> QED
    BY <1>1, <1>2 DEF Acts, Mine, Commit, Publish

LEMMA EveryActs ==
    ASSUME Inv, BaseInv, NEW w \in Workers, Begin(w) \/ Step(w) \/ ChargeCreated(w) \/ Rollback(w)
    PROVE  Acts(w)
  <1>1. CASE Begin(w)
    BY <1>1, BeginActs
  <1>2. CASE ChargeCreated(w) \/ SaveSelect(w)
    <2>1. \A v \in Workers \ {w} : tx'[v] = tx[v]
      BY <1>2, InvParts DEF ChargeCreated, SaveSelect, TxOK
    <2> QED
      BY <1>2, <2>1, SilentActs DEF ChargeCreated, SaveSelect
  <1>3. CASE Rollback(w) \/ DeadlockVictim(w)
    BY <1>3, AbortActs DEF Rollback, DeadlockVictim
  <1>4. CASE LoseClaim(w)
    <2>1. CASE Abort(w)
      BY <2>1, AbortActs
    <2>2. CASE ~Abort(w)
      <3>1. \A v \in Workers \ {w} : tx'[v] = tx[v]
        BY <1>4, <2>2, InvParts DEF LoseClaim, TxOK
      <3> QED
        BY <1>4, <2>2, <3>1, SilentActs DEF LoseClaim
    <2> QED
      BY <2>1, <2>2
  <1>5. CASE ReadFresh(w) \/ LockOrder(w) \/ InsertManual(w) \/ Claim(w)
    BY <1>5, ReadFreshActs, LockOrderActs, InsertManualActs, ClaimActs
  <1>6. CASE Insert(w) \/ TouchStock(w) \/ SaveUpdate(w) \/ Reopen(w) \/ Commit(w)
    BY <1>6, InsertActs, TouchStockActs, SaveUpdateActs, ReopenActs, CommitActs
  <1> QED
    BY <1>1, <1>2, <1>3, <1>4, <1>5, <1>6 DEF Step

(* A calm step of w leaves the others calm.                                 *)
LEMMA OthersCalm ==
    ASSUME Inv, Inv', BaseInv, BaseInv', CalmStep, NEW w \in Workers, Acts(w),
           NEW v \in Workers \ {w}, CalmOK(tx[v], Held(v))
    PROVE  CalmOK(tx[v], Held(v))'
  <1> DEFINE t == tx[v]
             l == Held(v)
  <1>1. tx'[v] = t /\ Held(v)' = l /\ Orders \subseteq Rows /\ Stock \subseteq Rows
    BY DEF Acts, Held, Rows
  <1>2. \A r \in Rows : locks[r][v] >= 2 => ~Mine(w, r)
    <2> SUFFICES ASSUME NEW r \in Rows, locks[r][v] >= 2, Mine(w, r) PROVE FALSE
      OBVIOUS
    <2>1. locks[r][v] + locks[r][w] <= 3 /\ locks'[r][v] + locks'[r][w] <= 3 /\ locks'[r][v] = locks[r][v]
      BY DEF BaseInv, Exclusive, Acts
    <2>2. locks[r][v] \in 0..3 /\ locks[r][w] \in 0..3 /\ locks'[r][w] \in 0..3
      BY InvParts, InvPartsNext DEF LocksOK
    <2> QED
      BY <2>1, <2>2 DEF Mine
  <1>3. \A r \in Rows : l[r] = locks[r][v]
    BY DEF Held
  <1>4. \A o \in Orders : l[o] >= 2 => orders'[o] = orders[o] /\ ordersW'[o] = ordersW[o]
    BY <1>1, <1>2, <1>3 DEF Acts
  <1>5. \A r \in Stock : l[r] >= 2 => stockW'[r] = stockW[r]
    BY <1>1, <1>2, <1>3 DEF Acts
  <1>6. t.kind # "none" => t \in TxState /\ t.order \in Orders /\ t.old \in Orders
    BY Acting DEF BaseInv, WorkerOK, TxShape, KindsAt
  <1>7. TxShape(t) /\ StockLocks(t, l)
    BY DEF BaseInv, WorkerOK
  <1>8. Freeing(t) \/ t.pc \in {"charge", "diff", "save"} => orders'[t.old] = orders[t.old]
    <2> SUFFICES ASSUME Freeing(t) \/ t.pc \in {"charge", "diff", "save"}
                 PROVE  orders'[t.old] = orders[t.old]
      OBVIOUS
    <2>1. t.kind # "none" /\ (t.pc = "charge" => t.order = t.old)
      BY <1>7 DEF TxShape, KindsAt, Freeing, SaleKinds, EndKinds
    <2>2. SnapshotHeld(v, t.old)
      BY <2>1 DEF SnapshotHeld, Freeing
    <2> QED
      BY <1>1, <1>6, <2>1, <2>2 DEF CalmStep
  <1> HIDE DEF t, l
  <1>10. t.kind # "reopen" /\ CalmSave(t) /\ CalmEnd(t, l) /\ CalmCheckout(t, l) /\ CalmRoom(t, l)
    BY DEF CalmOK, t, l
  <1>11. CalmSave(tx[v])'
    BY <1>1, <1>8, <1>10 DEF CalmSave, Freeing
  <1>12. CalmEnd(tx[v], Held(v))'
    <2>1. Saved(t) /\ Releasing(l) => t.kind # "none"
      BY <1>7 DEF Releasing, StockLocks, EndKinds
    <2> QED
      BY <1>1, <1>4, <1>6, <1>10, <2>1 DEF CalmEnd, Saved, Freeing, Releasing, AllFreed
  <1>13. CalmCheckout(tx[v], Held(v))'
    BY <1>1, <1>4, <1>6, <1>10 DEF CalmCheckout
  <1>14. CalmRoom(tx[v], Held(v))'
    <2> SUFFICES ASSUME t.kind = "create", NEW b \in Batches, Taken(t, l, b) > 0
                 PROVE  stockW'[b].sold + stockW'[b].reserved <= Capacity[b]
      BY <1>1 DEF CalmRoom, Taken, Selling
    <2>1. b \in Stock /\ Selling(t, l) /\ ~Asks(t.plan, b, 2) /\ Qty[t.order][b] > 0
      BY DEF Stock, Taken
    <2>2. l[b] >= 2
      BY <1>7, <2>1 DEF StockLocks
    <2> QED
      BY <1>5, <1>10, <2>1, <2>2 DEF CalmRoom
  <1> QED
    BY <1>1, <1>10, <1>11, <1>12, <1>13, <1>14 DEF CalmOK

-----------------------------------------------------------------------------
(* A step of w leaves itself calm *)

LEMMA UnsavedCalm ==
    ASSUME BaseInv', CalmStep, NEW w \in Workers, ~Saved(tx'[w]), CalmSave(tx[w])',
           CalmCheckout(tx[w], Held(w))'
    PROVE  CalmOK(tx[w], Held(w))'
  <1>1. tx'[w].kind # "reopen"
    BY DEF CalmStep
  <1>2. ~Saved(tx[w])' /\ (Selling(tx[w], Held(w)) => Saved(tx[w]))'
    BY DEF BaseInv, WorkerOK, OrderLocks, Saved, Freeing
  <1>3. CalmEnd(tx[w], Held(w))' /\ CalmRoom(tx[w], Held(w))'
    BY <1>2 DEF CalmEnd, CalmRoom, Taken
  <1> QED
    BY <1>1, <1>3 DEF CalmOK

LEMMA NothingHeldCalm ==
    ASSUME Inv', BaseInv', CalmStep, NEW w \in Workers, \A r \in Rows : Held(w)'[r] = 0,
           CalmSave(tx[w])'
    PROVE  CalmOK(tx[w], Held(w))'
  <1>1. tx'[w].kind # "reopen"
    BY DEF CalmStep
  <1>2. Stock \subseteq Rows /\ Orders \subseteq Rows /\ Batches \subseteq Stock
    BY DEF Rows, Stock
  <1>3. CalmEnd(tx[w], Held(w))'
    BY <1>2 DEF CalmEnd, Releasing
  <1>4. CalmCheckout(tx[w], Held(w))'
    <2>1. tx'[w].kind = "checkout" => tx'[w].old \in Orders
      <3>1. tx'[w].kind = "checkout" => tx'[w].pc # "idle"
        BY DEF BaseInv, WorkerOK, TxShape, KindsAt
      <3> QED
        BY <3>1, InvPartsNext DEF TxOK, Started, At
    <2> QED
      BY <1>2, <2>1 DEF CalmCheckout
  <1>5. CalmRoom(tx[w], Held(w))'
    <2>1. \A b \in Batches : (Taken(tx[w], Held(w), b) > 0)' => Held(w)'[b] >= 2
      BY <1>2 DEF BaseInv, WorkerOK, StockLocks, Taken
    <2> QED
      BY <1>2, <2>1 DEF CalmRoom
  <1> QED
    BY <1>1, <1>3, <1>4, <1>5 DEF CalmOK, CalmSave

LEMMA PayCalm ==
    ASSUME BaseInv', CalmStep, NEW w \in Workers, tx'[w].kind \in {"pay", "manual"}
    PROVE  CalmOK(tx[w], Held(w))'
  <1>1. TxShape(tx[w])' /\ StockLocks(tx[w], Held(w))'
    BY DEF BaseInv, WorkerOK
  <1>2. CalmSave(tx[w])'
    <2>1. tx'[w].pc \notin {"charge", "diff", "save"}
      BY <1>1 DEF TxShape, KindsAt, EndKinds
    <2>2. ~Freeing(tx[w])'
      BY <1>1 DEF TxShape, Freeing, EndKinds
    <2> QED
      BY <2>1, <2>2 DEF CalmSave
  <1>3. CalmEnd(tx[w], Held(w))'
    BY <1>1 DEF CalmEnd, Releasing, StockLocks, EndKinds
  <1> QED
    BY <1>2, <1>3 DEF CalmOK, CalmCheckout, CalmRoom

LEMMA IdleCalm ==
    ASSUME Inv', BaseInv', CalmStep, NEW w \in Workers, tx'[w] = Idle
    PROVE  CalmOK(tx[w], Held(w))'
  <1>1. \A r \in Rows : Held(w)'[r] = 0
    BY DEF BaseInv, WorkerOK, OrderLocks, Unlocked, Idle
  <1>2. CalmSave(tx[w])'
    BY DEF CalmSave, Freeing, Idle
  <1> QED
    BY <1>1, <1>2, NothingHeldCalm

LEMMA BeginCalm ==
    ASSUME Inv, Inv', BaseInv, BaseInv', CalmStep, NEW w \in Workers, Begin(w)
    PROVE  CalmOK(tx[w], Held(w))'
  <1>1. PICK k, o, p, snap, pc : /\ Start(w, k, o, p, pc, snap)
                                 /\ pc \in {"insert", "fresh", "charge", "claim", "manual", "own", "reopen"}
                                 /\ pc = "charge" => orders[p].status = "PENDING"
    BY DEF Begin, BeginCheckout, BeginCreate, BeginPay, BeginManual, BeginExpire, BeginCancel, BeginReopen, Live
  <1> DEFINE u == [Idle EXCEPT !.pc = pc, !.kind = k, !.order = o, !.old = p, !.snap = snap]
  <1>2. tx'[w] = u /\ UNCHANGED <<rows, locks>> /\ tx[w].pc = "idle"
    BY <1>1, SetTx DEF Start
  <1>3. u.pc = pc /\ u.old = p
    BY DEF Idle
  <1>4. \A r \in Rows : Held(w)'[r] = 0
    BY <1>2 DEF BaseInv, WorkerOK, OrderLocks, Unlocked, Held
  <1>5. CalmSave(tx[w])'
    <2> HIDE DEF u
    <2> QED
      BY <1>1, <1>2, <1>3 DEF CalmSave, Freeing, rows
  <1> QED
    BY <1>4, <1>5, NothingHeldCalm

LEMMA ReadFreshCalm ==
    ASSUME Inv, Inv', BaseInv, BaseInv', CalmStep, NEW w \in Workers, ReadFresh(w)
    PROVE  CalmOK(tx[w], Held(w))'
  <1> DEFINE old == tx[w].old
  <1>1. UNCHANGED <<rows, locks>> /\ tx[w].pc = "fresh"
    BY DEF ReadFresh, At
  <1>2. \A r \in Rows : Held(w)'[r] = 0
    BY <1>1 DEF BaseInv, WorkerOK, OrderLocks, Unlocked, Held
  <1>3. CASE StillPending(old)
    <2>1. PICK plan : tx' = [tx EXCEPT ![w].pc = "stock", ![w].snap = orders[old], ![w].plan = plan]
      BY <1>3 DEF ReadFresh
    <2>2. tx'[w].pc = "stock" /\ tx'[w].old = old
      BY <2>1, InvParts DEF TxOK, TxState
    <2>3. CalmSave(tx[w])'
      BY <1>1, <1>3, <2>2 DEF CalmSave, StillPending, rows
    <2> QED
      BY <1>2, <2>3, NothingHeldCalm
  <1>4. CASE ~StillPending(old)
    <2>1. tx'[w] = Idle \/ tx'[w].pc = "insert"
      BY <1>4, InvParts DEF ReadFresh, Goto, TxOK, TxState
    <2>2. CalmSave(tx[w])'
      BY <2>1 DEF CalmSave, Freeing, Idle
    <2> QED
      BY <1>2, <2>2, NothingHeldCalm
  <1> QED
    BY <1>3, <1>4

LEMMA LockOrderCalm ==
    ASSUME Inv, Inv', BaseInv, BaseInv', CalmStep, NEW w \in Workers, LockOrder(w)
    PROVE  CalmOK(tx[w], Held(w))'
  <1> DEFINE o == tx[w].order
  <1>1. CASE orders[o].status # "PENDING"
    <2>1. tx'[w] = Idle
      BY <1>1, SetTx DEF LockOrder
    <2> QED
      BY <2>1, IdleCalm
  <1>2. CASE orders[o].status = "PENDING"
    <2>1. PICK plan \in ReleasePlans(o) :
            tx' = [tx EXCEPT ![w].pc = "stock", ![w].snap = orders[o], ![w].plan = plan]
      BY <1>2 DEF LockOrder
    <2>2. /\ tx[w].pc = "own" /\ o \in Orders /\ UNCHANGED rows
      BY InvParts DEF LockOrder, At, TxOK, Started
    <2>3. tx[w].kind = "cancel" /\ tx[w].old = o
      BY <2>2 DEF BaseInv, WorkerOK, TxShape, KindsAt
    <2>4. tx'[w].pc = "stock" /\ tx'[w].old = o /\ tx'[w].plan = plan /\ tx'[w].kind = "cancel"
      BY <2>1, <2>3, InvParts DEF TxOK, TxState
    <2>5. Freeing(tx'[w])
      <3>1. Head(plan).mode = 3
        BY <2>2, ReleasePlanFacts, TailFacts
      <3> QED
        BY <2>4, <3>1 DEF Freeing
    <2>6. ~Saved(tx'[w])
      BY <2>4, <2>5 DEF Saved
    <2>7. CalmSave(tx[w])' /\ CalmCheckout(tx[w], Held(w))'
      BY <1>2, <2>2, <2>4 DEF CalmSave, CalmCheckout, rows
    <2> QED
      BY <2>6, <2>7, UnsavedCalm
  <1> QED
    BY <1>1, <1>2

LEMMA InsertManualCalm ==
    ASSUME Inv, Inv', BaseInv, BaseInv', CalmStep, NEW w \in Workers, InsertManual(w)
    PROVE  CalmOK(tx[w], Held(w))'
  <1>1. tx[w].kind = "manual"
    BY DEF InsertManual, At, BaseInv, WorkerOK, TxShape, KindsAt
  <1>2. tx'[w] = Idle \/ tx'[w].kind = tx[w].kind
    BY InvParts DEF InsertManual, Goto, TxOK, TxState
  <1> QED
    BY <1>1, <1>2, IdleCalm, PayCalm

LEMMA ClaimCalm ==
    ASSUME Inv, Inv', BaseInv, BaseInv', CalmStep, NEW w \in Workers, Claim(w) \/ LoseClaim(w)
    PROVE  CalmOK(tx[w], Held(w))'
  <1>1. tx[w].kind \in {"pay", "manual"}
    BY DEF Claim, LoseClaim, At, BaseInv, WorkerOK, TxShape, KindsAt
  <1>2. tx'[w] = Idle \/ tx'[w].kind = tx[w].kind
    BY InvParts DEF Claim, LoseClaim, Abort, TxOK, TxState
  <1> QED
    BY <1>1, <1>2, IdleCalm, PayCalm

LEMMA ChargeCreatedCalm ==
    ASSUME Inv, Inv', BaseInv, BaseInv', CalmInv, CalmStep, NEW w \in Workers, ChargeCreated(w)
    PROVE  CalmOK(tx[w], Held(w))'
  <1>1. tx[w].pc = "charge" /\ UNCHANGED <<rows, locks>>
    BY DEF ChargeCreated, At
  <1>2. \A r \in Rows : Held(w)'[r] = 0
    BY <1>1 DEF BaseInv, WorkerOK, OrderLocks, Unlocked, Held
  <1>3. tx'[w].pc = "diff" /\ tx'[w].old = tx[w].old
    BY InvParts DEF ChargeCreated, TxOK, TxState
  <1>4. orders[tx[w].old].status = "PENDING"
    BY <1>1 DEF CalmInv, CalmOK, CalmSave
  <1>5. CalmSave(tx[w])'
    BY <1>1, <1>3, <1>4 DEF CalmSave, rows
  <1> QED
    BY <1>2, <1>5, NothingHeldCalm

LEMMA SaveSelectCalm ==
    ASSUME Inv, Inv', BaseInv, BaseInv', CalmInv, CalmStep, NEW w \in Workers, SaveSelect(w)
    PROVE  CalmOK(tx[w], Held(w))'
  <1> DEFINE t == tx[w]
             goal == Goal(tx[w])
             dirty == {f \in {"status", "charge"} : goal[f] # orders[tx[w].old][f]}
  <1>1. /\ t.pc = "diff" /\ UNCHANGED <<rows, locks>> /\ t \in TxState
        /\ tx' = [tx EXCEPT ![w].pc = "save", ![w].snap = goal, ![w].dirty = dirty]
    BY InvParts DEF SaveSelect, At, TxOK
  <1>2. /\ t.kind \in EndKinds \cup {"checkout"}
        /\ t.kind = "checkout" => t.snap.status = "PENDING"
    BY <1>1 DEF BaseInv, WorkerOK, TxShape, KindsAt
  <1>3. orders[t.old].status = "PENDING"
    BY <1>1 DEF CalmInv, CalmOK, CalmSave
  <1>4. t.snap \in OrderRow
    BY <1>1 DEF TxState
  <1>5. /\ t.kind = "checkout" => goal.status = "PENDING"
        /\ t.kind # "checkout" => goal.status = EndOf(t.kind)
    BY <1>2, <1>4 DEF Goal, OrderRow, EndKinds, EndOf
  <1>6. "status" \in dirty <=> t.kind # "checkout"
    <2>1. "status" \in dirty <=> goal.status # orders[t.old].status
      OBVIOUS
    <2> QED
      BY <1>2, <1>3, <1>5, <2>1 DEF EndOf
  <1> HIDE DEF goal, dirty
  <1>7. /\ tx'[w].pc = "save" /\ tx'[w].old = t.old /\ tx'[w].kind = t.kind
        /\ tx'[w].snap = goal /\ tx'[w].dirty = dirty
    BY <1>1, InvParts DEF TxOK, TxState
  <1>8. CalmSave(tx[w])'
    BY <1>1, <1>3, <1>5, <1>6, <1>7 DEF CalmSave, rows
  <1>9. CalmCheckout(tx[w], Held(w))'
    <2>1. CalmCheckout(t, Held(w)) /\ Held(w)' = Held(w)
      BY <1>1 DEF CalmInv, CalmOK, Held
    <2> QED
      BY <1>1, <1>7, <2>1 DEF CalmCheckout, rows
  <1>10. ~Saved(tx'[w])
    BY <1>7 DEF Saved
  <1> QED
    BY <1>8, <1>9, <1>10, UnsavedCalm

LEMMA SaveUpdateCalm ==
    ASSUME Inv, Inv', BaseInv, BaseInv', CalmInv, CalmStep, NEW w \in Workers, SaveUpdate(w)
    PROVE  CalmOK(tx[w], Held(w))'
  <1> DEFINE t == tx[w]
             l == Held(w)
             m == Held(w)'
             old == tx[w].old
             row == Overwritten(ordersW[old], t.snap, t.dirty)
  <1>1. /\ t.pc = "save" /\ t \in TxState /\ old \in Orders /\ old \in Rows
        /\ Stock \subseteq Rows /\ Orders \subseteq Rows /\ Orders \cap Stock = {}
        /\ WorkerOK(t, l) /\ UNCHANGED <<orders, stock, stockW>>
        /\ l \in [Rows -> 0..3] /\ \A r \in Rows : l[r] = locks[r][w]
    BY Acting DEF SaveUpdate, At
  <1>2. /\ tx'[w].pc \in {"insert", "commit"} /\ tx'[w].kind = t.kind /\ tx'[w].old = old
        /\ tx'[w].order = t.order
    BY <1>1, InvParts DEF SaveUpdate, TxOK, TxState
  <1>3. /\ t.kind \in EndKinds \cup {"checkout"} /\ Replaces(t)
        /\ t.kind \in EndKinds => AllFreed(t, l)
        /\ \A r \in Stock : l[r] = 3 => t.kind \in EndKinds
    BY <1>1 DEF WorkerOK, TxShape, KindsAt, StockLocks
  <1>4. /\ orders[old].status = "PENDING"
        /\ t.kind = "checkout" => "status" \notin t.dirty
        /\ t.kind # "checkout" => "status" \in t.dirty /\ t.snap.status = EndOf(t.kind)
        /\ CalmCheckout(t, l)
    BY <1>1 DEF CalmInv, CalmOK, CalmSave
  <1>5. CalmSave(tx[w])'
    BY <1>2 DEF CalmSave, Freeing
  <1>6. CASE t.dirty = {}
    <2>1. UNCHANGED <<ordersW, locks>>
      BY <1>6 DEF SaveUpdate
    <2>2. Held(w)' = l /\ t.kind = "checkout"
      BY <1>4, <1>6, <2>1 DEF Held
    <2>3. CalmEnd(tx[w], Held(w))'
      BY <1>3, <2>2 DEF CalmEnd, Releasing, EndKinds
    <2>4. CalmCheckout(tx[w], Held(w))' /\ CalmRoom(tx[w], Held(w))'
      BY <1>1, <1>2, <1>4, <2>1, <2>2 DEF CalmCheckout, CalmRoom
    <2> QED
      BY <1>2, <1>3, <1>5, <2>3, <2>4 DEF CalmOK, EndKinds
  <1>7. CASE t.dirty # {}
    <2>1. /\ Lock(w, old, 2) /\ \A v \in Workers \ {w} : locks[old][v] + 2 <= 3
          /\ ordersW' = [ordersW EXCEPT ![old] = row]
      BY <1>7 DEF SaveUpdate, Free
    <2>2. \A x \in Rows : m[x] = IF x = old THEN Stronger(l[x], 2) ELSE l[x]
      BY <1>1, <2>1, LockFacts DEF BaseInv
    <2>3. m[old] >= 2 /\ \A r \in Stock : m[r] = l[r]
      BY <1>1, <2>2 DEF Stronger
    <2>4. ordersW[old] = orders[old]
      <3>1. CASE l[old] >= 2
        BY <1>1, <1>3, <3>1 DEF WorkerOK, EndWritten, Saved, Freeing
      <3>2. CASE ~(l[old] >= 2)
        BY <1>1, <2>1, <3>2, CleanRow DEF BaseInv
      <3> QED
        BY <3>1, <3>2
    <2>5. /\ t.kind = "checkout" => row.status = orders[old].status
          /\ t.kind # "checkout" => row.status = EndOf(t.kind)
      <3>1. ordersW[old] \in OrderRow /\ t.snap \in OrderRow /\ t.dirty \in SUBSET {"status", "charge"}
        BY <1>1, InvParts DEF RowsOK, TxState
      <3> QED
        BY <1>4, <2>4, <3>1, OverwrittenFacts
    <2>6. ordersW'[old] = row
      BY <1>1, <2>1, InvParts DEF RowsOK
    <2> HIDE DEF row
    <2>7. Held(w)' = m
      OBVIOUS
    <2> HIDE DEF m, l
    <2>8. CalmEnd(tx[w], Held(w))'
      <3>1. Releasing(m) => t.kind \in EndKinds /\ AllFreed(t, m)
        BY <1>3, <2>3 DEF Releasing, AllFreed
      <3> QED
        BY <1>1, <1>2, <1>4, <2>3, <2>5, <2>6, <2>7, <3>1 DEF CalmEnd, AllFreed, EndKinds, Releasing
    <2>9. CalmCheckout(tx[w], Held(w))'
      BY <1>1, <1>2, <2>5, <2>6 DEF CalmCheckout
    <2>10. CalmRoom(tx[w], Held(w))'
      <3>1. t.kind = "create" => tx'[w].pc = "insert"
        BY <1>2, InvParts DEF SaveUpdate, TxOK, TxState
      <3>2. tx'[w].kind = "create" => ~Selling(tx[w], Held(w))'
        BY <1>2, <3>1 DEF BaseInv, WorkerOK, OrderLocks
      <3> QED
        BY <3>2 DEF CalmRoom, Taken
    <2> QED
      BY <1>2, <1>3, <1>5, <2>8, <2>9, <2>10 DEF CalmOK, EndKinds
  <1> QED
    BY <1>6, <1>7

-----------------------------------------------------------------------------
LEMMA InsertCalm ==
    ASSUME Inv, Inv', BaseInv, BaseInv', CalmInv, CalmStep, NEW w \in Workers, Insert(w)
    PROVE  CalmOK(tx[w], Held(w))'
  <1> DEFINE t == tx[w]
             l == Held(w)
             m == Held(w)'
             o == tx[w].order
  <1>1. CASE Abort(w)
    <2>1. tx'[w] = Idle
      BY <1>1, SetTx DEF Abort
    <2> QED
      BY <2>1, IdleCalm
  <1>2. CASE ~Abort(w)
    <2>1. /\ t.pc = "insert" /\ t \in TxState /\ o \in Orders /\ o \in Rows /\ t.old \in Orders
          /\ WorkerOK(t, l) /\ l \in [Rows -> 0..3]
          /\ Stock \subseteq Rows /\ Orders \subseteq Rows /\ Orders \cap Stock = {}
      BY Acting DEF Insert, At
    <2>2. t.kind = "create" /\ orders[o] = NoRow
      BY <2>1 DEF WorkerOK, TxShape, KindsAt, OrderFacts
    <2>3. /\ Lock(w, o, 2) /\ ordersW' = [ordersW EXCEPT ![o] = NewRow]
          /\ UNCHANGED <<orders, stock, stockW>>
      BY <1>2 DEF Insert
    <2>4. \A v \in Workers \ {w} : locks[o][v] + 2 <= 3
      BY <2>2, NewOrderUntouched
    <2>5. \A r \in Rows : r # o => m[r] = l[r]
      BY <2>1, <2>3, <2>4, LockFacts DEF BaseInv
    <2>6. PICK fk \in ForeignKeyPlans(o), upd \in UpdatePlans(o) :
            tx' = [tx EXCEPT ![w].pc = "stock", ![w].plan = fk \o upd]
      BY <1>2 DEF Insert
    <2> DEFINE plan == fk \o upd
    <2>7. PlanOK(plan) /\ Covers(plan, o, 2) /\ SaleOnly(plan)
      BY <2>1, InsertPlanFacts
    <2>8. /\ tx'[w].pc = "stock" /\ tx'[w].plan = plan /\ tx'[w].kind = "create"
          /\ tx'[w].order = o /\ tx'[w].old = t.old
      BY <2>1, <2>2, <2>6, InvParts DEF TxOK, TxState
    <2> HIDE DEF plan
    <2>9. ~Freeing(tx'[w])
      <3>1. Head(plan) = plan[1] /\ 1 \in 1..Len(plan)
        BY <2>7 DEF PlanOK
      <3> QED
        BY <2>7, <2>8, <3>1 DEF SaleOnly, Freeing
    <2>10. CalmSave(tx[w])'
      BY <2>8, <2>9 DEF CalmSave, Freeing
    <2>11. CalmEnd(t, l)
      BY DEF CalmInv, CalmOK
    <2>12. Held(w)' = m
      OBVIOUS
    <2> HIDE DEF m, l
    <2>13. CalmEnd(tx[w], Held(w))'
      <3> SUFFICES ASSUME Releasing(m)
                   PROVE  /\ m[t.old] >= 2 /\ AllFreed(t, m)
                          /\ orders'[t.old].status = "PENDING" /\ ordersW'[t.old].status = EndOf("create")
        BY <2>8, <2>12 DEF CalmEnd, Releasing, AllFreed
      <3>1. \A r \in Stock : m[r] = l[r]
        BY <2>1, <2>5
      <3>2. Releasing(l) /\ Saved(t)
        BY <2>1, <3>1 DEF Releasing, Saved
      <3>3. /\ l[t.old] >= 2 /\ AllFreed(t, l)
            /\ orders[t.old].status = "PENDING" /\ ordersW[t.old].status = EndOf("create")
        BY <2>2, <2>11, <3>2 DEF CalmEnd
      <3>4. t.old # o
        BY <2>2, <3>3 DEF NoRow
      <3>5. m[t.old] = l[t.old] /\ ordersW'[t.old] = ordersW[t.old]
        BY <2>1, <2>3, <2>5, <3>4, InvParts DEF RowsOK
      <3> QED
        BY <2>3, <3>1, <3>3, <3>5 DEF AllFreed
    <2>14. CalmCheckout(tx[w], Held(w))'
      BY <2>8 DEF CalmCheckout
    <2>15. CalmRoom(tx[w], Held(w))'
      <3>1. \A b \in Batches : Qty[o][b] > 0 => Asks(plan, b, 2)
        BY <2>7 DEF Covers, Stock
      <3> QED
        BY <2>8, <3>1 DEF CalmRoom, Taken
    <2> QED
      BY <2>8, <2>10, <2>13, <2>14, <2>15 DEF CalmOK
  <1> QED
    BY <1>1, <1>2

LEMMA TouchStockCalm ==
    ASSUME Inv, Inv', BaseInv, BaseInv', CalmInv, CalmStep, NEW w \in Workers, TouchStock(w)
    PROVE  CalmOK(tx[w], Held(w))'
  <1> DEFINE t == tx[w]
             l == Held(w)
             m == Held(w)'
             s == Head(tx[w].plan)
  <1>1. CASE Abort(w)
    <2>1. tx'[w] = Idle
      BY <1>1, SetTx DEF Abort
    <2> QED
      BY <2>1, IdleCalm
  <1>2. CASE ~Abort(w)
    <2>1. /\ t.pc = "stock" /\ t \in TxState /\ t.order \in Orders /\ t.old \in Orders
          /\ WorkerOK(t, l) /\ l \in [Rows -> 0..3]
          /\ Stock \subseteq Rows /\ Orders \subseteq Rows /\ Orders \cap Stock = {}
      BY Acting DEF TouchStock, At
    <2>2. /\ PlanOK(t.plan)
          /\ IF Freeing(t) THEN t.kind \in EndKinds ELSE t.kind \in SaleKinds
      BY <2>1 DEF WorkerOK, TxShape
    <2>3. /\ s \in Statement
          /\ \A r, k : Asks(t.plan, r, k) <=> Asks(Tail(t.plan), r, k) \/ (r = s.row /\ k = s.mode)
          /\ Tail(t.plan) # <<>> => (Head(Tail(t.plan)).mode = 3 <=> s.mode = 3)
      BY <2>2, TailFacts
    <2>4. /\ Lock(w, s.row, s.mode) /\ \A v \in Workers \ {w} : locks[s.row][v] + s.mode <= 3
          /\ stockW' = [stockW EXCEPT ![s.row] = Effect(t, s, @)]
          /\ UNCHANGED <<orders, ordersW, stock>>
      BY <1>2 DEF TouchStock, Free
    <2>5. /\ tx'[w].kind = t.kind /\ tx'[w].order = t.order /\ tx'[w].old = t.old
          /\ tx'[w].plan = Tail(t.plan)
          /\ tx'[w].pc = IF Tail(t.plan) # <<>> THEN "stock" ELSE IF s.mode = 3 THEN "diff" ELSE "commit"
      BY <1>2, <2>1, InvParts DEF TouchStock, TxOK, TxState
    <2>6. s.row \in Stock /\ s.row \in Rows /\ s.mode \in {1, 2, 3}
      <3> HIDE DEF s
      <3> QED
        BY <2>3 DEF Statement, Rows
    <2>7. /\ CalmSave(t) /\ CalmEnd(t, l) /\ CalmRoom(t, l)
      BY DEF CalmInv, CalmOK
    <2>8. Freeing(t) <=> s.mode = 3
      BY <2>1 DEF Freeing
    <2>9. \A r \in Rows : m[r] = IF r = s.row THEN Stronger(l[r], s.mode) ELSE l[r]
      BY <2>1, <2>4, <2>6, LockFacts DEF BaseInv
    <2>10. Held(w)' = m
      OBVIOUS
    <2>11. Fits(t, s)
      BY <1>2 DEF TouchStock
    <2> HIDE DEF m, l, s
    <2>12. CASE s.mode = 3
      <3>1. orders[t.old].status = "PENDING" /\ t.kind # "checkout"
        BY <2>2, <2>7, <2>8, <2>12 DEF CalmSave, EndKinds
      <3>2. ~Saved(tx'[w]) /\ tx'[w].pc # "save"
        BY <2>3, <2>5, <2>12 DEF Saved, Freeing
      <3>3. CalmSave(tx[w])' /\ CalmCheckout(tx[w], Held(w))'
        BY <2>4, <2>5, <3>1, <3>2 DEF CalmSave, CalmCheckout
      <3> QED
        BY <3>2, <3>3, UnsavedCalm
    <2>13. CASE s.mode # 3 /\ t.kind \in {"pay", "manual"}
      BY <2>5, <2>13, PayCalm
    <2>14. CASE s.mode # 3 /\ t.kind = "create"
      <3>1. ~Freeing(tx'[w]) /\ tx'[w].pc \in {"stock", "commit"}
        BY <2>3, <2>5, <2>14 DEF Freeing
      <3>2. CalmSave(tx[w])' /\ CalmCheckout(tx[w], Held(w))'
        BY <2>5, <2>14, <3>1 DEF CalmSave, CalmCheckout, Freeing
      <3>3. Saved(t)
        BY <2>1, <2>8, <2>14 DEF Saved
      <3>4. /\ \A r \in Stock : m[r] = 3 <=> l[r] = 3
            /\ \A p \in Orders : m[p] = l[p]
        BY <2>1, <2>6, <2>9, <2>14 DEF Stronger
      <3>5. CalmEnd(tx[w], Held(w))'
        <4> SUFFICES ASSUME Releasing(m)
                     PROVE  /\ m[t.old] >= 2 /\ AllFreed(t, m)
                            /\ orders'[t.old].status = "PENDING" /\ ordersW'[t.old].status = EndOf(t.kind)
          BY <2>5, <2>10 DEF CalmEnd, Releasing, AllFreed
        <4>1. Releasing(l)
          BY <3>4 DEF Releasing
        <4>2. /\ l[t.old] >= 2 /\ AllFreed(t, l)
              /\ orders[t.old].status = "PENDING" /\ ordersW[t.old].status = EndOf(t.kind)
          BY <2>7, <3>3, <4>1 DEF CalmEnd
        <4> QED
          BY <2>1, <2>4, <3>4, <4>2 DEF AllFreed
      <3>6. CalmRoom(tx[w], Held(w))'
        <4> SUFFICES ASSUME NEW b \in Batches, (Taken(tx[w], Held(w), b) > 0)'
                     PROVE  stockW'[b].sold + stockW'[b].reserved <= Capacity[b]
          BY DEF CalmRoom
        <4>1. /\ b \in Stock /\ Qty[t.order][b] \in Nat /\ Qty[t.order][b] > 0 /\ ~Asks(Tail(t.plan), b, 2)
          BY <2>1, <2>5, ShapeAssumption DEF Taken, Stock
        <4>2. stockW[b] \in StockRow /\ Capacity[b] \in Nat
          BY <4>1, InvParts, ShapeAssumption DEF RowsOK
        <4>3. CASE b = s.row /\ s.mode = 2
          <5>1. stockW'[b] = Reserved(stockW[b], Qty[t.order][b])
            BY <2>4, <2>14, <4>1, <4>3, InvParts DEF RowsOK, Effect
          <5>2. stockW[b].sold + stockW[b].reserved + Qty[t.order][b] <= Capacity[b]
            BY <2>11, <2>14, <4>3 DEF Fits
          <5> QED
            BY <4>1, <4>2, <5>1, <5>2 DEF Reserved, StockRow
        <4>4. CASE ~(b = s.row /\ s.mode = 2)
          <5>1. stockW'[b] = stockW[b]
            <6>1. b = s.row => s.mode = 1
              BY <2>6, <2>14, <4>4
            <6> QED
              BY <2>4, <2>6, <4>1, <6>1, InvParts DEF RowsOK, Effect
          <5>2. ~Asks(t.plan, b, 2)
            BY <2>3, <4>1, <4>4
          <5>3. Selling(t, l)
            BY <2>1, <2>8, <2>14 DEF WorkerOK, OrderLocks
          <5>4. Taken(t, l, b) > 0
            BY <4>1, <5>2, <5>3 DEF Taken
          <5> QED
            BY <2>7, <2>14, <5>1, <5>4 DEF CalmRoom
        <4> QED
          BY <4>3, <4>4
      <3> QED
        BY <2>5, <2>14, <3>2, <3>5, <3>6 DEF CalmOK
    <2> QED
      BY <2>2, <2>8, <2>12, <2>13, <2>14 DEF SaleKinds
  <1> QED
    BY <1>1, <1>2

LEMMA AbortCalm ==
    ASSUME Inv, Inv', BaseInv', CalmStep, NEW w \in Workers, Abort(w) \/ Commit(w)
    PROVE  CalmOK(tx[w], Held(w))'
  <1>1. tx'[w] = Idle
    BY SetTx DEF Abort, Commit
  <1> QED
    BY <1>1, IdleCalm

LEMMA ReopenCalm ==
    ASSUME Inv, Inv', BaseInv', CalmStep, NEW w \in Workers, Reopen(w)
    PROVE  CalmOK(tx[w], Held(w))'
  <1>1. tx'[w] = Idle
    BY SetTx DEF Reopen
  <1> QED
    BY <1>1, IdleCalm

LEMMA InitCalm == Init => CalmInv
  <1> SUFFICES ASSUME Init, NEW w \in Workers PROVE CalmOK(tx[w], Held(w))
    BY DEF CalmInv
  <1>1. tx[w].pc = "idle" /\ tx[w].kind = "none"
    BY DEF Init, Idle
  <1> QED
    BY <1>1 DEF CalmOK, CalmSave, CalmEnd, CalmCheckout, CalmRoom, Saved, Freeing

LEMMA CalmNext ==
    ASSUME Inv, Inv', BaseInv, BaseInv', CalmInv, [Next /\ CalmStep]_vars
    PROVE  CalmInv'
  <1>1. CASE UNCHANGED vars
    <2>1. UNCHANGED <<orders, ordersW, stock, stockW, locks, tx>>
      BY <1>1 DEF vars
    <2> SUFFICES ASSUME NEW v \in Workers PROVE CalmOK(tx[v], Held(v))'
      BY DEF CalmInv
    <2>2. tx'[v] = tx[v] /\ Held(v)' = Held(v) /\ CalmOK(tx[v], Held(v))
      BY <2>1 DEF Held, CalmInv
    <2> QED
      BY <2>1, <2>2 DEF CalmOK, CalmSave, CalmEnd, CalmCheckout, CalmRoom, Saved, Freeing,
                        Releasing, AllFreed, Taken, Selling
  <1>2. ASSUME CalmStep, NEW w \in Workers, Begin(w) \/ Step(w) \/ ChargeCreated(w) \/ Rollback(w)
        PROVE  CalmInv'
    <2>1. Acts(w)
      BY <1>2, EveryActs
    <2>2. \A v \in Workers \ {w} : CalmOK(tx[v], Held(v))'
      BY <1>2, <2>1, OthersCalm DEF CalmInv
    <2>3. CalmOK(tx[w], Held(w))'
      <3>1. CASE Begin(w) \/ ChargeCreated(w) \/ Rollback(w)
        BY <1>2, <3>1, BeginCalm, ChargeCreatedCalm, AbortCalm DEF Rollback
      <3>2. CASE ReadFresh(w) \/ LockOrder(w) \/ InsertManual(w) \/ Claim(w) \/ LoseClaim(w)
        BY <1>2, <3>2, ReadFreshCalm, LockOrderCalm, InsertManualCalm, ClaimCalm
      <3>3. CASE Insert(w) \/ TouchStock(w) \/ SaveSelect(w) \/ SaveUpdate(w)
        BY <1>2, <3>3, InsertCalm, TouchStockCalm, SaveSelectCalm, SaveUpdateCalm
      <3>4. CASE Reopen(w) \/ Commit(w) \/ DeadlockVictim(w)
        BY <1>2, <3>4, ReopenCalm, AbortCalm DEF DeadlockVictim
      <3> QED
        BY <1>2, <3>1, <3>2, <3>3, <3>4 DEF Step
    <2> QED
      BY <2>2, <2>3 DEF CalmInv
  <1>3. ASSUME CalmStep, NEW o \in Orders, Lapse(o) PROVE CalmInv'
    <2>1. UNCHANGED <<orders, ordersW, stock, stockW, locks, tx>>
      BY <1>3 DEF Lapse, rows
    <2> SUFFICES ASSUME NEW v \in Workers PROVE CalmOK(tx[v], Held(v))'
      BY DEF CalmInv
    <2>2. tx'[v] = tx[v] /\ Held(v)' = Held(v) /\ CalmOK(tx[v], Held(v))
      BY <2>1 DEF Held, CalmInv
    <2> QED
      BY <2>1, <2>2 DEF CalmOK, CalmSave, CalmEnd, CalmCheckout, CalmRoom, Saved, Freeing,
                        Releasing, AllFreed, Taken, Selling
  <1> QED
    BY <1>1, <1>2, <1>3 DEF Next

-----------------------------------------------------------------------------
(* A calm commit is one step of the ledger *)

(* The units held are those of the pending orders, the units sold those of  *)
(* the paid ones, and sold + reserved never exceeds a batch's capacity,     *)
(* which is what create's conditional UPDATE tests.                         *)
Paid == InStatus({"PAID"})
Exact(r) ==
    /\ Finite(Pending, r) /\ stock[r].reserved = UnitsOf(Pending, r)
    /\ Finite(Paid, r)    /\ stock[r].sold     = UnitsOf(Paid, r)
LedgerInv ==
    /\ Ledger!TypeOK
    /\ \A r \in Stock : Exact(r)
    /\ \A b \in Batches : Ledger!Room(b, stock[b])

LEMMA LedgerSets ==
    LedgerInv => /\ \A r \in Stock : /\ Finite(Pending, r)
                                      /\ stock[r].reserved = UnitsOf(Pending, r)
                 /\ \A b \in Batches : stock[b].sold + stock[b].reserved <= Capacity[b]
  BY DEF LedgerInv, Exact, Ledger!Room

LEMMA EnoughHeld ==
    ASSUME LedgerInv, NEW p \in Orders, orders[p].status = "PENDING", NEW r \in Stock
    PROVE  Qty[p][r] <= stock[r].reserved
  <1>1. p \in Pending /\ Finite(Pending, r) /\ stock[r].reserved = UnitsOf(Pending, r)
    BY LedgerSets DEF Pending, InStatus
  <1>2. UnitsOf(Pending \ {p}, r) + Qty[p][r] = UnitsOf(Pending, r) /\ UnitsOf(Pending \ {p}, r) \in Nat
        /\ Qty[p][r] \in Nat
    BY <1>1, UnitsMinus
  <1> QED
    BY <1>1, <1>2

LEMMA RowShapes ==
    ASSUME NEW row \in StockRow, NEW f \in Nat, NEW q \in Nat
    PROVE  /\ Reserved(Released(row, f), q) = [sold |-> row.sold, reserved |-> Less(row.reserved, f) + q]
           /\ Sold(row, q) = [sold |-> row.sold + q, reserved |-> Less(row.reserved, q)]
           /\ f <= row.reserved => Less(row.reserved, f) = row.reserved - f
           /\ row.sold \in Nat /\ row.reserved \in Nat
  <1>1. row.sold \in Nat /\ row.reserved \in Nat /\ row = [sold |-> row.sold, reserved |-> row.reserved]
    BY DEF StockRow
  <1>2. Reserved(Released(row, f), q) = [sold |-> row.sold, reserved |-> Less(row.reserved, f) + q]
    <2>1. Released(row, f) = [sold |-> row.sold, reserved |-> Less(row.reserved, f)]
      BY <1>1 DEF Released
    <2> QED
      BY <2>1 DEF Reserved
  <1>3. Sold(row, q) = [sold |-> row.sold + q, reserved |-> Less(row.reserved, q)]
    BY DEF Sold
  <1>4. f <= row.reserved => Less(row.reserved, f) = row.reserved - f
    BY <1>1 DEF Less
  <1> QED
    BY <1>1, <1>2, <1>3, <1>4

LEMMA RowNumbers ==
    ASSUME Inv, NEW r \in Stock
    PROVE  /\ stock[r] \in StockRow /\ stock[r].sold \in Nat /\ stock[r].reserved \in Nat
           /\ \A o \in Orders : Qty[o][r] \in Nat
  BY InvParts, ShapeAssumption DEF RowsOK, StockRow

LEMMA PlaceStep ==
    ASSUME Inv, Inv', NEW o \in Orders, orders[o].status = "NONE", orders'[o].status = "PENDING",
           \A q \in Orders \ {o} : orders'[q].status = orders[q].status,
           \A r \in Stock : stock'[r] = [sold |-> stock[r].sold, reserved |-> stock[r].reserved + Qty[o][r]],
           \A b \in Batches : stock'[b].sold + stock'[b].reserved <= Capacity[b]
    PROVE  Ledger!Place(o)
  <1>1. stock' = Ledger!Hold(o)
    <2>1. stock' = [r \in Stock |-> stock'[r]]
      BY InvPartsNext DEF RowsOK
    <2>2. \A r \in Stock : stock'[r] = [sold |-> stock[r].sold + 0, reserved |-> stock[r].reserved + Qty[o][r]]
      <3> SUFFICES ASSUME NEW r \in Stock
                   PROVE  stock'[r] = [sold |-> stock[r].sold + 0, reserved |-> stock[r].reserved + Qty[o][r]]
        OBVIOUS
      <3>1. stock[r].sold + 0 = stock[r].sold
        BY RowNumbers
      <3> QED
        BY <3>1
    <2> QED
      BY <2>1, <2>2, SameCounting DEF Ledger!Hold, Ledger!Moved, Ledger!Zero
  <1>2. [q \in Orders |-> orders'[q].status]
          = [[q \in Orders |-> orders[q].status] EXCEPT ![o] = "PENDING"]
    OBVIOUS
  <1>3. \A b \in Batches : Ledger!Room(b, stock'[b])
    BY DEF Ledger!Room
  <1> QED
    BY <1>1, <1>2, <1>3 DEF Ledger!Place

LEMMA ReplaceStep ==
    ASSUME Inv, Inv', NEW p \in Orders, NEW o \in Orders, p # o,
           orders[p].status = "PENDING", orders'[p].status = "EXPIRED",
           orders[o].status = "NONE", orders'[o].status = "PENDING",
           \A q \in Orders \ {o, p} : orders'[q].status = orders[q].status,
           \A r \in Stock : stock'[r] = [sold |-> stock[r].sold,
                                         reserved |-> stock[r].reserved - Qty[p][r] + Qty[o][r]],
           \A b \in Batches : stock'[b].sold + stock'[b].reserved <= Capacity[b]
    PROVE  Ledger!Replace(p, o)
  <1>1. stock' = Ledger!Swap(p, o)
    <2>1. stock' = [r \in Stock |-> stock'[r]]
      BY InvPartsNext DEF RowsOK
    <2>2. \A r \in Stock : stock'[r] = [sold |-> stock[r].sold + 0,
                                        reserved |-> stock[r].reserved + (Qty[o][r] - Qty[p][r])]
      BY RowNumbers
    <2> QED
      BY <2>1, <2>2, SameCounting DEF Ledger!Swap, Ledger!Moved, Ledger!Zero
  <1>2. [q \in Orders |-> orders'[q].status]
          = [[q \in Orders |-> orders[q].status] EXCEPT ![p] = "EXPIRED", ![o] = "PENDING"]
    OBVIOUS
  <1>3. \A b \in Batches : Ledger!Room(b, stock'[b])
    BY DEF Ledger!Room
  <1> QED
    BY <1>1, <1>2, <1>3 DEF Ledger!Replace

LEMMA PayStep ==
    ASSUME Inv, Inv', NEW o \in Orders, orders[o].status = "PENDING", orders'[o].status = "PAID",
           \A q \in Orders \ {o} : orders'[q].status = orders[q].status,
           \A r \in Stock : stock'[r] = [sold |-> stock[r].sold + Qty[o][r],
                                         reserved |-> stock[r].reserved - Qty[o][r]]
    PROVE  Ledger!Pay(o)
  <1>1. stock' = Ledger!Sell(o)
    <2>1. stock' = [r \in Stock |-> stock'[r]]
      BY InvPartsNext DEF RowsOK
    <2>2. \A r \in Stock : stock'[r] = [sold |-> stock[r].sold + Qty[o][r],
                                        reserved |-> stock[r].reserved + (-Qty[o][r])]
      BY RowNumbers
    <2> QED
      BY <2>1, <2>2, SameCounting DEF Ledger!Sell, Ledger!Moved, Ledger!Minus
  <1>2. [q \in Orders |-> orders'[q].status]
          = [[q \in Orders |-> orders[q].status] EXCEPT ![o] = "PAID"]
    OBVIOUS
  <1> QED
    BY <1>1, <1>2 DEF Ledger!Pay

LEMMA ReleaseStep ==
    ASSUME Inv, Inv', NEW o \in Orders, NEW end \in {"CANCELLED", "EXPIRED"},
           orders[o].status = "PENDING", orders'[o].status = end,
           \A q \in Orders \ {o} : orders'[q].status = orders[q].status,
           \A r \in Stock : stock'[r] = [sold |-> stock[r].sold,
                                         reserved |-> stock[r].reserved - Qty[o][r]]
    PROVE  Ledger!Release(o)
  <1>1. stock' = Ledger!LetGo(o)
    <2>1. stock' = [r \in Stock |-> stock'[r]]
      BY InvPartsNext DEF RowsOK
    <2>2. \A r \in Stock : stock'[r] = [sold |-> stock[r].sold + 0,
                                        reserved |-> stock[r].reserved + (-Qty[o][r])]
      <3> SUFFICES ASSUME NEW r \in Stock
                   PROVE  stock'[r] = [sold |-> stock[r].sold + 0, reserved |-> stock[r].reserved + (-Qty[o][r])]
        OBVIOUS
      <3>1. stock[r].sold \in Nat /\ stock[r].reserved \in Nat /\ Qty[o][r] \in Nat
        BY RowNumbers
      <3>2. stock[r].sold + 0 = stock[r].sold /\ stock[r].reserved + (-Qty[o][r]) = stock[r].reserved - Qty[o][r]
        BY <3>1
      <3> QED
        BY <3>2
    <2> QED
      BY <2>1, <2>2, SameCounting DEF Ledger!LetGo, Ledger!Moved, Ledger!Minus, Ledger!Zero
  <1>2. [q \in Orders |-> orders'[q].status]
          = [[q \in Orders |-> orders[q].status] EXCEPT ![o] = end]
    OBVIOUS
  <1> QED
    BY <1>1, <1>2 DEF Ledger!Release

LEMMA LedgerStutters ==
    ASSUME \A q \in Orders : orders'[q].status = orders[q].status, UNCHANGED stock
    PROVE  UNCHANGED Ledger!vars
  BY DEF Ledger!vars

(* Rows of a commit that takes the units of its order, if it sells, and     *)
(* releases all or none of those of the old one.                            *)
LEMMA CalmStock ==
    ASSUME Inv, Inv', BaseInv, CalmInv, LedgerInv, NEW w \in Workers, Commit(w), NEW r \in Stock
    PROVE  LET t == tx[w]
               l == Held(w)
               f == IF Releasing(l) THEN Qty[t.old][r] ELSE 0
               q == IF Selling(t, l) THEN Qty[t.order][r] ELSE 0
           IN  /\ f <= stock[r].reserved
               /\ t.kind \notin {"pay", "manual"} =>
                    stock'[r] = [sold |-> stock[r].sold, reserved |-> stock[r].reserved - f + q]
               /\ t.kind \in {"pay", "manual"} => stock'[r] = Sold(stock[r], q)
               /\ Releasing(l) => /\ AllFreed(t, l) /\ orders[t.old].status = "PENDING"
                                  /\ orders'[t.old].status = EndOf(t.kind)
  <1> DEFINE t == tx[w]
             l == Held(w)
             f == IF Releasing(l) THEN Qty[t.old][r] ELSE 0
             q == IF Selling(t, l) THEN Qty[t.order][r] ELSE 0
  <1>1. t.pc = "commit" /\ Saved(t)
    BY DEF Commit, At, Saved
  <1>2. /\ t.order \in Orders /\ t.old \in Orders /\ stock[r] \in StockRow
        /\ Qty[t.order][r] \in Nat /\ Qty[t.old][r] \in Nat
        /\ Taken(t, l, r) = q
        /\ AllFreed(t, l) => Freed(t, l, r) = Qty[t.old][r]
    BY CommitTyped
  <1>3. stock'[r] = MovedRow(t, l, r, stock[r])
    BY CommitFacts DEF StockPublished
  <1>4. Releasing(l) => /\ l[t.old] >= 2 /\ AllFreed(t, l)
                        /\ orders[t.old].status = "PENDING" /\ ordersW[t.old].status = EndOf(t.kind)
    BY <1>1 DEF CalmInv, CalmOK, CalmEnd
  <1>5. Releasing(l) => orders'[t.old].status = EndOf(t.kind)
    BY <1>2, <1>4 DEF Commit, Publish, Held, Rows
  <1> HIDE DEF t, l, q
  <1>6. Freed(t, l, r) = f
    BY <1>2, <1>4 DEF Freed, Releasing
  <1>7. f <= stock[r].reserved /\ f \in Nat
    BY <1>2, <1>4, EnoughHeld, RowNumbers
  <1>8. q \in Nat
    BY <1>2 DEF q
  <1> HIDE DEF f
  <1>9. t.kind \notin {"pay", "manual"} =>
          stock'[r] = [sold |-> stock[r].sold, reserved |-> stock[r].reserved - f + q]
    <2> SUFFICES ASSUME t.kind \notin {"pay", "manual"}
                 PROVE  stock'[r] = [sold |-> stock[r].sold, reserved |-> stock[r].reserved - f + q]
      OBVIOUS
    <2>1. stock'[r] = Reserved(Released(stock[r], f), q)
      BY <1>2, <1>3, <1>6 DEF MovedRow
    <2>2. Reserved(Released(stock[r], f), q) = [sold |-> stock[r].sold, reserved |-> Less(stock[r].reserved, f) + q]
      BY <1>2, <1>7, <1>8, RowShapes
    <2>3. Less(stock[r].reserved, f) = stock[r].reserved - f
      BY <1>2, <1>7, RowShapes
    <2> QED
      BY <2>1, <2>2, <2>3
  <1>10. t.kind \in {"pay", "manual"} => stock'[r] = Sold(stock[r], q)
    BY <1>2, <1>3 DEF MovedRow
  <1> QED
    BY <1>4, <1>5, <1>7, <1>9, <1>10 DEF t, l, f, q

LEMMA CommitRoom ==
    ASSUME Inv, Inv', BaseInv, CalmInv, LedgerInv, NEW w \in Workers, Commit(w),
           tx[w].kind = "create", NEW b \in Batches
    PROVE  stock'[b].sold + stock'[b].reserved <= Capacity[b]
  <1> DEFINE t == tx[w]
             l == Held(w)
             f == IF Releasing(l) THEN Qty[t.old][b] ELSE 0
             q == IF Selling(t, l) THEN Qty[t.order][b] ELSE 0
  <1>1. b \in Stock /\ b \in Rows
    BY DEF Stock, Rows
  <1>2. /\ f <= stock[b].reserved
        /\ stock'[b] = [sold |-> stock[b].sold, reserved |-> stock[b].reserved - f + q]
    BY <1>1, CalmStock
  <1>3. /\ t.order \in Orders /\ t.old \in Orders /\ stock[b].sold \in Nat /\ stock[b].reserved \in Nat
        /\ Qty[t.order][b] \in Nat /\ Qty[t.old][b] \in Nat /\ Capacity[b] \in Nat
        /\ stock[b].sold + stock[b].reserved <= Capacity[b]
        /\ Taken(t, l, b) = q
    BY <1>1, CommitTyped, RowNumbers, LedgerSets, ShapeAssumption
  <1>4. CASE q > 0
    <2>1. stockW[b].sold + stockW[b].reserved <= Capacity[b]
      BY <1>3, <1>4 DEF CalmInv, CalmOK, CalmRoom
    <2>2. l[b] >= 2
      <3>1. WorkerOK(t, l) /\ Selling(t, l) /\ ~Asks(t.plan, b, 2) /\ Qty[t.order][b] > 0
        BY <1>3, <1>4 DEF BaseInv, Taken
      <3> QED
        BY <1>1, <3>1 DEF WorkerOK, StockLocks
    <2>3. stock'[b] = stockW[b]
      BY <1>1, <2>2 DEF Commit, Publish, Held
    <2> QED
      BY <2>1, <2>3
  <1>5. CASE ~(q > 0)
    <2>1. q = 0 /\ f \in Nat
      BY <1>3, <1>5
    <2>2. stock'[b].sold = stock[b].sold /\ stock'[b].reserved = stock[b].reserved - f + q
      BY <1>2
    <2> HIDE DEF f, q
    <2> QED
      BY <1>3, <2>1, <2>2
  <1> QED
    BY <1>4, <1>5

-----------------------------------------------------------------------------
(* The ledger's step of each kind of commit *)

LEMMA StockSame ==
    ASSUME Inv, Inv',
           \A r \in Stock : stock'[r] = [sold |-> stock[r].sold, reserved |-> stock[r].reserved]
    PROVE  UNCHANGED stock
  <1>1. \A r \in Stock : stock[r] = [sold |-> stock[r].sold, reserved |-> stock[r].reserved]
    BY InvParts DEF RowsOK, StockRow
  <1>2. stock = [r \in Stock |-> stock[r]] /\ stock' = [r \in Stock |-> stock'[r]]
    BY InvParts, InvPartsNext DEF RowsOK
  <1>3. \A r \in Stock : stock'[r] = stock[r]
    BY <1>1
  <1> QED
    BY <1>2, <1>3

(* Facts of a calm commit that every case below starts from.                *)
CalmCommit(t, l) ==
    /\ t.order \in Orders /\ t.old \in Orders
    /\ SalePublished(t, l) /\ OldPublished(t, l)
    /\ \A o \in Orders \ {t.order, t.old} : orders'[o] = orders[o]
    /\ t.kind \in AllKinds \ {"reopen"}
    /\ t.kind # "create" => t.old = t.order
    /\ Releasing(l) => /\ AllFreed(t, l) /\ orders[t.old].status = "PENDING"
                       /\ orders'[t.old].status = EndOf(t.kind)
    /\ \A r \in Stock : stock[r].sold \in Nat /\ stock[r].reserved \in Nat
    /\ \A o \in Orders, r \in Stock : Qty[o][r] \in Nat
RowAfter(t, l, r) ==
    LET f == IF Releasing(l) THEN Qty[t.old][r] ELSE 0
        q == IF Selling(t, l) THEN Qty[t.order][r] ELSE 0
    IN  IF t.kind \in {"pay", "manual"} THEN Sold(stock[r], q)
        ELSE [sold |-> stock[r].sold, reserved |-> stock[r].reserved - f + q]

LEMMA CalmCommitFacts ==
    ASSUME Inv, Inv', BaseInv, CalmInv, LedgerInv, NEW w \in Workers, Commit(w)
    PROVE  /\ CalmCommit(tx[w], Held(w))
           /\ \A r \in Stock : stock'[r] = RowAfter(tx[w], Held(w), r)
           /\ tx[w].kind \in {"expire", "cancel"} => AllFreed(tx[w], Held(w))
           /\ Releasing(Held(w)) => tx[w].kind \in EndKinds
           /\ tx[w].kind = "checkout" => orders'[tx[w].old].status = orders[tx[w].old].status
  <1> DEFINE t == tx[w]
             l == Held(w)
  <1>1. t.order \in Orders /\ t.old \in Orders
    BY CommitTyped
  <1>2. /\ \A r \in Stock : stock[r].sold \in Nat /\ stock[r].reserved \in Nat
        /\ \A o \in Orders, r \in Stock : Qty[o][r] \in Nat
    BY RowNumbers, ShapeAssumption
  <1>3. Releasing(l) => /\ AllFreed(t, l) /\ orders[t.old].status = "PENDING"
                        /\ orders'[t.old].status = EndOf(t.kind)
    BY CalmStock DEF Releasing
  <1>4. CalmCommit(t, l)
    <2>1. /\ SalePublished(t, l) /\ OldPublished(t, l)
          /\ \A o \in Orders \ {t.order, t.old} : orders'[o] = orders[o]
          /\ t.kind \in AllKinds \ {"reopen"}
          /\ t.kind # "create" => t.old = t.order
      BY CommitFacts
    <2> QED
      BY <1>1, <1>2, <1>3, <2>1 DEF CalmCommit
  <1>5. \A r \in Stock : stock'[r] = RowAfter(t, l, r)
    <2> SUFFICES ASSUME NEW r \in Stock PROVE stock'[r] = RowAfter(t, l, r)
      OBVIOUS
    <2>1. /\ t.kind \notin {"pay", "manual"} =>
               stock'[r] = [sold |-> stock[r].sold,
                            reserved |-> stock[r].reserved - (IF Releasing(l) THEN Qty[t.old][r] ELSE 0)
                                           + (IF Selling(t, l) THEN Qty[t.order][r] ELSE 0)]
          /\ t.kind \in {"pay", "manual"} =>
               stock'[r] = Sold(stock[r], IF Selling(t, l) THEN Qty[t.order][r] ELSE 0)
      BY CalmStock
    <2> HIDE DEF t, l
    <2> QED
      BY <2>1 DEF RowAfter
  <1>6. WorkerOK(t, l) /\ t.pc = "commit"
    BY DEF BaseInv, Commit, At
  <1>7. t.kind \in {"expire", "cancel"} => AllFreed(t, l)
    BY <1>6 DEF WorkerOK, StockLocks
  <1>8. Releasing(l) => t.kind \in EndKinds
    BY <1>6 DEF Releasing, WorkerOK, StockLocks
  <1>9. t.kind = "checkout" => orders'[t.old].status = orders[t.old].status
    <2>1. CalmCheckout(t, l)
      BY DEF CalmInv, CalmOK
    <2>2. orders'[t.old] = IF l[t.old] >= 2 THEN ordersW[t.old] ELSE orders[t.old]
      BY <1>1 DEF Commit, Publish, Held, Rows
    <2> HIDE DEF t, l
    <2> QED
      BY <2>1, <2>2 DEF CalmCheckout
  <1> QED
    BY <1>4, <1>5, <1>7, <1>8, <1>9

(* An order has an item, so releasing all its units releases some.          *)
LEMMA SomeFreed ==
    ASSUME NEW t, NEW l, t.old \in Orders, AllFreed(t, l) PROVE Releasing(l)
  <1>1. PICK b \in Batches : Qty[t.old][b] > 0
    BY SelectionAssumption DEF Items
  <1> QED
    BY <1>1 DEF AllFreed, Releasing, Stock

LEMMA PayLedger ==
    ASSUME Inv, Inv', LedgerInv, NEW t, NEW l, t.kind \in {"pay", "manual"}, CalmCommit(t, l),
           \A r \in Stock : stock'[r] = RowAfter(t, l, r)
    PROVE  Ledger!Next \/ UNCHANGED Ledger!vars
  <1> DEFINE o == t.order
  <1>0. o \in Orders /\ t.old = o
    BY DEF CalmCommit
  <1>1. CASE Selling(t, l)
    <2>1. /\ orders[o].status = "PENDING" /\ orders'[o].status = "PAID"
          /\ \A p \in Orders \ {o} : orders'[p] = orders[p]
      BY <1>0, <1>1 DEF CalmCommit, SalePublished
    <2>2. \A r \in Stock : stock'[r] = [sold |-> stock[r].sold + Qty[o][r],
                                        reserved |-> stock[r].reserved - Qty[o][r]]
      <3> SUFFICES ASSUME NEW r \in Stock
                   PROVE  stock'[r] = [sold |-> stock[r].sold + Qty[o][r],
                                       reserved |-> stock[r].reserved - Qty[o][r]]
        OBVIOUS
      <3>1. stock'[r] = Sold(stock[r], Qty[o][r])
        BY <1>1 DEF RowAfter
      <3>2. stock[r].reserved \in Nat /\ Qty[o][r] \in Nat /\ Qty[o][r] <= stock[r].reserved
        BY <1>0, <2>1, EnoughHeld DEF CalmCommit
      <3>3. Less(stock[r].reserved, Qty[o][r]) = stock[r].reserved - Qty[o][r]
        BY <3>2 DEF Less
      <3> QED
        BY <3>1, <3>3 DEF Sold
    <2>3. \A p \in Orders \ {o} : orders'[p].status = orders[p].status
      BY <2>1
    <2> QED
      BY <1>0, <2>1, <2>2, <2>3, PayStep DEF Ledger!Next
  <1>2. CASE ~Selling(t, l)
    <2>1. \A p \in Orders : orders'[p].status = orders[p].status
      BY <1>0, <1>2 DEF CalmCommit, SalePublished, SaleKinds
    <2>2. \A r \in Stock : stock'[r] = [sold |-> stock[r].sold, reserved |-> stock[r].reserved]
      <3> SUFFICES ASSUME NEW r \in Stock
                   PROVE  stock'[r] = [sold |-> stock[r].sold, reserved |-> stock[r].reserved]
        OBVIOUS
      <3>1. stock'[r] = Sold(stock[r], 0)
        BY <1>2 DEF RowAfter
      <3>2. stock[r].sold \in Nat /\ stock[r].reserved \in Nat
        BY DEF CalmCommit
      <3>3. stock[r].sold + 0 = stock[r].sold /\ Less(stock[r].reserved, 0) = stock[r].reserved
        BY <3>2 DEF Less
      <3> QED
        BY <3>1, <3>3 DEF Sold
    <2> QED
      BY <2>1, <2>2, StockSame, LedgerStutters
  <1> QED
    BY <1>1, <1>2

LEMMA CheckoutLedger ==
    ASSUME Inv, Inv', NEW t, NEW l, t.kind = "checkout", ~Releasing(l), CalmCommit(t, l),
           \A r \in Stock : stock'[r] = RowAfter(t, l, r),
           orders'[t.old].status = orders[t.old].status
    PROVE  UNCHANGED Ledger!vars
  <1>1. \A p \in Orders : orders'[p].status = orders[p].status
    BY DEF CalmCommit
  <1>2. \A r \in Stock : stock'[r] = [sold |-> stock[r].sold, reserved |-> stock[r].reserved]
    <2> SUFFICES ASSUME NEW r \in Stock
                 PROVE  stock'[r] = [sold |-> stock[r].sold, reserved |-> stock[r].reserved]
      OBVIOUS
    <2>1. stock'[r] = [sold |-> stock[r].sold, reserved |-> stock[r].reserved - 0 + 0]
      BY DEF RowAfter, Selling, SaleKinds
    <2>2. stock[r].reserved - 0 + 0 = stock[r].reserved
      BY DEF CalmCommit
    <2> QED
      BY <2>1, <2>2
  <1> QED
    BY <1>1, <1>2, StockSame, LedgerStutters

LEMMA EndLedger ==
    ASSUME Inv, Inv', NEW t, NEW l, t.kind \in {"expire", "cancel"}, Releasing(l), CalmCommit(t, l),
           \A r \in Stock : stock'[r] = RowAfter(t, l, r)
    PROVE  Ledger!Next
  <1> DEFINE o == t.order
  <1>1. o \in Orders /\ t.old = o
    BY DEF CalmCommit
  <1>2. /\ orders[o].status = "PENDING" /\ orders'[o].status = EndOf(t.kind)
        /\ EndOf(t.kind) \in {"CANCELLED", "EXPIRED"}
        /\ \A p \in Orders \ {o} : orders'[p].status = orders[p].status
    BY <1>1 DEF CalmCommit, EndOf
  <1>3. \A r \in Stock : stock'[r] = [sold |-> stock[r].sold, reserved |-> stock[r].reserved - Qty[o][r]]
    <2> SUFFICES ASSUME NEW r \in Stock
                 PROVE  stock'[r] = [sold |-> stock[r].sold, reserved |-> stock[r].reserved - Qty[o][r]]
      OBVIOUS
    <2>1. stock'[r] = [sold |-> stock[r].sold, reserved |-> stock[r].reserved - Qty[o][r] + 0]
      BY <1>1 DEF RowAfter, Selling, SaleKinds
    <2>2. stock[r].reserved - Qty[o][r] + 0 = stock[r].reserved - Qty[o][r]
      BY <1>1 DEF CalmCommit
    <2> QED
      BY <2>1, <2>2
  <1> QED
    BY <1>1, <1>2, <1>3, ReleaseStep DEF Ledger!Next

LEMMA CreateLedger ==
    ASSUME Inv, Inv', NEW t, NEW l, t.kind = "create", CalmCommit(t, l),
           \A r \in Stock : stock'[r] = RowAfter(t, l, r),
           \A b \in Batches : stock'[b].sold + stock'[b].reserved <= Capacity[b]
    PROVE  Ledger!Next
  <1> DEFINE o == t.order
             p == t.old
  <1>1. /\ o \in Orders /\ p \in Orders /\ Selling(t, l)
        /\ orders[o].status = "NONE" /\ orders'[o].status = "PENDING"
        /\ \A q \in Orders \ {o, p} : orders'[q].status = orders[q].status
    BY DEF CalmCommit, SalePublished, NoRow, NewRow
  <1>2. CASE Releasing(l)
    <2>1. p # o /\ orders[p].status = "PENDING" /\ orders'[p].status = "EXPIRED"
      BY <1>1, <1>2 DEF CalmCommit, EndOf
    <2>2. \A r \in Stock : stock'[r] = [sold |-> stock[r].sold,
                                        reserved |-> stock[r].reserved - Qty[p][r] + Qty[o][r]]
      BY <1>1, <1>2 DEF RowAfter
    <2> QED
      BY <1>1, <2>1, <2>2, ReplaceStep DEF Ledger!Next
  <1>3. CASE ~Releasing(l)
    <2>1. ~AllFreed(t, l)
      BY <1>1, <1>3, SomeFreed
    <2>2. p # o => orders'[p].status = orders[p].status
      BY <1>1, <2>1 DEF CalmCommit, OldPublished, KeptOrEnded, EndKinds, Replaces
    <2>3. \A q \in Orders \ {o} : orders'[q].status = orders[q].status
      BY <1>1, <2>2
    <2>4. \A r \in Stock : stock'[r] = [sold |-> stock[r].sold, reserved |-> stock[r].reserved + Qty[o][r]]
      <3> SUFFICES ASSUME NEW r \in Stock
                   PROVE  stock'[r] = [sold |-> stock[r].sold, reserved |-> stock[r].reserved + Qty[o][r]]
        OBVIOUS
      <3>1. stock'[r] = [sold |-> stock[r].sold, reserved |-> stock[r].reserved - 0 + Qty[o][r]]
        BY <1>1, <1>3 DEF RowAfter
      <3>2. stock[r].reserved - 0 + Qty[o][r] = stock[r].reserved + Qty[o][r]
        BY <1>1 DEF CalmCommit
      <3> QED
        BY <3>1, <3>2
    <2> QED
      BY <1>1, <2>3, <2>4, PlaceStep DEF Ledger!Next
  <1> QED
    BY <1>2, <1>3

(* Every commit of a calm run is one step of the ledger, or none.           *)
LEMMA CommitLedger ==
    ASSUME Inv, Inv', BaseInv, CalmInv, LedgerInv, NEW w \in Workers, Commit(w)
    PROVE  Ledger!Next \/ UNCHANGED Ledger!vars
  <1> DEFINE t == tx[w]
             l == Held(w)
  <1>1. /\ CalmCommit(t, l) /\ \A r \in Stock : stock'[r] = RowAfter(t, l, r)
        /\ t.kind \in {"expire", "cancel"} => AllFreed(t, l)
        /\ Releasing(l) => t.kind \in EndKinds
        /\ t.kind = "checkout" => orders'[t.old].status = orders[t.old].status
    BY CalmCommitFacts
  <1>2. t.kind = "create" => \A b \in Batches : stock'[b].sold + stock'[b].reserved <= Capacity[b]
    BY CommitRoom
  <1> HIDE DEF t, l
  <1>3. t.order \in Orders /\ t.old \in Orders /\ t.kind \in AllKinds \ {"reopen"}
    BY <1>1 DEF CalmCommit
  <1>4. CASE t.kind = "create"
    BY <1>1, <1>2, <1>4, CreateLedger
  <1>5. CASE t.kind \in {"pay", "manual"}
    BY <1>1, <1>5, PayLedger
  <1>6. CASE t.kind \in {"expire", "cancel"}
    <2>1. Releasing(l)
      BY <1>1, <1>3, <1>6, SomeFreed
    <2> QED
      BY <1>1, <1>6, <2>1, EndLedger
  <1>7. CASE t.kind = "checkout"
    <2>1. ~Releasing(l)
      BY <1>1, <1>7 DEF EndKinds
    <2> QED
      BY <1>1, <1>7, <2>1, CheckoutLedger
  <1> QED
    BY <1>3, <1>4, <1>5, <1>6, <1>7 DEF AllKinds

-----------------------------------------------------------------------------
(* Calm runs implement the ledger *)

LEMMA NoReopening ==
    ASSUME BaseInv, CalmInv, NEW w \in Workers PROVE ~Reopen(w)
  <1>1. TxShape(tx[w]) /\ tx[w].kind # "reopen"
    BY DEF BaseInv, WorkerOK, CalmInv, CalmOK
  <1> QED
    BY <1>1 DEF TxShape, KindsAt, Reopen, At

LEMMA CalmIsLedger ==
    ASSUME Inv, Inv', BaseInv, CalmInv, LedgerInv, [Next /\ CalmStep]_vars
    PROVE  [Ledger!Next]_(Ledger!vars)
  <1>1. [Next]_vars
    OBVIOUS
  <1>2. CASE UNCHANGED <<orders, stock>>
    BY <1>2, LedgerStutters
  <1>3. ASSUME NEW w \in Workers, Commit(w) PROVE [Ledger!Next]_(Ledger!vars)
    BY <1>3, CommitLedger
  <1> QED
    BY <1>1, <1>2, <1>3, WhoPublishes, NoReopening

-----------------------------------------------------------------------------
(* The ledger keeps exact counters                                          *)

StatusOf == [o \in Orders |-> orders[o].status]

LEMMA LedgerTypes ==
    /\ Ledger!TypeOK <=> StatusOf \in [Orders -> Ledger!Status] /\ stock \in [Stock -> Ledger!StockRow]
    /\ Pending = {o \in Orders : StatusOf[o] = "PENDING"}
    /\ Paid = {o \in Orders : StatusOf[o] = "PAID"}
  <1>1. Ledger!TypeOK <=> StatusOf \in [Orders -> Ledger!Status] /\ stock \in [Stock -> Ledger!StockRow]
    BY SameCounting DEF Ledger!TypeOK, StatusOf
  <1> QED
    BY <1>1 DEF StatusOf, Pending, Paid, InStatus

LEMMA LedgerTypesNext ==
    /\ StatusOf' \in [Orders -> Ledger!Status] /\ stock' \in [Stock -> Ledger!StockRow] => Ledger!TypeOK'
    /\ Pending' = {o \in Orders : StatusOf'[o] = "PENDING"}
    /\ Paid' = {o \in Orders : StatusOf'[o] = "PAID"}
  <1>1. StatusOf' \in [Orders -> Ledger!Status] /\ stock' \in [Stock -> Ledger!StockRow] => Ledger!TypeOK'
    BY SameCounting DEF Ledger!TypeOK, StatusOf, Ledger!Status, Ledger!StockRow
  <1> QED
    BY <1>1 DEF StatusOf, Pending, Paid, InStatus

LEMMA StockNumbers ==
    ASSUME LedgerInv, NEW r \in Stock
    PROVE  /\ stock[r].sold \in Nat /\ stock[r].reserved \in Nat
           /\ \A o \in Orders : Qty[o][r] \in Nat
  <1>1. stock[r] \in Ledger!StockRow
    BY LedgerTypes DEF LedgerInv
  <1> QED
    BY <1>1, ShapeAssumption DEF Ledger!StockRow

(* Counters that follow the sets of orders are exact again.                 *)
LEMMA ExactNext ==
    ASSUME NEW r \in Stock, Finite(Pending', r), stock'[r].reserved = UnitsOf(Pending', r),
           Finite(Paid', r), stock'[r].sold = UnitsOf(Paid', r)
    PROVE  Exact(r)'
  <1>1. Finite(Pending, r)' /\ Finite(Paid, r)'
    BY DEF Finite, Ledger!Units
  <1>2. UnitsOf(Pending, r)' = UnitsOf(Pending', r) /\ UnitsOf(Paid, r)' = UnitsOf(Paid', r)
    BY DEF UnitsOf
  <1> QED
    BY <1>1, <1>2 DEF Exact

(* A new pending order holds its units.                                     *)
LEMMA PlaceKeeps ==
    ASSUME LedgerInv, NEW o \in Orders, Ledger!Place(o)
    PROVE  LedgerInv'
  <1>1. /\ StatusOf \in [Orders -> Ledger!Status] /\ StatusOf[o] = "NONE"
        /\ StatusOf' = [StatusOf EXCEPT ![o] = "PENDING"]
        /\ \A r \in Stock : stock'[r] = [sold |-> stock[r].sold + 0,
                                        reserved |-> stock[r].reserved + Qty[o][r]]
        /\ stock' = [r \in Stock |-> stock'[r]]
        /\ \A b \in Batches : Ledger!Room(b, stock'[b])
    <2>1. StatusOf \in [Orders -> Ledger!Status]
      BY LedgerTypes DEF LedgerInv
    <2>2. StatusOf[o] = "NONE" /\ StatusOf' = [StatusOf EXCEPT ![o] = "PENDING"]
      BY DEF Ledger!Place, StatusOf
    <2>3. stock' = [r \in Stock |-> [sold |-> stock[r].sold + 0,
                                     reserved |-> stock[r].reserved + Qty[o][r]]]
      BY SameCounting DEF Ledger!Place, Ledger!Hold, Ledger!Moved, Ledger!Zero
    <2>4. \A b \in Batches : Ledger!Room(b, stock'[b])
      BY DEF Ledger!Place
    <2> QED
      BY <2>1, <2>2, <2>3, <2>4
  <1>2. Pending' = Pending \cup {o} /\ Paid' = Paid /\ o \notin Pending
    BY <1>1, LedgerTypes, LedgerTypesNext
  <1>3. ASSUME NEW r \in Stock PROVE Exact(r)' /\ stock'[r] \in Ledger!StockRow
    <2>1. /\ stock[r].sold \in Nat /\ stock[r].reserved \in Nat /\ Qty[o][r] \in Nat
      BY StockNumbers
    <2>2. /\ stock'[r].sold = stock[r].sold /\ stock'[r].reserved = stock[r].reserved + Qty[o][r]
          /\ stock'[r] \in Ledger!StockRow
      BY <1>1, <2>1 DEF Ledger!StockRow
    <2>3. Exact(r)
      BY DEF LedgerInv
    <2>4. /\ Finite(Pending \cup {o}, r)
          /\ UnitsOf(Pending \cup {o}, r) = UnitsOf(Pending, r) + Qty[o][r]
      BY <1>2, <2>3, UnitsPlus DEF Exact
    <2> QED
      BY <1>2, <2>2, <2>3, <2>4, ExactNext DEF Exact
  <1>4. Ledger!TypeOK'
    BY <1>1, <1>3, LedgerTypesNext DEF Ledger!Status
  <1> QED
    BY <1>1, <1>3, <1>4 DEF LedgerInv, Ledger!Room

(* Replacing moves the units of the old order to the new one.               *)
LEMMA ReplaceKeeps ==
    ASSUME LedgerInv, NEW p \in Orders, NEW o \in Orders, Ledger!Replace(p, o)
    PROVE  LedgerInv'
  <1>1. /\ StatusOf \in [Orders -> Ledger!Status] /\ StatusOf[p] = "PENDING" /\ StatusOf[o] = "NONE"
        /\ p # o /\ StatusOf' = [StatusOf EXCEPT ![p] = "EXPIRED", ![o] = "PENDING"]
        /\ \A r \in Stock : stock'[r] = [sold |-> stock[r].sold + 0,
                                        reserved |-> stock[r].reserved + (Qty[o][r] - Qty[p][r])]
        /\ stock' = [r \in Stock |-> stock'[r]]
        /\ \A b \in Batches : Ledger!Room(b, stock'[b])
    <2>1. StatusOf \in [Orders -> Ledger!Status]
      BY LedgerTypes DEF LedgerInv
    <2>2. /\ StatusOf[p] = "PENDING" /\ StatusOf[o] = "NONE" /\ p # o
          /\ StatusOf' = [StatusOf EXCEPT ![p] = "EXPIRED", ![o] = "PENDING"]
      BY DEF Ledger!Replace, StatusOf
    <2>3. stock' = [r \in Stock |-> [sold |-> stock[r].sold + 0,
                                     reserved |-> stock[r].reserved + (Qty[o][r] - Qty[p][r])]]
      BY SameCounting DEF Ledger!Replace, Ledger!Swap, Ledger!Moved, Ledger!Zero
    <2>4. \A b \in Batches : Ledger!Room(b, stock'[b])
      BY DEF Ledger!Replace
    <2> QED
      BY <2>1, <2>2, <2>3, <2>4
  <1>2. /\ Pending' = (Pending \ {p}) \cup {o} /\ Paid' = Paid
        /\ p \in Pending /\ o \notin Pending \ {p}
    BY <1>1, LedgerTypes, LedgerTypesNext
  <1>3. ASSUME NEW r \in Stock PROVE Exact(r)' /\ stock'[r] \in Ledger!StockRow
    <2>1. /\ stock[r].sold \in Nat /\ stock[r].reserved \in Nat
          /\ Qty[o][r] \in Nat /\ Qty[p][r] \in Nat
      BY StockNumbers
    <2>2. /\ stock'[r].reserved = stock[r].reserved + (Qty[o][r] - Qty[p][r])
          /\ stock'[r].sold = stock[r].sold
      BY <1>1, <2>1
    <2>3. Exact(r)
      BY DEF LedgerInv
    <2>4. /\ Finite(Pending \ {p}, r) /\ UnitsOf(Pending \ {p}, r) \in Nat
          /\ UnitsOf(Pending \ {p}, r) + Qty[p][r] = UnitsOf(Pending, r)
      BY <1>2, <2>3, UnitsMinus DEF Exact
    <2>5. /\ Finite(Pending', r)
          /\ UnitsOf(Pending', r) = UnitsOf(Pending \ {p}, r) + Qty[o][r]
      BY <1>2, <2>4, UnitsPlus
    <2>6. stock'[r].reserved = UnitsOf(Pending', r) /\ stock'[r].reserved \in Nat
      <3>1. stock[r].reserved = UnitsOf(Pending, r)
        BY <2>3 DEF Exact
      <3>2. PICK u \in Nat : u = UnitsOf(Pending', r) /\ u = UnitsOf(Pending \ {p}, r) + Qty[o][r]
        BY <2>1, <2>4, <2>5
      <3>3. stock'[r].reserved = u
        BY <2>1, <2>2, <2>4, <3>1, <3>2
      <3> QED
        BY <3>2, <3>3
    <2>7. stock'[r] \in Ledger!StockRow
      BY <1>1, <2>1, <2>2, <2>6 DEF Ledger!StockRow
    <2> QED
      BY <1>2, <2>2, <2>3, <2>5, <2>6, <2>7, ExactNext DEF Exact
  <1>4. Ledger!TypeOK'
    BY <1>1, <1>3, LedgerTypesNext DEF Ledger!Status
  <1> QED
    BY <1>1, <1>3, <1>4 DEF LedgerInv, Ledger!Room

(* Paying moves the units of the order from reserved to sold.               *)
LEMMA PayKeeps ==
    ASSUME LedgerInv, NEW o \in Orders, Ledger!Pay(o)
    PROVE  LedgerInv'
  <1>1. /\ StatusOf \in [Orders -> Ledger!Status] /\ StatusOf[o] = "PENDING"
        /\ StatusOf' = [StatusOf EXCEPT ![o] = "PAID"]
        /\ \A r \in Stock : stock'[r] = [sold |-> stock[r].sold + Qty[o][r],
                                        reserved |-> stock[r].reserved + (-Qty[o][r])]
        /\ stock' = [r \in Stock |-> stock'[r]]
    <2>1. StatusOf \in [Orders -> Ledger!Status]
      BY LedgerTypes DEF LedgerInv
    <2>2. StatusOf[o] = "PENDING" /\ StatusOf' = [StatusOf EXCEPT ![o] = "PAID"]
      BY DEF Ledger!Pay, StatusOf
    <2>3. stock' = [r \in Stock |-> [sold |-> stock[r].sold + Qty[o][r],
                                     reserved |-> stock[r].reserved + (-Qty[o][r])]]
      BY SameCounting DEF Ledger!Pay, Ledger!Sell, Ledger!Moved, Ledger!Minus
    <2> QED
      BY <2>1, <2>2, <2>3
  <1>2. /\ Pending' = Pending \ {o} /\ Paid' = Paid \cup {o}
        /\ o \in Pending /\ o \notin Paid
    BY <1>1, LedgerTypes, LedgerTypesNext
  <1>3. ASSUME NEW r \in Stock
        PROVE  /\ Exact(r)' /\ stock'[r] \in Ledger!StockRow
               /\ stock'[r].sold + stock'[r].reserved = stock[r].sold + stock[r].reserved
    <2>1. /\ stock[r].sold \in Nat /\ stock[r].reserved \in Nat /\ Qty[o][r] \in Nat
      BY StockNumbers
    <2>2. /\ stock'[r].reserved = stock[r].reserved - Qty[o][r]
          /\ stock'[r].sold = stock[r].sold + Qty[o][r]
      BY <1>1, <2>1
    <2>3. Exact(r)
      BY DEF LedgerInv
    <2>4. /\ Finite(Pending \ {o}, r) /\ UnitsOf(Pending \ {o}, r) \in Nat
          /\ UnitsOf(Pending \ {o}, r) + Qty[o][r] = UnitsOf(Pending, r)
      BY <1>2, <2>3, UnitsMinus DEF Exact
    <2>5. /\ Finite(Paid \cup {o}, r)
          /\ UnitsOf(Paid \cup {o}, r) = UnitsOf(Paid, r) + Qty[o][r]
      BY <1>2, <2>3, UnitsPlus DEF Exact
    <2>6. /\ stock'[r].reserved = UnitsOf(Pending \ {o}, r)
          /\ stock'[r].sold = UnitsOf(Paid \cup {o}, r)
          /\ stock'[r].reserved \in Nat /\ stock'[r].sold \in Nat
      BY <2>1, <2>2, <2>3, <2>4, <2>5 DEF Exact
    <2>7. stock'[r] \in Ledger!StockRow
      BY <1>1, <2>2, <2>6 DEF Ledger!StockRow
    <2>8. stock'[r].sold + stock'[r].reserved = stock[r].sold + stock[r].reserved
      BY <2>1, <2>2
    <2> QED
      BY <1>2, <2>4, <2>5, <2>6, <2>7, <2>8, ExactNext
  <1>4. Ledger!TypeOK'
    BY <1>1, <1>3, LedgerTypesNext DEF Ledger!Status
  <1>5. \A b \in Batches : Ledger!Room(b, stock'[b])
    BY <1>3 DEF LedgerInv, Ledger!Room, Stock
  <1> QED
    BY <1>3, <1>4, <1>5 DEF LedgerInv, Ledger!Room

(* Cancelling or expiring gives the units of the order back.                *)
LEMMA ReleaseKeeps ==
    ASSUME LedgerInv, NEW o \in Orders, Ledger!Release(o)
    PROVE  LedgerInv'
  <1>1. PICK end \in {"CANCELLED", "EXPIRED"} :
        /\ StatusOf \in [Orders -> Ledger!Status] /\ StatusOf[o] = "PENDING"
        /\ StatusOf' = [StatusOf EXCEPT ![o] = end]
        /\ \A r \in Stock : stock'[r] = [sold |-> stock[r].sold + 0,
                                        reserved |-> stock[r].reserved + (-Qty[o][r])]
        /\ stock' = [r \in Stock |-> stock'[r]]
    <2>1. StatusOf \in [Orders -> Ledger!Status]
      BY LedgerTypes DEF LedgerInv
    <2>2. PICK end \in {"CANCELLED", "EXPIRED"} :
            StatusOf[o] = "PENDING" /\ StatusOf' = [StatusOf EXCEPT ![o] = end]
      BY DEF Ledger!Release, StatusOf
    <2>3. stock' = [r \in Stock |-> [sold |-> stock[r].sold + 0,
                                     reserved |-> stock[r].reserved + (-Qty[o][r])]]
      BY SameCounting DEF Ledger!Release, Ledger!LetGo, Ledger!Moved, Ledger!Minus, Ledger!Zero
    <2> QED
      BY <2>1, <2>2, <2>3
  <1>2. Pending' = Pending \ {o} /\ Paid' = Paid /\ o \in Pending
    BY <1>1, LedgerTypes, LedgerTypesNext
  <1>3. ASSUME NEW r \in Stock
        PROVE  /\ Exact(r)' /\ stock'[r] \in Ledger!StockRow
               /\ stock'[r].sold + stock'[r].reserved <= stock[r].sold + stock[r].reserved
    <2>1. /\ stock[r].sold \in Nat /\ stock[r].reserved \in Nat /\ Qty[o][r] \in Nat
      BY StockNumbers
    <2>2. /\ stock'[r].reserved = stock[r].reserved - Qty[o][r]
          /\ stock'[r].sold = stock[r].sold
      BY <1>1, <2>1
    <2>3. Exact(r)
      BY DEF LedgerInv
    <2>4. /\ Finite(Pending \ {o}, r) /\ UnitsOf(Pending \ {o}, r) \in Nat
          /\ UnitsOf(Pending \ {o}, r) + Qty[o][r] = UnitsOf(Pending, r)
      BY <1>2, <2>3, UnitsMinus DEF Exact
    <2>5. stock'[r].reserved = UnitsOf(Pending \ {o}, r) /\ stock'[r].reserved \in Nat
      BY <2>1, <2>2, <2>3, <2>4 DEF Exact
    <2>6. stock'[r] \in Ledger!StockRow
      BY <1>1, <2>1, <2>2, <2>5 DEF Ledger!StockRow
    <2>7. stock'[r].sold + stock'[r].reserved <= stock[r].sold + stock[r].reserved
      BY <2>1, <2>2
    <2> QED
      BY <1>2, <2>2, <2>3, <2>4, <2>5, <2>6, <2>7, ExactNext DEF Exact
  <1>4. Ledger!TypeOK'
    BY <1>1, <1>3, LedgerTypesNext DEF Ledger!Status
  <1>5. \A b \in Batches : Ledger!Room(b, stock'[b])
    <2> SUFFICES ASSUME NEW b \in Batches PROVE Ledger!Room(b, stock'[b])
      OBVIOUS
    <2>1. /\ b \in Stock /\ Capacity[b] \in Nat
          /\ stock[b].sold + stock[b].reserved <= Capacity[b]
      BY ShapeAssumption DEF LedgerInv, Ledger!Room, Stock
    <2>2. stock[b].sold \in Nat /\ stock[b].reserved \in Nat
      BY <2>1, StockNumbers
    <2>3. stock'[b].sold \in Nat /\ stock'[b].reserved \in Nat
          /\ stock'[b].sold + stock'[b].reserved <= stock[b].sold + stock[b].reserved
      BY <1>3, <2>1 DEF Ledger!StockRow
    <2> QED
      BY <2>1, <2>2, <2>3 DEF Ledger!Room
  <1> QED
    BY <1>3, <1>4, <1>5 DEF LedgerInv, Ledger!Room

LEMMA LedgerKept ==
    ASSUME LedgerInv, [Ledger!Next]_(Ledger!vars) PROVE LedgerInv'
  <1>1. CASE UNCHANGED Ledger!vars
    <2>1. StatusOf' = StatusOf /\ stock' = stock
      BY <1>1 DEF Ledger!vars, StatusOf
    <2>2. Pending' = Pending /\ Paid' = Paid /\ Ledger!TypeOK'
      BY <2>1, LedgerTypes, LedgerTypesNext DEF LedgerInv
    <2>3. \A r \in Stock : Exact(r)'
      BY <2>1, <2>2, ExactNext DEF LedgerInv, Exact
    <2> QED
      BY <2>1, <2>2, <2>3 DEF LedgerInv, Ledger!Room
  <1>2. CASE Ledger!Next
    <2>1. PICK o \in Orders : \/ Ledger!Place(o) \/ Ledger!Pay(o) \/ Ledger!Release(o)
                              \/ \E p \in Orders : Ledger!Replace(p, o)
      BY <1>2 DEF Ledger!Next
    <2>2. CASE Ledger!Place(o)
      BY <2>2, PlaceKeeps
    <2>3. CASE Ledger!Pay(o)
      BY <2>3, PayKeeps
    <2>4. CASE Ledger!Release(o)
      BY <2>4, ReleaseKeeps
    <2>5. CASE \E p \in Orders : Ledger!Replace(p, o)
      BY <2>5, ReplaceKeeps
    <2> QED
      BY <2>1, <2>2, <2>3, <2>4, <2>5
  <1> QED
    BY <1>1, <1>2

LEMMA InitLedger == Ledger!Init => LedgerInv
  <1> SUFFICES ASSUME Ledger!Init PROVE LedgerInv
    OBVIOUS
  <1>1. /\ StatusOf = [o \in Orders |-> "NONE"]
        /\ stock = [r \in Stock |-> [sold |-> 0, reserved |-> 0]]
    BY SameCounting DEF Ledger!Init, StatusOf
  <1>2. Ledger!TypeOK /\ Pending = {} /\ Paid = {}
    BY <1>1, LedgerTypes DEF Ledger!Status, Ledger!StockRow
  <1>3. \A r \in Stock : Finite({}, r) /\ UnitsOf({}, r) = 0
    <2>1. \A r \in Stock : Ledger!Units({}, r) = {}
      BY DEF Ledger!Units
    <2> QED
      BY <2>1, UnitsOfUnits, FS_EmptySet DEF Finite
  <1>4. \A r \in Stock : Exact(r)
    BY <1>1, <1>2, <1>3 DEF Exact
  <1>5. \A b \in Batches : Ledger!Room(b, stock[b])
    BY <1>1, ShapeAssumption DEF Ledger!Room, Stock
  <1> QED
    BY <1>2, <1>4, <1>5 DEF LedgerInv

(* The strengthened invariant of the ledger: types, exact counters, room in *)
(* every batch.                                                             *)
THEOREM LedgerCorrect == Ledger!Spec => []LedgerInv
  BY InitLedger, LedgerKept, PTL DEF Ledger!Spec

(* Reserved counts the pending orders and sold the paid ones, unit by unit. *)
THEOREM LedgerCountersExact == Ledger!Spec => []Ledger!CountersExact
  <1>1. LedgerInv => Ledger!CountersExact
    <2>1. Ledger!InStatus({"PENDING"}) = Pending /\ Ledger!InStatus({"PAID"}) = Paid
      BY DEF Ledger!InStatus, Pending, Paid, InStatus
    <2> QED
      BY <2>1, SameCounting, UnitsOfUnits DEF LedgerInv, Exact, Ledger!CountersExact
  <1> QED
    BY <1>1, LedgerCorrect, PTL

(* What is paid or payable fits, counted by units.                          *)
LEMMA LedgerRoom ==
    ASSUME LedgerInv, NEW b \in Batches
    PROVE  UnitsOf(InStatus({"PENDING", "PAID"}), b) <= Capacity[b]
  <1> DEFINE U == Ledger!Units(Pending, b)
             V == Ledger!Units(Paid, b)
  <1>1. /\ b \in Stock /\ IsFiniteSet(U) /\ IsFiniteSet(V)
        /\ stock[b].reserved = Cardinality(U) /\ stock[b].sold = Cardinality(V)
        /\ stock[b].sold + stock[b].reserved <= Capacity[b]
    BY UnitsOfUnits DEF LedgerInv, Exact, Finite, Stock, Ledger!Room
  <1>2. UnitsOf(InStatus({"PENDING", "PAID"}), b) = Cardinality(U \cup V)
    <2>1. Ledger!Units(InStatus({"PENDING", "PAID"}), b) = U \cup V
      BY DEF Ledger!Units, InStatus, Pending, Paid
    <2> QED
      BY <2>1, UnitsOfUnits
  <1>3. U \cap V = {}
    BY DEF Ledger!Units, InStatus, Pending, Paid
  <1> HIDE DEF U, V
  <1>4. Cardinality(U \cup V) = Cardinality(U) + Cardinality(V) - Cardinality(U \cap V)
    BY <1>1, FS_Union
  <1>5. Cardinality(U \cap V) = 0 /\ Cardinality(U) \in Nat /\ Cardinality(V) \in Nat
    BY <1>1, <1>3, FS_EmptySet, FS_CardinalityType
  <1>6. Cardinality(U \cup V) = Cardinality(V) + Cardinality(U)
    BY <1>4, <1>5
  <1> QED
    BY <1>1, <1>2, <1>6

(* Orders paid or still payable never ask for more than a batch has.        *)
THEOREM LedgerNeverOversells == Ledger!Spec => []Ledger!NeverOversold
  <1>1. LedgerInv => Ledger!NeverOversold
    <2>1. Ledger!InStatus({"PENDING", "PAID"}) = InStatus({"PENDING", "PAID"})
      BY DEF Ledger!InStatus, InStatus
    <2> QED
      BY <2>1, SameCounting, UnitsOfUnits, LedgerRoom DEF Ledger!NeverOversold
  <1> QED
    BY <1>1, LedgerCorrect, PTL

(* No step of the ledger takes an order out of a final status.              *)
THEOREM LedgerEndsOnce == Ledger!Spec => Ledger!EndsOnce
  <1>1. [Ledger!Next]_(Ledger!vars) =>
          [\A o \in Orders : StatusOf[o] \in {"PAID", "CANCELLED", "EXPIRED"}
                                => StatusOf'[o] = StatusOf[o]]_(Ledger!vars)
    BY DEF StatusOf, Ledger!Next, Ledger!Place, Ledger!Replace, Ledger!Pay, Ledger!Release, Ledger!vars
  <1> QED
    BY <1>1, PTL DEF Ledger!Spec, Ledger!EndsOnce, StatusOf

-----------------------------------------------------------------------------
LEMMA InitIsLedger == Init => Ledger!Init
  <1> SUFFICES ASSUME Init PROVE Ledger!Init
    OBVIOUS
  <1>1. [o \in Orders |-> orders[o].status] = [o \in Orders |-> "NONE"]
    BY DEF Init, NoRow
  <1> QED
    BY <1>1, SameCounting DEF Init, Ledger!Init

(* What holds of every calm run.                                            *)
CalmRunInv == Inv /\ BaseInv /\ CalmInv /\ LedgerInv

LEMMA CalmRuns == CalmSpec => []CalmRunInv /\ [][Ledger!Next]_(Ledger!vars)
  <1>1. Init => CalmRunInv
    <2> SUFFICES ASSUME Init PROVE CalmRunInv
      OBVIOUS
    <2>1. Inv /\ BaseInv /\ CalmInv
      BY InitInv, InitBase, InitCalm
    <2>2. LedgerInv
      BY InitIsLedger, InitLedger
    <2> QED
      BY <2>1, <2>2 DEF CalmRunInv
  <1>2. CalmRunInv /\ [Next /\ CalmStep]_vars => CalmRunInv' /\ [Ledger!Next]_(Ledger!vars)
    <2> SUFFICES ASSUME Inv, BaseInv, CalmInv, LedgerInv, [Next /\ CalmStep]_vars
                 PROVE  CalmRunInv' /\ [Ledger!Next]_(Ledger!vars)
      BY DEF CalmRunInv
    <2>1. [Next]_vars
      OBVIOUS
    <2>2. Inv'
      BY <2>1, NextInv
    <2>3. BaseInv'
      BY <2>1, <2>2, BaseNext
    <2>4. CalmInv'
      BY <2>2, <2>3, CalmNext
    <2>5. [Ledger!Next]_(Ledger!vars)
      BY <2>2, CalmIsLedger
    <2>6. LedgerInv'
      BY <2>5, LedgerKept
    <2> QED
      BY <2>2, <2>3, <2>4, <2>5, <2>6 DEF CalmRunInv
  <1> QED
    BY <1>1, <1>2, PTL DEF CalmSpec

(* Statement by statement transactions, under the assumption that no        *)
(* snapshot is overtaken, implement the ledger: each takes effect at once,  *)
(* at its commit, whatever the number of requests and the selections.       *)
THEOREM CalmImplementsLedger == CalmSpec => RefinesLedger
  <1>1. CalmSpec => Init
    BY DEF CalmSpec
  <1> QED
    BY <1>1, InitIsLedger, CalmRuns, PTL DEF RefinesLedger, Ledger!Spec

(* Then the reserved counters are exactly the units of the pending orders.  *)
THEOREM HoldsAreExact == CalmSpec => []HoldLedger
  <1>1. CalmRunInv => HoldLedger
    BY LedgerSets DEF CalmRunInv, HoldLedger, Pending
  <1> QED
    BY <1>1, CalmRuns, PTL

(* And orders paid or still payable never ask for more than a batch has.    *)
THEOREM NeverOversold == CalmSpec => []NoOversell
  <1>1. CalmRunInv => NoOversell
    BY LedgerRoom DEF CalmRunInv, NoOversell
  <1> QED
    BY <1>1, CalmRuns, PTL

-----------------------------------------------------------------------------
(***************************************************************************)
(* Lock order.  Whoever releases nothing holds no FOR UPDATE lock, writes  *)
(* no row before it writes the stock, and asks for the rows it updates in  *)
(* one order: batches before sectors, each by id.                          *)
(***************************************************************************)
Before(r, s) == \/ r \in Batches /\ s \in Sectors
                \/ (r \in Batches <=> s \in Batches) /\ Rank[r] < Rank[s]
Sorted(q) == \A i, j \in 1..Len(q) :
    i < j /\ q[i].mode = 2 => q[j].mode = 2 /\ Before(q[i].row, q[j].row)
Solo(t) == t.kind \notin {"expire", "cancel"} /\ t.old = t.order
SoloOK(t, l) ==
    Solo(t) =>
        /\ \A r \in Rows : l[r] <= 2
        /\ t.pc \notin {"stock", "commit"} => \A r \in Rows : l[r] <= 1
        /\ t.pc = "stock" => /\ Sorted(t.plan)
                             /\ \A r, s \in Stock : l[r] >= 2 /\ Asks(t.plan, s, 2) => Before(r, s)
SoloInv == \A w \in Workers : SoloOK(tx[w], Held(w))

LEMMA UpdatePlanSorted ==
    ASSUME NEW o \in Orders, NEW plan \in UpdatePlans(o)
    PROVE  Sorted(plan)
  <1>a. PICK bs \in IdOrder(Touched(o, Batches)), ss \in IdOrder(Touched(o, Sectors)) :
          plan = Joined(bs, ss, 2)
    BY DEF UpdatePlans, Joined
  <1>b. bs \in AnyOrder(Touched(o, Batches)) /\ ss \in AnyOrder(Touched(o, Sectors))
    BY DEF IdOrder, AnyOrder
  <1>1. Lists(ss, Touched(o, Sectors)) /\ Lists(bs, Touched(o, Batches))
    BY <1>b, TouchedFacts, SetToSeqsFacts
  <1>2. ss \in Seq(Stock) /\ bs \in Seq(Stock)
    BY <1>b, TouchedTyped
  <1>3. /\ \A i \in 1..Len(bs) : bs[i] \in Batches
        /\ \A i \in 1..Len(ss) : ss[i] \in Sectors /\ ss[i] \notin Batches
    BY <1>1, TouchedFacts, ShapeAssumption DEF Lists
  <1>4. /\ \A i, j \in 1..Len(bs) : i < j => Before(bs[i], bs[j])
        /\ \A i, j \in 1..Len(ss) : i < j => Before(ss[i], ss[j])
        /\ \A i \in 1..Len(bs), j \in 1..Len(ss) : Before(bs[i], ss[j])
    BY <1>3 DEF IdOrder, Before
  <1>5. /\ Len(plan) = Len(bs) + Len(ss) /\ Len(bs) \in Nat /\ Len(ss) \in Nat
        /\ \A i \in 1..Len(bs) : plan[i].row = bs[i] /\ plan[i].mode = 2
        /\ \A i \in 1..Len(ss) : plan[Len(bs) + i].row = ss[i] /\ plan[Len(bs) + i].mode = 2
    <2> DEFINE m == 2
    <2>1. m \in 1..3
      OBVIOUS
    <2> HIDE DEF m
    <2>2. /\ Len(Joined(bs, ss, m)) = Len(bs) + Len(ss) /\ Len(bs) \in Nat /\ Len(ss) \in Nat
          /\ \A i \in 1..Len(bs) : Joined(bs, ss, m)[i].row = bs[i] /\ Joined(bs, ss, m)[i].mode = m
          /\ \A i \in 1..Len(ss) : /\ Joined(bs, ss, m)[Len(bs) + i].row = ss[i]
                                   /\ Joined(bs, ss, m)[Len(bs) + i].mode = m
      BY <1>2, <2>1, JoinedFacts
    <2> QED
      BY <1>a, <2>2 DEF m
  <1> SUFFICES ASSUME NEW i \in 1..Len(plan), NEW j \in 1..Len(plan), i < j
               PROVE  plan[j].mode = 2 /\ Before(plan[i].row, plan[j].row)
    BY DEF Sorted
  <1>6. CASE j <= Len(bs)
    <2>1. i \in 1..Len(bs) /\ j \in 1..Len(bs)
      BY <1>5, <1>6
    <2> QED
      BY <1>4, <1>5, <2>1
  <1>7. CASE ~(j <= Len(bs))
    <2>1. j - Len(bs) \in 1..Len(ss) /\ Len(bs) + (j - Len(bs)) = j
      BY <1>5, <1>7
    <2>2. plan[j].row = ss[j - Len(bs)] /\ plan[j].mode = 2
      BY <1>5, <2>1
    <2>3. CASE i <= Len(bs)
      <3>1. i \in 1..Len(bs)
        BY <1>5, <2>3
      <3> QED
        BY <1>4, <1>5, <2>1, <2>2, <3>1
    <2>4. CASE ~(i <= Len(bs))
      <3>1. i - Len(bs) \in 1..Len(ss) /\ Len(bs) + (i - Len(bs)) = i /\ i - Len(bs) < j - Len(bs)
        BY <1>5, <2>4
      <3>2. plan[i].row = ss[i - Len(bs)]
        BY <1>5, <3>1
      <3> QED
        BY <1>4, <2>1, <2>2, <3>1, <3>2
    <2> QED
      BY <2>3, <2>4
  <1> QED
    BY <1>6, <1>7

LEMMA InsertPlanSorted ==
    ASSUME NEW o \in Orders, NEW fk \in ForeignKeyPlans(o), NEW upd \in UpdatePlans(o)
    PROVE  Sorted(fk \o upd)
  <1> DEFINE plan == fk \o upd
  <1>1. fk \in Seq(Statement) /\ \A i \in 1..Len(fk) : fk[i].mode = 1
    <2>1. fk \in Seq(Statement)
      BY ForeignKeyPlansTyped
    <2>2. PICK q \in AnyOrder(Touched(o, Batches)) :
            fk = [i \in 1..(2 * Len(q)) |->
                   [row |-> IF i % 2 = 1 THEN SectorOf[q[(i + 1) \div 2]] ELSE q[i \div 2],
                    mode |-> 1]]
      BY DEF ForeignKeyPlans
    <2>3. Len(q) \in Nat
      BY TouchedFacts, SetToSeqsFacts
    <2>4. Len(fk) = 2 * Len(q)
      BY <2>1, <2>2, <2>3
    <2> QED
      BY <2>1, <2>2, <2>4
  <1>2. upd \in Seq(Statement) /\ Sorted(upd)
    BY UpdatePlanFacts, UpdatePlanSorted DEF PlanOK
  <1>3. /\ Len(plan) = Len(fk) + Len(upd) /\ Len(fk) \in Nat /\ Len(upd) \in Nat
        /\ \A i \in 1..Len(plan) : plan[i] = IF i <= Len(fk) THEN fk[i] ELSE upd[i - Len(fk)]
    BY <1>1, <1>2
  <1> HIDE DEF plan
  <1> SUFFICES ASSUME NEW i \in 1..Len(plan), NEW j \in 1..Len(plan), i < j, plan[i].mode = 2
               PROVE  plan[j].mode = 2 /\ Before(plan[i].row, plan[j].row)
    BY DEF Sorted, plan
  <1>4. ~(i <= Len(fk))
    BY <1>1, <1>3
  <1>5. /\ i - Len(fk) \in 1..Len(upd) /\ j - Len(fk) \in 1..Len(upd) /\ i - Len(fk) < j - Len(fk)
        /\ ~(j <= Len(fk))
    BY <1>3, <1>4
  <1>6. plan[i] = upd[i - Len(fk)] /\ plan[j] = upd[j - Len(fk)]
    BY <1>3, <1>4, <1>5
  <1> QED
    BY <1>2, <1>5, <1>6 DEF Sorted

LEMMA SortedTail ==
    ASSUME NEW q, PlanOK(q), Sorted(q)
    PROVE  /\ Sorted(Tail(q))
           /\ Head(q).mode = 2 => \A s : Asks(Tail(q), s, 2) => Before(Head(q).row, s)
  <1>1. q \in Seq(Statement) /\ q # <<>> /\ Len(q) \in Nat /\ Len(q) > 0
    BY DEF PlanOK
  <1>2. /\ Head(q) = q[1] /\ Len(Tail(q)) = Len(q) - 1
        /\ \A i \in 1..Len(Tail(q)) : Tail(q)[i] = q[i + 1]
    BY <1>1
  <1> DEFINE rest == Tail(q)
  <1> HIDE DEF rest
  <1>3. \A i \in 1..Len(rest) : rest[i] = q[i + 1] /\ i + 1 \in 1..Len(q) /\ 1 < i + 1 /\ 1 \in 1..Len(q)
    BY <1>1, <1>2 DEF rest
  <1>4. Sorted(rest)
    <2> SUFFICES ASSUME NEW i \in 1..Len(rest), NEW j \in 1..Len(rest), i < j, rest[i].mode = 2
                 PROVE  rest[j].mode = 2 /\ Before(rest[i].row, rest[j].row)
      BY DEF Sorted
    <2>1. i + 1 < j + 1
      OBVIOUS
    <2> QED
      BY <1>3, <2>1 DEF Sorted
  <1>5. ASSUME Head(q).mode = 2, NEW s, Asks(rest, s, 2) PROVE Before(Head(q).row, s)
    <2>1. PICK i \in 1..Len(rest) : rest[i].row = s
      BY <1>5 DEF Asks
    <2> QED
      BY <1>2, <1>3, <1>5, <2>1 DEF Sorted
  <1> QED
    BY <1>4, <1>5 DEF rest

-----------------------------------------------------------------------------
(* Every action keeps the lock order *)

LEMMA EmptyHandsSolo ==
    ASSUME Inv', BaseInv', NEW w \in Workers, \A r \in Rows : Held(w)'[r] = 0
    PROVE  SoloOK(tx[w], Held(w))'
  <1>1. TxShape(tx[w])' /\ OrderLocks(tx[w], Held(w))'
    BY DEF BaseInv, WorkerOK
  <1>2. (tx[w].pc = "stock" => tx[w].order \in Orders)'
    BY InvPartsNext DEF TxOK, Started, At
  <1>3. Orders \subseteq Rows
    BY DEF Rows
  <1>4. (tx[w].pc = "stock" => ~Solo(tx[w]))'
    <2>1. (Freeing(tx[w]) => ~Solo(tx[w]))'
      <3>1. (Freeing(tx[w]) => tx[w].pc = "stock")'
        BY DEF Freeing
      <3>2. (Freeing(tx[w]) => tx[w].kind \in EndKinds /\ Replaces(tx[w]))'
        BY <1>1, <3>1 DEF TxShape
      <3> QED
        BY <3>2 DEF EndKinds, Replaces, Solo
    <2>2. (tx[w].pc = "stock" => Freeing(tx[w]))'
      BY <1>1, <1>2, <1>3 DEF OrderLocks, Selling
    <2> QED
      BY <2>1, <2>2
  <1> QED
    BY <1>4 DEF SoloOK

LEMMA IdleSolo ==
    ASSUME Inv', BaseInv', NEW w \in Workers, tx'[w] = Idle
    PROVE  SoloOK(tx[w], Held(w))'
  <1>1. \A r \in Rows : Held(w)'[r] = 0
    BY DEF BaseInv, WorkerOK, OrderLocks, Unlocked, Idle
  <1> QED
    BY <1>1, EmptyHandsSolo

LEMMA SameLocksSolo ==
    ASSUME Inv, Inv', NEW w \in Workers, SoloOK(tx[w], Held(w)), UNCHANGED locks,
           tx'[w].kind = tx[w].kind, tx'[w].old = tx[w].old, tx'[w].order = tx[w].order,
           tx[w].pc \notin {"stock", "commit"}, tx'[w].pc # "stock"
    PROVE  SoloOK(tx[w], Held(w))'
  <1>1. Held(w)' = Held(w)
    BY DEF Held
  <1>2. Solo(tx[w])' => Solo(tx[w])
    BY DEF Solo
  <1> QED
    BY <1>1, <1>2 DEF SoloOK

(* One lock of mode 1 or 2 on an order row, before any stock.               *)
LEMMA OrderLockSolo ==
    ASSUME Inv, Inv', NEW w \in Workers, SoloOK(tx[w], Held(w)), NEW o \in Orders, NEW m, m \in {1, 2},
           Lock(w, o, m), tx'[w].kind = tx[w].kind, tx'[w].old = tx[w].old, tx'[w].order = tx[w].order,
           tx[w].pc \notin {"stock", "commit"},
           m = 2 => tx'[w].pc \in {"stock", "commit"} \/ ~Solo(tx[w]),
           tx'[w].pc = "stock" => Sorted(tx'[w].plan)
    PROVE  SoloOK(tx[w], Held(w))'
  <1> SUFFICES ASSUME Solo(tx[w])' PROVE SoloOK(tx[w], Held(w))'
    BY DEF SoloOK
  <1>1. o \in Rows /\ Stock \subseteq Rows /\ o \notin Stock
    BY ShapeAssumption DEF Rows
  <1>2. Solo(tx[w])
    BY DEF Solo
  <1>3. \A r \in Rows : Held(w)[r] = locks[r][w] /\ Held(w)'[r] = locks'[r][w]
    BY DEF Held
  <1>4. \A r \in Rows : locks[r][w] \in 0..3 /\ locks[r][w] <= 1
    BY <1>2, <1>3, InvParts DEF LocksOK, SoloOK
  <1>5. \A r \in Rows : locks'[r][w] = IF r = o THEN Stronger(locks[o][w], m) ELSE locks[r][w]
    BY <1>1, InvParts DEF Lock, LocksOK
  <1>6. Stronger(locks[o][w], m) <= m
    BY <1>1, <1>4 DEF Stronger
  <1>7. \A r \in Rows : locks'[r][w] <= 2 /\ (m = 1 => locks'[r][w] <= 1) /\ (r # o => locks'[r][w] <= 1)
    BY <1>4, <1>5, <1>6 DEF Stronger
  <1>8. \A r \in Stock : ~(Held(w)'[r] >= 2)
    BY <1>1, <1>3, <1>4, <1>5
  <1>9. \A r \in Rows : Held(w)'[r] <= 2 /\ (tx'[w].pc \notin {"stock", "commit"} => Held(w)'[r] <= 1)
    BY <1>2, <1>3, <1>7
  <1> QED
    BY <1>8, <1>9 DEF SoloOK

-----------------------------------------------------------------------------
LEMMA BeginSolo ==
    ASSUME Inv, Inv', BaseInv, BaseInv', NEW w \in Workers, Begin(w)
    PROVE  SoloOK(tx[w], Held(w))'
  <1>1. PICK k, o, p, pc, snap : Start(w, k, o, p, pc, snap)
    BY DEF Begin, BeginCheckout, BeginCreate, BeginPay, BeginManual, BeginExpire, BeginCancel, BeginReopen
  <1>2. UNCHANGED locks /\ tx[w].pc = "idle"
    BY <1>1 DEF Start
  <1>3. \A r \in Rows : Held(w)'[r] = 0
    BY <1>2 DEF BaseInv, WorkerOK, OrderLocks, Unlocked, Held
  <1> QED
    BY <1>3, EmptyHandsSolo

LEMMA ReadFreshSolo ==
    ASSUME Inv, Inv', BaseInv, BaseInv', NEW w \in Workers, ReadFresh(w)
    PROVE  SoloOK(tx[w], Held(w))'
  <1>1. UNCHANGED locks /\ tx[w].pc = "fresh"
    BY DEF ReadFresh, At
  <1>2. \A r \in Rows : Held(w)'[r] = 0
    BY <1>1 DEF BaseInv, WorkerOK, OrderLocks, Unlocked, Held
  <1> QED
    BY <1>2, EmptyHandsSolo

LEMMA LockOrderSolo ==
    ASSUME Inv, Inv', BaseInv, BaseInv', NEW w \in Workers, LockOrder(w)
    PROVE  SoloOK(tx[w], Held(w))'
  <1>1. tx[w].kind = "cancel"
    BY DEF LockOrder, At, BaseInv, WorkerOK, TxShape, KindsAt
  <1>2. tx'[w] = Idle \/ tx'[w].kind = tx[w].kind
    BY InvParts DEF LockOrder, TxOK, TxState
  <1>3. tx'[w].kind = "cancel" => SoloOK(tx[w], Held(w))'
    BY DEF SoloOK, Solo
  <1> QED
    BY <1>1, <1>2, <1>3, IdleSolo

LEMMA InsertManualSolo ==
    ASSUME Inv, Inv', BaseInv, BaseInv', NEW w \in Workers, SoloOK(tx[w], Held(w)), InsertManual(w)
    PROVE  SoloOK(tx[w], Held(w))'
  <1> DEFINE o == tx[w].order
             next == IF tx[w].snap.status = "PAID" THEN "commit" ELSE "claim"
             m == 1
  <1>1. CASE tx' = [tx EXCEPT ![w] = Idle]
    BY <1>1, SetTx, IdleSolo
  <1>2. CASE tx' # [tx EXCEPT ![w] = Idle]
    <2>1. Lock(w, o, m) /\ tx' = [tx EXCEPT ![w].pc = next] /\ tx[w].pc = "manual" /\ o \in Orders
      BY <1>2, InvParts DEF InsertManual, Goto, At, TxOK, Started
    <2>2. tx'[w].kind = tx[w].kind /\ tx'[w].old = tx[w].old /\ tx'[w].order = tx[w].order
          /\ tx'[w].pc # "stock"
      BY <2>1, InvParts DEF TxOK, TxState
    <2>3. m \in {1, 2} /\ m # 2
      OBVIOUS
    <2> HIDE DEF o, m
    <2> QED
      BY <2>1, <2>2, <2>3, OrderLockSolo
  <1> QED
    BY <1>1, <1>2

LEMMA ClaimSolo ==
    ASSUME Inv, Inv', BaseInv, BaseInv', NEW w \in Workers, SoloOK(tx[w], Held(w)), Claim(w)
    PROVE  SoloOK(tx[w], Held(w))'
  <1> DEFINE o == tx[w].order
             m == 2
  <1>1. Lock(w, o, m) /\ tx[w].pc = "claim" /\ o \in Orders
    BY InvParts DEF Claim, At, TxOK, Started
  <1>2. PICK plan \in UpdatePlans(o) :
          tx' = [tx EXCEPT ![w].pc = "stock", ![w].snap = NoRow, ![w].plan = plan]
    BY DEF Claim
  <1>3. /\ tx'[w].kind = tx[w].kind /\ tx'[w].old = tx[w].old /\ tx'[w].order = tx[w].order
        /\ tx'[w].pc = "stock" /\ tx'[w].plan = plan
    BY <1>2, InvParts DEF TxOK, TxState
  <1>4. Sorted(plan)
    BY <1>1, UpdatePlanSorted
  <1>5. m \in {1, 2}
    OBVIOUS
  <1> HIDE DEF o, m
  <1> QED
    BY <1>1, <1>3, <1>4, <1>5, OrderLockSolo

LEMMA LoseClaimSolo ==
    ASSUME Inv, Inv', BaseInv, BaseInv', NEW w \in Workers, SoloOK(tx[w], Held(w)), LoseClaim(w)
    PROVE  SoloOK(tx[w], Held(w))'
  <1>1. CASE Abort(w)
    BY <1>1, SetTx, IdleSolo DEF Abort
  <1>2. CASE ~Abort(w)
    <2>1. /\ tx[w].pc = "claim" /\ UNCHANGED locks
          /\ tx' = [tx EXCEPT ![w].pc = "commit", ![w].snap = NoRow]
      BY <1>2 DEF LoseClaim, At
    <2>2. tx'[w].kind = tx[w].kind /\ tx'[w].old = tx[w].old /\ tx'[w].order = tx[w].order
          /\ tx'[w].pc = "commit"
      BY <2>1, InvParts DEF TxOK, TxState
    <2> QED
      BY <2>1, <2>2, SameLocksSolo
  <1> QED
    BY <1>1, <1>2

LEMMA InsertSolo ==
    ASSUME Inv, Inv', BaseInv, BaseInv', NEW w \in Workers, SoloOK(tx[w], Held(w)), Insert(w)
    PROVE  SoloOK(tx[w], Held(w))'
  <1> DEFINE o == tx[w].order
             m == 2
  <1>1. CASE Abort(w)
    BY <1>1, SetTx, IdleSolo DEF Abort
  <1>2. CASE ~Abort(w)
    <2>1. Lock(w, o, m) /\ tx[w].pc = "insert" /\ o \in Orders
      BY <1>2, InvParts DEF Insert, At, TxOK, Started
    <2>2. PICK fk \in ForeignKeyPlans(o), upd \in UpdatePlans(o) :
            tx' = [tx EXCEPT ![w].pc = "stock", ![w].plan = fk \o upd]
      BY <1>2 DEF Insert
    <2>3. /\ tx'[w].kind = tx[w].kind /\ tx'[w].old = tx[w].old /\ tx'[w].order = tx[w].order
          /\ tx'[w].pc = "stock" /\ tx'[w].plan = fk \o upd
      BY <2>2, InvParts DEF TxOK, TxState
    <2>4. Sorted(fk \o upd)
      BY <2>1, InsertPlanSorted
    <2>5. m \in {1, 2}
      OBVIOUS
    <2> HIDE DEF o, m
    <2> QED
      BY <2>1, <2>3, <2>4, <2>5, OrderLockSolo
  <1> QED
    BY <1>1, <1>2

LEMMA SaveSolo ==
    ASSUME Inv, Inv', BaseInv, BaseInv', NEW w \in Workers, SoloOK(tx[w], Held(w)), SaveUpdate(w)
    PROVE  SoloOK(tx[w], Held(w))'
  <1> DEFINE o == tx[w].old
             next == IF tx[w].kind = "create" THEN "insert" ELSE "commit"
             m == 2
  <1>1. /\ tx[w].pc = "save" /\ o \in Orders
        /\ tx' = [tx EXCEPT ![w].pc = next, ![w].snap = NoRow, ![w].dirty = {}]
        /\ UNCHANGED locks \/ Lock(w, o, m)
    BY InvParts DEF SaveUpdate, At, TxOK, Started
  <1>2. /\ tx'[w].kind = tx[w].kind /\ tx'[w].old = tx[w].old /\ tx'[w].order = tx[w].order
        /\ tx'[w].pc = next
    BY <1>1, InvParts DEF TxOK, TxState
  <1>3. tx[w].kind = "create" => ~Solo(tx[w])
    BY <1>1 DEF BaseInv, WorkerOK, TxShape, Replaces, Solo
  <1>4. m \in {1, 2} /\ next # "stock" /\ (next = "commit" \/ ~Solo(tx[w]))
    BY <1>3
  <1> HIDE DEF o, m, next
  <1>5. CASE UNCHANGED locks
    BY <1>1, <1>2, <1>4, <1>5, SameLocksSolo
  <1>6. CASE Lock(w, o, m)
    BY <1>1, <1>2, <1>4, <1>6, OrderLockSolo
  <1> QED
    BY <1>1, <1>5, <1>6

LEMMA TouchStockSolo ==
    ASSUME Inv, Inv', BaseInv, BaseInv', NEW w \in Workers, SoloOK(tx[w], Held(w)), TouchStock(w)
    PROVE  SoloOK(tx[w], Held(w))'
  <1> DEFINE t == tx[w]
             s == Head(tx[w].plan)
             next == IF Tail(t.plan) # <<>> THEN "stock" ELSE IF s.mode = 3 THEN "diff" ELSE "commit"
  <1>1. CASE Abort(w)
    BY <1>1, SetTx, IdleSolo DEF Abort
  <1>2. CASE ~Abort(w)
    <2>1. /\ t.pc = "stock" /\ Lock(w, s.row, s.mode)
          /\ tx' = [tx EXCEPT ![w].plan = Tail(@), ![w].pc = next]
      BY <1>2 DEF TouchStock, At
    <2>2. /\ tx'[w].kind = t.kind /\ tx'[w].old = t.old /\ tx'[w].order = t.order
          /\ tx'[w].pc = next /\ tx'[w].plan = Tail(t.plan)
      BY <2>1, InvParts DEF TxOK, TxState
    <2>3. TxShape(t) /\ PlanOK(t.plan)
      BY <2>1 DEF BaseInv, WorkerOK, TxShape
    <2>4. s \in Statement /\ s.row \in Stock /\ s.row \in Rows /\ s.mode \in 1..3 /\ Stock \subseteq Rows
      <3>1. s \in Statement
        BY <2>3, TailFacts
      <3> QED
        BY <3>1 DEF Statement, Rows
    <2> SUFFICES ASSUME Solo(t) PROVE SoloOK(tx[w], Held(w))'
      BY <2>2 DEF SoloOK, Solo
    <2>5. s.mode # 3
      <3>1. s.mode = 3 => Freeing(t)
        BY <2>1 DEF Freeing
      <3> QED
        BY <2>1, <2>3, <3>1 DEF TxShape, EndKinds, Replaces, Solo
    <2>6. /\ \A r \in Rows : Held(w)[r] <= 2
          /\ Sorted(t.plan)
          /\ \A r, x \in Stock : Held(w)[r] >= 2 /\ Asks(t.plan, x, 2) => Before(r, x)
      BY <2>1 DEF SoloOK
    <2>7. /\ Sorted(Tail(t.plan))
          /\ s.mode = 2 => \A x : Asks(Tail(t.plan), x, 2) => Before(s.row, x)
          /\ \A x : Asks(Tail(t.plan), x, 2) => Asks(t.plan, x, 2)
      BY <2>3, <2>6, SortedTail, TailFacts
    <2>8. next \in {"stock", "commit"}
      BY <2>5
    <2> HIDE DEF s, next
    <2>9. \A r \in Rows : /\ Held(w)'[r] = IF r = s.row THEN Stronger(Held(w)[r], s.mode) ELSE Held(w)[r]
                          /\ Held(w)[r] \in 0..3
      BY <2>1, <2>4, InvParts DEF Lock, LocksOK, Held
    <2>10. \A r \in Rows : Held(w)'[r] <= 2
      BY <2>4, <2>5, <2>6, <2>9 DEF Stronger
    <2>11. ASSUME NEW r \in Stock, NEW x \in Stock, Held(w)'[r] >= 2, Asks(Tail(t.plan), x, 2)
           PROVE  Before(r, x)
      <3>1. CASE Held(w)[r] >= 2
        BY <2>6, <2>7, <2>11, <3>1
      <3>2. CASE ~(Held(w)[r] >= 2)
        <4>1. r = s.row /\ s.mode = 2
          BY <2>4, <2>5, <2>9, <2>11, <3>2 DEF Stronger
        <4> QED
          BY <2>7, <2>11, <4>1
      <3> QED
        BY <3>1, <3>2
    <2>12. /\ \A r \in Rows : Held(w)'[r] <= 2
           /\ tx'[w].pc \in {"stock", "commit"} /\ Sorted(tx'[w].plan)
           /\ \A r, x \in Stock : Held(w)'[r] >= 2 /\ Asks(tx'[w].plan, x, 2) => Before(r, x)
      BY <2>2, <2>7, <2>8, <2>10, <2>11
    <2> QED
      BY <2>12 DEF SoloOK
  <1> QED
    BY <1>1, <1>2

LEMMA QuietSolo ==
    ASSUME Inv, Inv', BaseInv, BaseInv', NEW w \in Workers, SoloOK(tx[w], Held(w)),
           ChargeCreated(w) \/ SaveSelect(w)
    PROVE  SoloOK(tx[w], Held(w))'
  <1>1. /\ UNCHANGED locks /\ tx[w].pc \in {"charge", "diff"}
        /\ tx'[w].kind = tx[w].kind /\ tx'[w].old = tx[w].old /\ tx'[w].order = tx[w].order
        /\ tx'[w].pc \in {"diff", "save"}
    BY InvParts DEF ChargeCreated, SaveSelect, At, TxOK, TxState
  <1> QED
    BY <1>1, SameLocksSolo

LEMMA EndsSolo ==
    ASSUME Inv, Inv', BaseInv, BaseInv', NEW w \in Workers,
           Reopen(w) \/ Commit(w) \/ DeadlockVictim(w) \/ Rollback(w)
    PROVE  SoloOK(tx[w], Held(w))'
  <1>1. tx'[w] = Idle
    BY SetTx DEF Reopen, Commit, DeadlockVictim, Rollback, Abort
  <1> QED
    BY <1>1, IdleSolo

LEMMA InitSolo == Init => SoloInv
  <1> SUFFICES ASSUME Init, NEW w \in Workers PROVE SoloOK(tx[w], Held(w))
    BY DEF SoloInv
  <1>1. \A r \in Rows : Held(w)[r] = 0
    BY DEF Init, Held
  <1>2. tx[w].pc = "idle"
    BY DEF Init, Idle
  <1> QED
    BY <1>1, <1>2 DEF SoloOK

LEMMA SoloNext ==
    ASSUME Inv, Inv', BaseInv, BaseInv', SoloInv, [Next]_vars PROVE SoloInv'
  <1>1. CASE UNCHANGED <<tx, locks>>
    BY <1>1 DEF SoloInv, SoloOK, Solo, Held
  <1>2. ASSUME NEW w \in Workers, Begin(w) \/ Step(w) \/ ChargeCreated(w) \/ Rollback(w)
        PROVE  SoloInv'
    <2>1. SoloOK(tx[w], Held(w))
      BY DEF SoloInv
    <2>2. SoloOK(tx[w], Held(w))'
      BY <1>2, <2>1, BeginSolo, ReadFreshSolo, LockOrderSolo, InsertManualSolo, ClaimSolo, LoseClaimSolo,
         InsertSolo, SaveSolo, TouchStockSolo, QuietSolo, EndsSolo DEF Step
    <2>3. Acts(w)
      BY <1>2, EveryActs
    <2>4. ASSUME NEW v \in Workers \ {w} PROVE SoloOK(tx[v], Held(v))'
      <3>1. (tx[v])' = tx[v] /\ Held(v)' = Held(v)
        BY <2>3 DEF Acts, Held
      <3> QED
        BY <3>1 DEF SoloInv, SoloOK, Solo
    <2> QED
      BY <2>2, <2>4 DEF SoloInv
  <1>3. ASSUME NEW o \in Orders, Lapse(o) PROVE UNCHANGED <<tx, locks>>
    BY <1>3 DEF Lapse
  <1> QED
    BY <1>1, <1>2, <1>3 DEF Next, vars

-----------------------------------------------------------------------------
(* No cycle of sales *)

LEMMA BeforeOrder ==
    /\ \A r \in Stock : ~Before(r, r)
    /\ \A r, s, x \in Stock : Before(r, s) /\ Before(s, x) => Before(r, x)
  <1>1. /\ \A r \in Stock : Rank[r] \in Nat /\ (r \in Batches \/ r \in Sectors)
        /\ \A r \in Stock : ~(r \in Batches /\ r \in Sectors)
    BY ShapeAssumption DEF Stock
  <1>2. \A r \in Stock : ~Before(r, r)
    BY <1>1 DEF Before
  <1>3. ASSUME NEW r \in Stock, NEW s \in Stock, NEW x \in Stock, Before(r, s), Before(s, x)
        PROVE  Before(r, x)
    BY <1>1, <1>3 DEF Before
  <1> QED
    BY <1>2, <1>3

(* Finitely many rows in an order: one of any set of them comes last.       *)
LEMMA SomeRowLast ==
    ASSUME NEW R, R \subseteq Stock, R # {}
    PROVE  \E r \in R : \A s \in R : ~Before(r, s)
  <1> DEFINE After(r) == {x \in Stock : Before(r, x)}
             F == {After(r) : r \in R}
  <1>1. IsFiniteSet(Stock)
    BY ShapeAssumption, FS_Union DEF Stock
  <1>2. IsWellFoundedOn(StrictSubsetOrdering(Stock), SUBSET Stock)
    BY <1>1, FS_StrictSubsetOrderingWellFounded, FS_FiniteSubsetsOfFinite
  <1>3. F \subseteq SUBSET Stock /\ F # {}
    OBVIOUS
  <1>4. \A r \in R : After(r) \in F
    OBVIOUS
  <1> HIDE DEF F
  <1>5. PICK M \in F : \A N \in F : <<N, M>> \notin StrictSubsetOrdering(Stock)
    BY <1>2, <1>3, WFMin
  <1>6. PICK r \in R : M = After(r)
    BY DEF F
  <1>7. ASSUME NEW s \in R, Before(r, s) PROVE FALSE
    <2>1. After(s) \subseteq After(r) /\ s \in After(r) /\ s \notin After(s)
      BY <1>7, BeforeOrder
    <2>2. After(s) \in SUBSET Stock /\ M \in SUBSET Stock
      BY <1>3
    <2>3. After(s) \subseteq M /\ After(s) # M /\ After(s) \in F
      BY <1>4, <1>6, <2>1
    <2> HIDE DEF After
    <2>4. <<After(s), M>> \in StrictSubsetOrdering(Stock)
      BY <2>2, <2>3 DEF StrictSubsetOrdering
    <2> QED
      BY <1>5, <2>3, <2>4
  <1> QED
    BY <1>7

(* What a worker that releases nothing may wait for: a row another wrote,   *)
(* or the manual payment another is inserting.                              *)
LEMMA SoloWants ==
    ASSUME Inv, BaseInv, SoloInv, NEW w \in Workers, ~Releases(w), NEW s \in Wants(w)
    PROVE  /\ s.row \in Rows /\ s.mode \in {1, 2}
           /\ tx[w].pc \in {"stock", "claim", "reopen", "manual", "save"}
           /\ tx[w].pc = "stock" => /\ s = Head(tx[w].plan) /\ s.row \in Stock
                                    /\ Asks(tx[w].plan, s.row, s.mode)
  <1> DEFINE t == tx[w]
  <1>1. t.pc # "own"
    BY DEF BaseInv, WorkerOK, TxShape, KindsAt, Releases
  <1>2. t.pc \in {"stock", "claim", "reopen", "manual", "save"}
    BY <1>1 DEF Wants
  <1>3. t.order \in Orders /\ t.old \in Orders /\ TxShape(t) /\ Orders \subseteq Rows /\ Stock \subseteq Rows
    BY <1>2, Acting DEF WorkerOK
  <1>4. CASE t.pc = "stock"
    <2>1. s = Head(t.plan) /\ PlanOK(t.plan)
      BY <1>3, <1>4 DEF Wants, TxShape
    <2>2. s \in Statement /\ Asks(t.plan, s.row, s.mode)
      BY <2>1, TailFacts
    <2>3. s.mode # 3
      <3>1. s.mode = 3 => Freeing(t)
        BY <1>4, <2>1 DEF Freeing
      <3> QED
        BY <1>3, <1>4, <3>1 DEF TxShape, EndKinds, Replaces, Releases
    <2> QED
      BY <1>2, <1>3, <2>1, <2>2, <2>3 DEF Statement
  <1>5. CASE t.pc # "stock"
    <2>1. s \in {[row |-> t.order, mode |-> 2], [row |-> t.order, mode |-> 1], [row |-> t.old, mode |-> 2]}
      BY <1>1, <1>2, <1>5 DEF Wants
    <2> QED
      BY <1>2, <1>3, <1>5, <2>1
  <1> QED
    BY <1>4, <1>5

LEMMA SoloBlocker ==
    ASSUME Inv, BaseInv, SoloInv, NEW w \in Workers, NEW v \in Workers, ~Releases(w), ~Releases(v),
           NEW s \in Wants(w), locks[s.row][v] + s.mode > 3, tx[v].pc # "commit"
    PROVE  s.mode = 2 /\ locks[s.row][v] >= 2 /\ tx[v].pc = "stock"
  <1>1. s.row \in Rows /\ s.mode \in {1, 2}
    BY SoloWants
  <1>2. SoloOK(tx[v], Held(v)) /\ Solo(tx[v])
    BY DEF SoloInv, Solo, Releases
  <1>3. /\ Held(v)[s.row] = locks[s.row][v] /\ Held(v)[s.row] <= 2
        /\ tx[v].pc # "stock" => Held(v)[s.row] <= 1
    BY <1>1, <1>2 DEF SoloOK, Held
  <1>4. locks[s.row][v] \in 0..3
    BY <1>1, InvParts DEF LocksOK
  <1> QED
    BY <1>1, <1>3, <1>4

(* Waiting for a stock row another sale holds, that sale waits further on.  *)
LEMMA WaitsFurther ==
    ASSUME Inv, BaseInv, SoloInv, NEW w \in Workers, NEW v \in Workers, ~Releases(w), ~Releases(v),
           tx[w].pc = "stock", tx[v].pc = "stock", NEW s \in Wants(w), NEW x \in Wants(v),
           locks[s.row][v] >= 2, x.mode = 2
    PROVE  Before(s.row, x.row)
  <1>1. s.row \in Stock /\ x.row \in Stock /\ Asks(tx[v].plan, x.row, 2)
    BY SoloWants
  <1>2. SoloOK(tx[v], Held(v)) /\ Solo(tx[v])
    BY DEF SoloInv, Solo, Releases
  <1>3. Held(v)[s.row] >= 2
    BY <1>1 DEF Held, Rows
  <1> QED
    BY <1>1, <1>2, <1>3 DEF SoloOK

LEMMA NoCycleOfSales == ASSUME Inv, BaseInv, SoloInv PROVE SalesNeverDeadlock
  <1> SUFFICES ASSUME NEW S \in SUBSET Workers, WaitCycle(S), \A w \in S : ~Releases(w)
               PROVE  FALSE
    BY DEF SalesNeverDeadlock
  <1>1. S # {} /\ \A w \in S : \E v \in S : Blocks(v, w)
    BY DEF WaitCycle
  <1>2. \A w \in S : tx[w].pc # "commit"
    BY <1>1 DEF Blocks, Wants, At
  <1>3. ASSUME NEW w \in S, tx[w].pc # "manual"
        PROVE  \E v \in S, s \in Wants(w) : s.mode = 2 /\ locks[s.row][v] >= 2 /\ tx[v].pc = "stock"
    <2>1. PICK v \in S, s \in Wants(w) : locks[s.row][v] + s.mode > 3
      BY <1>1, <1>3 DEF Blocks, At
    <2>2. s.mode = 2 /\ locks[s.row][v] >= 2 /\ tx[v].pc = "stock"
      BY <1>2, <2>1, SoloBlocker
    <2> QED
      BY <2>1, <2>2
  <1>4. \E w \in S : tx[w].pc = "stock"
    <2>1. PICK w \in S : TRUE
      BY <1>1
    <2>2. CASE tx[w].pc # "manual"
      BY <1>3, <2>2
    <2>3. CASE tx[w].pc = "manual"
      <3>1. PICK v \in S : Blocks(v, w)
        BY <1>1
      <3>2. CASE \E s \in Wants(w) : locks[s.row][v] + s.mode > 3
        BY <1>2, <3>2, SoloBlocker
      <3>3. CASE InsertedManual(v, tx[w].order)
        BY <1>3, <3>3 DEF InsertedManual, At
      <3> QED
        BY <3>1, <3>2, <3>3 DEF Blocks
    <2> QED
      BY <2>2, <2>3
  <1> DEFINE T == {w \in S : tx[w].pc = "stock"}
             R == {s.row : s \in UNION {Wants(w) : w \in T}}
  <1>5. R \subseteq Stock
    BY SoloWants
  <1>6. R # {}
    BY <1>3, <1>4
  <1>7. PICK r \in R : \A x \in R : ~Before(r, x)
    <2> HIDE DEF R
    <2> QED
      BY <1>5, <1>6, SomeRowLast
  <1>7a. PICK w \in T : \E s \in Wants(w) : s.row = r
    BY <1>7
  <1>8. PICK s \in Wants(w) : s.row = r
    BY <1>7a
  <1>9. PICK v \in S : locks[s.row][v] >= 2 /\ tx[v].pc = "stock"
    <2>1. PICK v \in S, z \in Wants(w) : locks[z.row][v] >= 2 /\ tx[v].pc = "stock"
      BY <1>3, <1>8
    <2>2. s = Head(tx[w].plan) /\ z = Head(tx[w].plan)
      BY <1>8, SoloWants
    <2> QED
      BY <2>1, <2>2
  <1>10. PICK x \in Wants(v) : x.mode = 2
    BY <1>3, <1>9
  <1>11. x.row \in R
    BY <1>9, <1>10
  <1>12. Before(r, x.row)
    BY <1>8, <1>9, <1>10, WaitsFurther
  <1> QED
    BY <1>7, <1>11, <1>12

(* Sales never wait for each other in a cycle, whatever their number and    *)
(* the order of their items: each holds only rows before the one it waits   *)
(* for, and of finitely many rows waited for one comes last.                *)
THEOREM SalesDoNotDeadlock == Spec => []SalesNeverDeadlock
  <1>1. Spec => []Inv
    BY InitInv, NextInv, PTL DEF Spec
  <1>2. Init => BaseInv /\ SoloInv
    BY InitBase, InitSolo
  <1>3. Inv /\ Inv' /\ BaseInv /\ SoloInv /\ [Next]_vars => BaseInv' /\ SoloInv'
    BY BaseNext, SoloNext
  <1>4. Inv /\ BaseInv /\ SoloInv => SalesNeverDeadlock
    BY NoCycleOfSales
  <1> QED
    BY <1>1, <1>2, <1>3, <1>4, PTL DEF Spec
=============================================================================
