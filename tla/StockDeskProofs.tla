---------------------------- MODULE StockDeskProofs ----------------------------
(***************************************************************************)
(* Proofs about StockDesk, for any number of requests, orders and batches: *)
(* the counters of a batch, what it owes, the key of a sale by e-mail, the *)
(* sums of the sector, and what the public page offers.                    *)
(*                                                                         *)
(* An order may be released twice (Expire) and put back (Back): Part then  *)
(* says which counters no longer agree with it, and of which batch nothing *)
(* is claimed any more; ReleaseInv and BackInv show that this is all.      *)
(*                                                                         *)
(* The inductive invariant adds that orders are of batches that are there, *)
(* so that one without orders has nothing in its counters and can come     *)
(* back without harm; and what an edit and a script keep of what they read *)
(* (SnapOK), exactly so while no commit has outdated the script (FreshOK). *)
(* For the sums (KInv): what is to be saved in the sector is its sum while *)
(* no commit has outdated it (FreshSums). A sum is the number of its       *)
(* units, so that one unit more or less is one element more or less.       *)
(***************************************************************************)
EXTENDS StockDesk, FiniteSetTheorems, TLAPS

Row == [there: BOOLEAN, capacity: Nat, sold: Nat, reserved: Nat, state: States]
Ids == {"key", "other"}
Item == [status: {"none", "pending", "paid", "expired", "cancelled"}, batch: Batches,
         byEmail: BOOLEAN, id: Ids, seen: SUBSET Ids]
Recount == [real: [Batches -> Nat], lapsed: SUBSET Batches, batches: SUBSET Batches, sector: BOOLEAN]

(* The sector's sums are no part of this: a step that sums writes no batch. *)
WorkOK(q) ==
    /\ DOMAIN q = {"pc", "batch", "snap", "dirty"}
    /\ q.batch \in Batches /\ q.dirty \subseteq DOMAIN NoBatch
Typed ==
    /\ batch \in [Batches -> Row] /\ order \in [Orders -> Item]
    /\ work = [w \in Workers |-> work[w]] /\ \A w \in Workers : WorkOK(work[w])
    /\ lost \subseteq (Batches \X Counters)

OrdersOf(b, S, ord) == {o \in Orders : ord[o].batch = b /\ ord[o].status \in S}
OfIn(b, S, ord) == Cardinality(OrdersOf(b, S, ord))
Ever(b, ord) == \E o \in Orders : ord[o].status # "none" /\ ord[o].batch = b

Rows ==
    \A b \in Batches :
        /\ Ever(b, order) => batch[b].there
        /\ ~Ever(b, order) => batch[b].sold = 0 /\ batch[b].reserved = 0

(* What an edit and a script have read of a batch without orders. *)
SnapOK(q, ord) ==
    /\ q.pc \in {"edit", "write"} =>
         q.snap \in Row /\ (~Ever(q.batch, ord) => q.snap.sold = 0 /\ q.snap.reserved = 0)
    /\ q.pc = "recalc" => q.snap \in Recount /\ \A b \in Batches : ~Ever(b, ord) => q.snap.real[b] = 0
    /\ q.pc = "reconcile" => q.snap \in [Batches -> Nat] /\ \A b \in Batches : ~Ever(b, ord) => q.snap[b] = 0

(* What a script has counted still holds. *)
FreshOK(q, ord, rows) ==
    /\ q.pc = "recalc" =>
         \A b \in Batches :
             /\ b \notin q.snap.lapsed => q.snap.real[b] = OfIn(b, {"pending"}, ord)
             /\ rows[b].there /\ b \notin q.snap.batches => rows[b].reserved = q.snap.real[b]
    /\ q.pc = "reconcile" => \A b \in Batches : q.snap[b] = OfIn(b, {"paid"}, ord)
Requests ==
    /\ \A w \in Workers : SnapOK(work[w], order)
    /\ \A w \in Workers \ stale : FreshOK(work[w], order, batch)

Owed ==
    /\ \A b \in Batches, x \in Counters : <<b, x>> \in lost => b \in cut
    /\ \A b \in There \ cut : batch[b].sold + batch[b].reserved <= batch[b].capacity

(* Until a checkout takes it, the key is all that a request can have read   *)
(* of a sale by e-mail; of an order that was never PENDING it has read none. *)
OneKey ==
    /\ \A o, p \in Orders : order[o].id = "key" /\ order[p].id = "key" => o = p
    /\ ~taken => \A o \in Orders : order[o].byEmail => order[o].id = "key" /\ order[o].seen \subseteq {"key"}
    /\ \A o \in Orders : order[o].status = "none" => order[o].seen = {}

IInv == Typed /\ Rows /\ Requests /\ CountersMatchOrders /\ Owed /\ OneKey

----------------------------------------------------------------------------
(* Counting orders *)

LEMMA OfType ==
    ASSUME NEW b, NEW S, NEW ord
    PROVE  /\ IsFiniteSet(OrdersOf(b, S, ord))
           /\ OfIn(b, S, ord) \in Nat
<1>1. IsFiniteSet(OrdersOf(b, S, ord))
  BY StockAssumption, FS_Subset DEF OrdersOf
<1> QED
  BY <1>1, FS_CardinalityType DEF OfIn

Counts(r, b, S) == r.batch = b /\ r.status \in S
Marked(ord, o, r) == [ord EXCEPT ![o] = r]

LEMMA OfAdd ==
    ASSUME NEW ord \in [Orders -> Item], NEW o \in Orders, NEW r \in Item, NEW b, NEW S,
           ~Counts(ord[o], b, S), Counts(r, b, S)
    PROVE  OfIn(b, S, Marked(ord, o, r)) = OfIn(b, S, ord) + 1
<1> DEFINE A == OrdersOf(b, S, ord)
           B == OrdersOf(b, S, Marked(ord, o, r))
<1>1. B = A \cup {o} /\ o \notin A
  BY DEF Counts, OrdersOf, Marked
<1>2. IsFiniteSet(A)
  BY OfType
<1> HIDE DEF A, B
<1>3. Cardinality(B) = Cardinality(A) + 1
  BY <1>1, <1>2, FS_AddElement
<1> QED
  BY <1>3 DEF A, B, OfIn

LEMMA OfSame ==
    ASSUME NEW ord \in [Orders -> Item], NEW o \in Orders, NEW r \in Item, NEW b, NEW S,
           Counts(ord[o], b, S) <=> Counts(r, b, S)
    PROVE  OfIn(b, S, Marked(ord, o, r)) = OfIn(b, S, ord)
<1> DEFINE A == OrdersOf(b, S, ord)
           B == OrdersOf(b, S, Marked(ord, o, r))
<1>1. B = A
  BY DEF Counts, OrdersOf, Marked
<1> QED
  BY <1>1 DEF OfIn

LEMMA OfDrop ==
    ASSUME NEW ord \in [Orders -> Item], NEW o \in Orders, NEW r \in Item, NEW b, NEW S,
           Counts(ord[o], b, S), ~Counts(r, b, S)
    PROVE  /\ OfIn(b, S, Marked(ord, o, r)) = OfIn(b, S, ord) - 1
           /\ OfIn(b, S, ord) > 0
<1> DEFINE A == OrdersOf(b, S, ord)
           B == OrdersOf(b, S, Marked(ord, o, r))
<1>1. B = A \ {o} /\ o \in A
  BY DEF Counts, OrdersOf, Marked
<1>2. IsFiniteSet(A) /\ IsFiniteSet(B)
  BY OfType
<1> HIDE DEF A, B
<1>3. Cardinality(B) = Cardinality(A) - 1
  BY <1>1, <1>2, FS_RemoveElement
<1>4. Cardinality(A) \in Nat /\ Cardinality(B) \in Nat
  BY <1>2, FS_CardinalityType
<1>5. Cardinality(A) > 0
  BY <1>3, <1>4
<1> QED
  BY <1>3, <1>5 DEF A, B, OfIn

LEMMA OfMoves ==
    ASSUME NEW ord \in [Orders -> Item], NEW o \in Orders, NEW r \in Item, NEW b, NEW S
    PROVE  /\ OfIn(b, S, Marked(ord, o, r)) \in Nat /\ OfIn(b, S, ord) \in Nat
           /\ ~Counts(ord[o], b, S) /\ Counts(r, b, S)
                => OfIn(b, S, Marked(ord, o, r)) = OfIn(b, S, ord) + 1
           /\ Counts(ord[o], b, S) /\ ~Counts(r, b, S)
                => OfIn(b, S, Marked(ord, o, r)) = OfIn(b, S, ord) - 1 /\ OfIn(b, S, ord) > 0
           /\ (Counts(ord[o], b, S) <=> Counts(r, b, S))
                => OfIn(b, S, Marked(ord, o, r)) = OfIn(b, S, ord)
BY OfType, OfAdd, OfDrop, OfSame

LEMMA OfBoth ==
    ASSUME NEW b, NEW ord
    PROVE  OfIn(b, {"pending", "paid"}, ord) = OfIn(b, {"pending"}, ord) + OfIn(b, {"paid"}, ord)
<1> DEFINE A == OrdersOf(b, {"pending"}, ord)
           B == OrdersOf(b, {"paid"}, ord)
           C == OrdersOf(b, {"pending", "paid"}, ord)
<1>1. C = A \cup B /\ A \cap B = {}
  BY DEF OrdersOf
<1>2. IsFiniteSet(A) /\ IsFiniteSet(B) /\ Cardinality(A) \in Nat /\ Cardinality(B) \in Nat
  BY OfType DEF OfIn
<1> HIDE DEF A, B, C
<1>3. Cardinality(C) = Cardinality(A) + Cardinality(B) - Cardinality({})
  <2>1. Cardinality(A \cup B) = Cardinality(A) + Cardinality(B) - Cardinality(A \cap B)
    BY <1>2, FS_Union
  <2> QED
    BY <1>1, <2>1
<1>4. Cardinality(C) = Cardinality(A) + Cardinality(B)
  BY <1>2, <1>3, FS_EmptySet
<1> QED
  BY <1>4 DEF A, B, C, OfIn

LEMMA OfNone ==
    ASSUME NEW b, NEW ord, ~Ever(b, ord), NEW S \in SUBSET {"pending", "paid"}
    PROVE  OfIn(b, S, ord) = 0
<1>1. OrdersOf(b, S, ord) = {}
  BY DEF Ever, OrdersOf
<1> QED
  BY <1>1, FS_EmptySet DEF OfIn

LEMMA OfIs == ASSUME NEW b, NEW S PROVE Of(b, S) = OfIn(b, S, order)
BY DEF Of, OfIn, OrdersOf

LEMMA OwedGives == ASSUME IInv PROVE OversoldOnlyByCut
<1> SUFFICES ASSUME NEW b \in There \ cut PROVE Of(b, {"pending", "paid"}) <= batch[b].capacity
  BY DEF OversoldOnlyByCut
<1>1. <<b, "sold">> \notin lost /\ <<b, "reserved">> \notin lost
  BY DEF IInv, Owed, There, Counters
<1>2. batch[b].sold = OfIn(b, {"paid"}, order) /\ batch[b].reserved = OfIn(b, {"pending"}, order)
  BY <1>1, OfIs DEF IInv, CountersMatchOrders
<1>3. batch[b].sold + batch[b].reserved <= batch[b].capacity /\ batch[b] \in Row
  BY DEF IInv, Owed, There, Typed
<1> QED
  BY <1>2, <1>3, OfBoth, OfIs DEF Row

LEMMA KeyGives == ASSUME IInv PROVE SoldOncePerKey
<1> SUFFICES ASSUME ~taken PROVE Cardinality({o \in Orders : order[o].byEmail}) <= 1
  BY DEF SoldOncePerKey
<1> DEFINE S == {o \in Orders : order[o].byEmail}
<1>1. \A o, p \in S : o = p
  BY DEF IInv, OneKey
<1>2. CASE S = {}
  BY <1>2, FS_EmptySet
<1>3. CASE S # {}
  <2>1. PICK o \in S : S = {o}
    BY <1>1, <1>3
  <2> QED
    BY <2>1, FS_Singleton
<1> QED
  BY <1>2, <1>3

(* The counters of every batch, there or not. *)
LEMMA Counted ==
    ASSUME IInv, NEW b \in Batches
    PROVE  /\ batch[b] \in Row
           /\ <<b, "sold">> \notin lost => batch[b].sold = OfIn(b, {"paid"}, order)
           /\ <<b, "reserved">> \notin lost => batch[b].reserved = OfIn(b, {"pending"}, order)
<1>1. batch[b] \in Row
  BY DEF IInv, Typed
<1>2. CASE batch[b].there
  BY <1>1, <1>2, OfIs DEF IInv, CountersMatchOrders, There
<1>3. CASE ~batch[b].there
  <2>1. ~Ever(b, order)
    BY <1>3 DEF IInv, Rows
  <2>2. batch[b].sold = 0 /\ batch[b].reserved = 0
    BY <2>1 DEF IInv, Rows
  <2>3. OfIn(b, {"paid"}, order) = 0 /\ OfIn(b, {"pending"}, order) = 0
    BY <2>1, OfNone
  <2> QED
    BY <1>1, <2>2, <2>3
<1> QED
  BY <1>2, <1>3

LEMMA Quiet ==
    ASSUME NEW q, q.pc \notin {"edit", "write", "recalc", "reconcile"}
    PROVE  \A ord, rows : SnapOK(q, ord) /\ FreshOK(q, ord, rows)
BY DEF SnapOK, FreshOK

LEMMA AnyType == AnyBatch \in Batches /\ NoBatch \in Row /\ NoOrder \in Item /\ WorkOK(Idle) /\ Idle.pc = "idle"
<1>1. AnyBatch \in Batches
  BY StockAssumption DEF AnyBatch
<1> QED
  BY <1>1 DEF NoBatch, Row, States, NoOrder, Item, Ids, WorkOK, Idle

LEMMA NewType ==
    ASSUME NEW c \in Nat, NEW s \in States
    PROVE  /\ NewBatch(c, s) \in Row /\ NewBatch(c, s).there
           /\ NewBatch(c, s).capacity = c /\ NewBatch(c, s).sold = 0 /\ NewBatch(c, s).reserved = 0
BY DEF NewBatch, NoBatch, Row

LEMMA InitInv == ASSUME Init PROVE IInv
<1>1. PICK c \in Openings :
        batch = [b \in Batches |-> IF c[b] = 0 THEN NoBatch ELSE NewBatch(c[b], "open")]
  BY DEF Init
<1>2. \A b \in Batches : c[b] \in Nat
  BY StockAssumption
<1>3. ASSUME NEW b \in Batches PROVE batch[b] \in Row /\ batch[b].sold = 0 /\ batch[b].reserved = 0
  <2>1. CASE c[b] = 0
    BY <1>1, <2>1, AnyType DEF NoBatch
  <2>2. CASE c[b] # 0
    BY <1>1, <1>2, <2>2, NewType DEF States
  <2> QED
    BY <2>1, <2>2
<1>4. batch \in [Batches -> Row]
  BY <1>1, <1>3
<1>5. /\ order = [o \in Orders |-> NoOrder] /\ \A o \in Orders : order[o].status = "none" /\ order[o].id = "other"
      /\ \A o \in Orders : ~order[o].byEmail /\ order[o].seen = {}
  BY DEF Init, NoOrder
<1>6. \A b \in Batches : ~Ever(b, order)
  BY <1>5 DEF Ever
<1>7. Typed
  BY <1>4, <1>5, AnyType DEF Init, Typed
<1>8. Requests
  BY AnyType, Quiet DEF Init, Requests
<1>9. CountersMatchOrders
  BY <1>3, <1>6, OfNone, OfIs DEF CountersMatchOrders, There
<1>10. Owed
  BY <1>3 DEF Init, Owed, There, Row
<1> QED
  BY <1>3, <1>5, <1>6, <1>7, <1>8, <1>9, <1>10 DEF IInv, Rows, OneKey

----------------------------------------------------------------------------
(* Steps that write no batch and no order *)

LEMMA WorkIs ==
    ASSUME IInv, NEW w \in Workers
    PROVE  /\ WorkOK(work[w]) /\ SnapOK(work[w], order)
           /\ w \notin stale => FreshOK(work[w], order, batch)
BY DEF IInv, Typed, Requests

LEMMA WorkChange ==
    ASSUME IInv, NEW w \in Workers, NEW q, WorkOK(q), work' = [work EXCEPT ![w] = q]
    PROVE  /\ work' = [v \in Workers |-> work'[v]] /\ work'[w] = q
           /\ \A v \in Workers \ {w} : work'[v] = work[v]
           /\ \A v \in Workers : WorkOK(work'[v])
<1>1. work = [v \in Workers |-> work[v]] /\ \A v \in Workers : WorkOK(work[v])
  BY DEF IInv, Typed
<1> QED
  BY <1>1

LEMMA MoveInv ==
    ASSUME IInv, NEW w \in Workers, NEW q, WorkOK(q), work' = [work EXCEPT ![w] = q],
           SnapOK(q, order), FreshOK(q, order, batch) \/ w \in stale',
           UNCHANGED <<batch, order, lost, cut, taken>>, stale \ {w} \subseteq stale'
    PROVE  IInv'
<1>1. /\ work' = [v \in Workers |-> work'[v]] /\ work'[w] = q
      /\ \A v \in Workers \ {w} : work'[v] = work[v]
      /\ \A v \in Workers : WorkOK(work'[v])
  BY WorkChange
<1>2. Typed'
  BY <1>1 DEF IInv, Typed
<1>3. (Rows /\ CountersMatchOrders /\ Owed /\ OneKey)'
  <2>1. (Rows /\ CountersMatchOrders /\ Owed)'
    BY DEF IInv, Rows, CountersMatchOrders, Owed, There, Of
  <2>2. OneKey'
    BY DEF IInv, OneKey
  <2> QED
    BY <2>1, <2>2
<1>4. Requests'
  <2> SUFFICES ASSUME NEW v \in Workers
               PROVE  SnapOK(work'[v], order) /\ (v \notin stale' => FreshOK(work'[v], order, batch))
    BY DEF Requests
  <2>1. CASE v = w
    BY <2>1, <1>1
  <2>2. CASE v # w
    BY <2>2, <1>1, WorkIs
  <2> QED
    BY <2>1, <2>2
<1> QED
  BY <1>2, <1>3, <1>4 DEF IInv

(* Only the program counter, or also the batch and what was read.           *)
Went(q, pc) == [q EXCEPT !.pc = pc]
Asked(pc, b, snap) == [Idle EXCEPT !.pc = pc, !.batch = b, !.snap = snap]
LEMMA WentType ==
    ASSUME NEW q, WorkOK(q), NEW pc
    PROVE  /\ WorkOK(Went(q, pc)) /\ Went(q, pc).pc = pc /\ Went(q, pc).snap = q.snap
           /\ Went(q, pc).batch = q.batch /\ Went(q, pc).dirty = q.dirty
BY DEF WorkOK, Went
LEMMA AskedType ==
    ASSUME NEW pc, NEW b \in Batches, NEW snap
    PROVE  LET r == Asked(pc, b, snap) IN
           WorkOK(r) /\ r.pc = pc /\ r.batch = b /\ r.snap = snap
BY DEF WorkOK, Asked, Idle

LEMMA FinishInv ==
    ASSUME IInv, NEW w \in Workers, Finish(w), UNCHANGED <<batch, order, lost, cut, taken>>,
           stale \ {w} \subseteq stale'
    PROVE  IInv'
<1>1. WorkOK(Idle) /\ SnapOK(Idle, order) /\ FreshOK(Idle, order, batch)
  BY AnyType, Quiet
<1> QED
  BY <1>1, MoveInv DEF Finish

LEMMA LooksInv ==
    ASSUME IInv, NEW w \in Workers,
           FindKey(w) \/ SumBatches(w) \/ SaveSector(w) \/ Fail(w) \/ \E b \in Batches : Choose(w, b)
    PROVE  IInv'
<1>0. WorkOK(work[w]) /\ work = [v \in Workers |-> work[v]]
  BY WorkIs DEF IInv, Typed
<1>1. CASE FindKey(w)
  <2>1. work' = [work EXCEPT ![w] = Went(work[w], "sell")] /\ UNCHANGED <<batch, order, stale, lost, cut, taken>>
    BY <1>0, <1>1 DEF FindKey, Goto, Went, history
  <2>2. WorkOK(Went(work[w], "sell")) /\ Went(work[w], "sell").pc = "sell"
    BY <1>0, WentType
  <2> HIDE DEF Went
  <2>3. SnapOK(Went(work[w], "sell"), order) /\ FreshOK(Went(work[w], "sell"), order, batch)
    BY <2>2, Quiet
  <2> QED
    BY <2>1, <2>2, <2>3, MoveInv
<1>2. CASE SumBatches(w)
  <2> DEFINE q == [work[w] EXCEPT !.pc = "sector", !.snap = SectorSums]
  <2>1. work' = [work EXCEPT ![w] = q] /\ UNCHANGED <<batch, order, lost, cut, taken>> /\ stale' = stale \ {w}
    BY <1>0, <1>2 DEF SumBatches
  <2>2. WorkOK(q) /\ q.pc = "sector"
    BY <1>0 DEF WorkOK
  <2> HIDE DEF q
  <2>3. SnapOK(q, order) /\ FreshOK(q, order, batch)
    BY <2>2, Quiet
  <2> QED
    BY <2>1, <2>2, <2>3, MoveInv
<1>3. CASE SaveSector(w) \/ Fail(w)
  BY <1>3, FinishInv DEF SaveSector, Fail, Outdate
<1>4. ASSUME NEW b \in Batches, Choose(w, b) PROVE IInv'
  <2> DEFINE q == [work[w] EXCEPT !.pc = "create", !.batch = b]
  <2>1. work' = [work EXCEPT ![w] = q] /\ UNCHANGED <<batch, order, lost, cut, taken, stale>>
    BY <1>0, <1>4 DEF Choose, history
  <2>2. WorkOK(q) /\ q.pc = "create"
    BY <1>0 DEF WorkOK
  <2> HIDE DEF q
  <2>3. SnapOK(q, order) /\ FreshOK(q, order, batch)
    BY <2>2, Quiet
  <2> QED
    BY <2>1, <2>2, <2>3, MoveInv
<1> QED
  BY <1>1, <1>2, <1>3, <1>4

----------------------------------------------------------------------------
(* Requests that read what they will write *)

LEMMA AskInv ==
    ASSUME IInv, NEW w \in Workers, NEW k, NEW b \in Batches, NEW pc, NEW snap,
           Request(w, k, b, pc, snap), UNCHANGED <<batch, order, lost, cut, taken>>,
           SnapOK(Asked(pc, b, snap), order), FreshOK(Asked(pc, b, snap), order, batch),
           stale \ {w} \subseteq stale'
    PROVE  IInv'
<1>1. work' = [work EXCEPT ![w] = Asked(pc, b, snap)]
  BY DEF Request, Asked
<1>2. WorkOK(Asked(pc, b, snap))
  BY AskedType
<1> QED
  BY <1>1, <1>2, MoveInv

LEMMA EditInv ==
    ASSUME IInv, NEW w \in Workers, NEW b \in Batches, Edit(w, b) \/ Remove(w, b)
    PROVE  IInv'
<1>1. UNCHANGED <<batch, order, lost, cut, taken, stale>> /\ batch[b] \in Row
  BY DEF Edit, Remove, history, IInv, Typed
<1>2. CASE Remove(w, b)
  <2>1. Asked("delete", b, NoBatch).pc = "delete"
    BY AskedType
  <2>2. SnapOK(Asked("delete", b, NoBatch), order) /\ FreshOK(Asked("delete", b, NoBatch), order, batch)
    BY <2>1, Quiet
  <2> QED
    BY <1>1, <1>2, <2>2, AskInv DEF Remove
<1>3. CASE Edit(w, b)
  <2>1. PICK new \in Changes(b) : Request(w, "write", b, "edit", new)
    BY <1>3 DEF Edit
  <2>2. new \in Row /\ new.sold = batch[b].sold /\ new.reserved = batch[b].reserved
    <3>1. CASE \E c \in Capacities : new = [batch[b] EXCEPT !.capacity = c]
      BY <1>1, <3>1, StockAssumption DEF Row
    <3>2. CASE \E x \in Settings : new = [batch[b] EXCEPT !.state = x]
      BY <1>1, <3>2, StockAssumption DEF Row
    <3> QED
      BY <3>1, <3>2 DEF Changes
  <2> DEFINE q == Asked("edit", b, new)
  <2>3. q.pc = "edit" /\ q.batch = b /\ q.snap = new
    BY AskedType
  <2> HIDE DEF q
  <2>4. SnapOK(q, order) /\ FreshOK(q, order, batch)
    BY <2>2, <2>3 DEF SnapOK, FreshOK, IInv, Rows
  <2> QED
    BY <1>1, <2>1, <2>4, AskInv DEF q
<1> QED
  BY <1>2, <1>3

LEMMA DiffInv ==
    ASSUME IInv, NEW w \in Workers, Diff(w)
    PROVE  IInv'
<1> DEFINE d == {x \in DOMAIN NoBatch : work[w].snap[x] # batch[work[w].batch][x]}
           q == [work[w] EXCEPT !.pc = "write", !.dirty = d]
<1>1. WorkOK(work[w]) /\ SnapOK(work[w], order) /\ work[w].pc = "edit" /\ work = [v \in Workers |-> work[v]]
  BY WorkIs DEF Diff, At, IInv, Typed
<1>2. d \subseteq DOMAIN NoBatch
  OBVIOUS
<1>3. work' = [work EXCEPT ![w].pc = "write", ![w].dirty = d]
      /\ UNCHANGED <<batch, order, lost, cut, taken, stale>>
  BY DEF Diff, history
<1> HIDE DEF d
<1>4. work' = [work EXCEPT ![w] = q]
  BY <1>1, <1>3
<1>5. /\ WorkOK(q) /\ q.pc = "write" /\ q.snap = work[w].snap /\ q.batch = work[w].batch
  BY <1>1, <1>2 DEF WorkOK
<1> HIDE DEF q
<1>6. SnapOK(q, order) /\ FreshOK(q, order, batch)
  BY <1>1, <1>5 DEF SnapOK, FreshOK
<1> QED
  BY <1>3, <1>4, <1>5, <1>6, MoveInv

LEMMA RecountIs ==
    ASSUME IInv, NEW lapsed \in SUBSET {o \in Orders : order[o].status = "pending"}
    PROVE  /\ Real(lapsed) \in [Batches -> Nat]
           /\ \A b \in Batches : ~Ever(b, order) => Real(lapsed)[b] = 0
           /\ \A b \in Batches : b \notin {order[o].batch : o \in lapsed}
                                   => Real(lapsed)[b] = OfIn(b, {"pending"}, order)
<1> DEFINE S(b) == {o \in Orders \ lapsed : order[o].batch = b /\ order[o].status = "pending"}
<1>1. ASSUME NEW b \in Batches PROVE S(b) \subseteq Orders
  OBVIOUS
<1>2. ASSUME NEW b \in Batches PROVE Cardinality(S(b)) \in Nat
  BY <1>1, StockAssumption, FS_Subset, FS_CardinalityType
<1>3. Real(lapsed) = [b \in Batches |-> Cardinality(S(b))]
  BY DEF Real
<1>4. ASSUME NEW b \in Batches, ~Ever(b, order) PROVE Real(lapsed)[b] = 0
  <2>1. S(b) = {}
    BY <1>4 DEF Ever
  <2> QED
    BY <2>1, <1>3, FS_EmptySet
<1>5. ASSUME NEW b \in Batches, b \notin {order[o].batch : o \in lapsed}
      PROVE  Real(lapsed)[b] = OfIn(b, {"pending"}, order)
  <2>1. S(b) = OrdersOf(b, {"pending"}, order)
    BY <1>5 DEF OrdersOf
  <2> QED
    BY <2>1, <1>3 DEF OfIn
<1> HIDE DEF S
<1> QED
  BY <1>2, <1>3, <1>4, <1>5

LEMMA ScriptInv ==
    ASSUME IInv, NEW w \in Workers, Recalc(w) \/ Reconcile(w)
    PROVE  IInv'
<1>0. AnyBatch \in Batches /\ order \in [Orders -> Item] /\ batch \in [Batches -> Row]
  BY AnyType DEF IInv, Typed
<1>1. CASE Recalc(w)
  <2> DEFINE Snap(lapsed) ==
        [real |-> Real(lapsed), lapsed |-> {order[o].batch : o \in lapsed},
         batches |-> {b \in There : batch[b].reserved # Real(lapsed)[b]},
         sector |-> sector.reserved # Total(Real(lapsed))]
  <2>1. PICK lapsed \in SUBSET {o \in Orders : order[o].status = "pending"} :
          Request(w, "other", AnyBatch, "recalc", Snap(lapsed))
    BY <1>1 DEF Recalc
  <2> DEFINE s == Snap(lapsed)
             q == Asked("recalc", AnyBatch, s)
  <2>2. /\ s.real = Real(lapsed) /\ s.lapsed = {order[o].batch : o \in lapsed}
        /\ s.batches = {b \in There : batch[b].reserved # Real(lapsed)[b]}
    OBVIOUS
  <2>3. s \in Recount
    <3>1. Real(lapsed) \in [Batches -> Nat]
      BY RecountIs
    <3>2. {order[o].batch : o \in lapsed} \in SUBSET Batches
      BY <1>0 DEF Item
    <3>3. {b \in There : batch[b].reserved # Real(lapsed)[b]} \in SUBSET Batches
      BY DEF There
    <3>4. (sector.reserved # Total(Real(lapsed))) \in BOOLEAN
      OBVIOUS
    <3> QED
      BY <3>1, <3>2, <3>3, <3>4 DEF Recount
  <2>4. q.pc = "recalc" /\ q.snap = s
    BY <1>0, AskedType
  <2>5. Request(w, "other", AnyBatch, "recalc", s)
    BY <2>1
  <2> HIDE DEF Snap, s, q
  <2>6. SnapOK(q, order) /\ FreshOK(q, order, batch)
    <3>1. SnapOK(q, order)
      BY <2>2, <2>3, <2>4, RecountIs DEF SnapOK
    <3>2. \A b \in Batches : b \notin s.lapsed => s.real[b] = OfIn(b, {"pending"}, order)
      BY <2>2, RecountIs
    <3>3. \A b \in Batches : batch[b].there /\ b \notin s.batches => batch[b].reserved = s.real[b]
      BY <2>2 DEF There
    <3> QED
      BY <2>4, <3>1, <3>2, <3>3 DEF FreshOK
  <2> QED
    BY <1>0, <1>1, <2>5, <2>6, AskInv DEF Recalc, q
<1>2. CASE Reconcile(w)
  <2> DEFINE s == [b \in Batches |-> Of(b, {"paid"})]
             q == Asked("reconcile", AnyBatch, s)
  <2>1. \A b \in Batches : s[b] = OfIn(b, {"paid"}, order)
    BY OfIs
  <2>2. s = [b \in Batches |-> s[b]]
    OBVIOUS
  <2>3. q.pc = "reconcile" /\ q.snap = s
    BY <1>0, AskedType
  <2>4. Request(w, "other", AnyBatch, "reconcile", s)
    BY <1>2 DEF Reconcile
  <2> HIDE DEF s, q
  <2>5. s \in [Batches -> Nat] /\ \A b \in Batches : ~Ever(b, order) => s[b] = 0
    BY <2>1, <2>2, OfType, OfNone
  <2>6. SnapOK(q, order) /\ FreshOK(q, order, batch)
    BY <2>1, <2>3, <2>5 DEF SnapOK, FreshOK
  <2> QED
    BY <1>0, <1>2, <2>4, <2>6, AskInv DEF Reconcile, q
<1> QED
  BY <1>1, <1>2

----------------------------------------------------------------------------
(* Steps that write *)

Later == \A b \in Batches : Ever(b, order) => Ever(b, order')

(* A commit outdates the scripts of the others. *)
LEMMA OutdatedInv ==
    ASSUME IInv, NEW v \in Workers, work'[v] = work[v], Later,
           v \notin stale' => work[v].pc \notin {"recalc", "reconcile"}
    PROVE  SnapOK(work'[v], order') /\ (v \notin stale' => FreshOK(work'[v], order', batch'))
<1>1. SnapOK(work[v], order)
  BY WorkIs
<1>2. SnapOK(work[v], order')
  <2> DEFINE q == work[v]
  <2>1. SnapOK(q, order)
    BY <1>1
  <2> HIDE DEF q
  <2>2. q.pc \in {"edit", "write"} =>
          q.snap \in Row /\ (~Ever(q.batch, order) => q.snap.sold = 0 /\ q.snap.reserved = 0)
    BY <2>1 DEF SnapOK
  <2>3. q.batch \in Batches
    BY WorkIs DEF WorkOK, q
  <2> QED
    BY <2>1, <2>2, <2>3 DEF SnapOK, Later, q
<1>3. v \notin stale' => FreshOK(work[v], order', batch')
  BY DEF FreshOK
<1> QED
  BY <1>2, <1>3

LEMMA CommitInv ==
    ASSUME IInv, NEW w \in Workers, NEW q, WorkOK(q), work' = [work EXCEPT ![w] = q],
           q.pc \notin {"edit", "write", "recalc", "reconcile"}, Outdate(w), Later
    PROVE  /\ Requests' /\ work' = [v \in Workers |-> work'[v]]
           /\ \A v \in Workers : WorkOK(work'[v])
<1>1. /\ work' = [v \in Workers |-> work'[v]] /\ work'[w] = q
      /\ \A v \in Workers \ {w} : work'[v] = work[v]
      /\ \A v \in Workers : WorkOK(work'[v])
  BY WorkChange
<1>2. ASSUME NEW v \in Workers
      PROVE  SnapOK(work'[v], order') /\ (v \notin stale' => FreshOK(work'[v], order', batch'))
  <2>1. CASE v = w
    BY <2>1, <1>1, Quiet
  <2>2. CASE v # w
    <3>1. v \notin stale' => work[v].pc \notin {"recalc", "reconcile"}
      BY <2>2 DEF Outdate, Summing
    <3> QED
      BY <2>2, <3>1, <1>1, OutdatedInv
  <2> QED
    BY <2>1, <2>2
<1> QED
  BY <1>1, <1>2 DEF Requests

Counting(r, s, x) == [r EXCEPT !.sold = s, !.reserved = x]
LEMMA CountingType ==
    ASSUME NEW r \in Row, NEW s \in Nat, NEW x \in Nat
    PROVE  /\ Counting(r, s, x) \in Row /\ Counting(r, s, x).there = r.there
           /\ Counting(r, s, x).capacity = r.capacity
           /\ Counting(r, s, x).sold = s /\ Counting(r, s, x).reserved = x
BY DEF Row, Counting

(* An order that is bought, ends or is put back.                            *)
LEMMA KeyStep ==
    ASSUME IInv, NEW o \in Orders, NEW r \in Item, order' = [order EXCEPT ![o] = r],
           r.status # "none", r.id = "key" => Keyed \subseteq {o}, taken => taken',
           ~taken' /\ r.byEmail => r.id = "key" /\ r.seen \subseteq {"key"}
    PROVE  OneKey'
<1>1. order \in [Orders -> Item]
  BY DEF IInv, Typed
<1>2. order'[o] = r /\ \A p \in Orders \ {o} : order'[p] = order[p]
  BY <1>1
<1>3. ASSUME NEW p \in Orders, NEW q \in Orders, order'[p].id = "key", order'[q].id = "key" PROVE p = q
  <2>1. \A x \in Orders \ {o} : order'[x].id = "key" => x \in Keyed
    BY <1>2 DEF Keyed
  <2>2. CASE order'[o].id = "key"
    BY <1>2, <1>3, <2>1, <2>2
  <2>3. CASE order'[o].id # "key"
    BY <1>2, <1>3, <2>3 DEF IInv, OneKey
  <2> QED
    BY <2>2, <2>3
<1>4. ASSUME ~taken', NEW p \in Orders, order'[p].byEmail
      PROVE  order'[p].id = "key" /\ order'[p].seen \subseteq {"key"}
  BY <1>2, <1>4 DEF IInv, OneKey
<1>5. ASSUME NEW p \in Orders, order'[p].status = "none" PROVE order'[p].seen = {}
  BY <1>2, <1>5 DEF IInv, OneKey
<1> QED
  BY <1>3, <1>4, <1>5 DEF OneKey

(* An order of one unit of a batch that has it left, reserved or sold.      *)
LEMMA BuyInv ==
    ASSUME IInv, NEW w \in Workers, NEW o \in Orders, NEW b \in Batches, NEW r \in Item, NEW n \in {0, 1},
           order[o].status = "none", Finish(w), Outdate(w), UNCHANGED <<lost, cut, taken>>,
           order' = [order EXCEPT ![o] = r], r.batch = b,
           r.status = IF n = 1 THEN "paid" ELSE "pending", Left1(b), Reserve(b, n),
           r.id = "key" => Keyed = {}, r.byEmail => r.id = "key" /\ r.seen \subseteq {"key"}
    PROVE  IInv'
<1>1. /\ batch \in [Batches -> Row] /\ order \in [Orders -> Item] /\ batch[b] \in Row
  BY DEF IInv, Typed
<1>2. order' \in [Orders -> Item] /\ order'[o] = r /\ \A p \in Orders \ {o} : order'[p] = order[p]
  BY <1>1
<1> DEFINE s == batch[b].sold + n
           x == batch[b].reserved + (1 - n)
           row == Counting(batch[b], s, x)
<1>3. /\ row \in Row /\ row.there = batch[b].there /\ row.capacity = batch[b].capacity
      /\ row.sold = batch[b].sold + n /\ row.reserved = batch[b].reserved + (1 - n)
  <2>1. batch[b].sold \in Nat /\ batch[b].reserved \in Nat
    BY <1>1 DEF Row
  <2>2. s \in Nat /\ x \in Nat
    BY <2>1
  <2> HIDE DEF s, x
  <2>3. /\ row \in Row /\ row.there = batch[b].there /\ row.capacity = batch[b].capacity
        /\ row.sold = s /\ row.reserved = x
    BY <1>1, <2>2, CountingType
  <2> HIDE DEF row
  <2> QED
    BY <2>3 DEF s, x
<1>4. batch' = [batch EXCEPT ![b] = row]
  BY <1>1 DEF Reserve, Counting
<1> HIDE DEF s, x, row
<1>5. /\ batch' \in [Batches -> Row] /\ batch'[b] = row /\ \A c \in Batches \ {b} : batch'[c] = batch[c]
  BY <1>1, <1>3, <1>4
<1>6. batch[b].there /\ batch[b].sold + batch[b].reserved + 1 <= batch[b].capacity
  BY <1>1 DEF Left1, Row
<1>7. /\ \A c \in Batches \ {b} : Ever(c, order') <=> Ever(c, order)
      /\ Ever(b, order')
  BY <1>2 DEF Ever
<1>8. Later
  BY <1>7 DEF Later
<1>9. Requests' /\ Typed'
  <2>1. WorkOK(Idle) /\ Idle.pc \notin {"edit", "write", "recalc", "reconcile"}
    BY AnyType
  <2> QED
    BY <1>2, <1>5, <1>8, <2>1, CommitInv DEF Finish, Typed, IInv
<1>10. Rows'
  <2> SUFFICES ASSUME NEW c \in Batches
               PROVE  /\ Ever(c, order') => batch'[c].there
                      /\ ~Ever(c, order') => batch'[c].sold = 0 /\ batch'[c].reserved = 0
    BY DEF Rows
  <2>1. CASE c = b
    BY <2>1, <1>3, <1>5, <1>6, <1>7
  <2>2. CASE c # b
    BY <2>2, <1>5, <1>7 DEF IInv, Rows
  <2> QED
    BY <2>1, <2>2
<1>11. CountersMatchOrders'
  <2> SUFFICES ASSUME NEW c \in Batches
               PROVE  /\ <<c, "sold">> \notin lost => batch'[c].sold = OfIn(c, {"paid"}, order')
                      /\ <<c, "reserved">> \notin lost => batch'[c].reserved = OfIn(c, {"pending"}, order')
    BY DEF CountersMatchOrders, Of, OfIn, OrdersOf, There, Row
  <2>1. order' = Marked(order, o, r)
    BY DEF Marked
  <2>2. ~Counts(order[o], c, {"paid"}) /\ ~Counts(order[o], c, {"pending"})
    BY DEF Counts
  <2>3. /\ Counts(r, c, {"paid"}) <=> c = b /\ n = 1
        /\ Counts(r, c, {"pending"}) <=> c = b /\ n = 0
    BY DEF Counts
  <2>4. /\ OfIn(c, {"paid"}, order) \in Nat
        /\ c = b /\ n = 1 => OfIn(c, {"paid"}, order') = OfIn(c, {"paid"}, order) + 1
        /\ ~(c = b /\ n = 1) => OfIn(c, {"paid"}, order') = OfIn(c, {"paid"}, order)
    <3> DEFINE S == {"paid"}
    <3>1. /\ OfIn(c, S, order) \in Nat
          /\ ~Counts(order[o], c, S) /\ Counts(r, c, S)
               => OfIn(c, S, Marked(order, o, r)) = OfIn(c, S, order) + 1
          /\ (Counts(order[o], c, S) <=> Counts(r, c, S))
               => OfIn(c, S, Marked(order, o, r)) = OfIn(c, S, order)
      <4> HIDE DEF S
      <4> QED
        BY <1>1, OfMoves
    <3>2. ~Counts(order[o], c, S) /\ (Counts(r, c, S) <=> c = b /\ n = 1)
      BY <2>2, <2>3
    <3> QED
      BY <2>1, <3>1, <3>2
  <2>5. /\ OfIn(c, {"pending"}, order) \in Nat
        /\ c = b /\ n = 0 => OfIn(c, {"pending"}, order') = OfIn(c, {"pending"}, order) + 1
        /\ ~(c = b /\ n = 0) => OfIn(c, {"pending"}, order') = OfIn(c, {"pending"}, order)
    <3> DEFINE S == {"pending"}
    <3>1. /\ OfIn(c, S, order) \in Nat
          /\ ~Counts(order[o], c, S) /\ Counts(r, c, S)
               => OfIn(c, S, Marked(order, o, r)) = OfIn(c, S, order) + 1
          /\ (Counts(order[o], c, S) <=> Counts(r, c, S))
               => OfIn(c, S, Marked(order, o, r)) = OfIn(c, S, order)
      <4> HIDE DEF S
      <4> QED
        BY <1>1, OfMoves
    <3>2. ~Counts(order[o], c, S) /\ (Counts(r, c, S) <=> c = b /\ n = 0)
      BY <2>2, <2>3
    <3> QED
      BY <2>1, <3>1, <3>2
  <2>6. CASE c = b
    <3>1. CASE n = 1
      BY <2>4, <2>5, <2>6, <3>1, <1>3, <1>5, Counted DEF Row
    <3>2. CASE n = 0
      BY <2>4, <2>5, <2>6, <3>2, <1>3, <1>5, Counted DEF Row
    <3> QED
      BY <3>1, <3>2
  <2>7. CASE c # b
    BY <2>4, <2>5, <2>7, <1>5, Counted
  <2> QED
    BY <2>6, <2>7
<1>12. Owed'
  <2> SUFFICES ASSUME NEW c \in Batches \ cut, batch'[c].there
               PROVE  batch'[c].sold + batch'[c].reserved <= batch'[c].capacity
    BY DEF IInv, Owed, There
  <2>1. CASE c = b
    BY <2>1, <1>1, <1>3, <1>5, <1>6 DEF Row
  <2>2. CASE c # b
    BY <2>2, <1>5 DEF IInv, Owed, There
  <2> QED
    BY <2>1, <2>2
<1>13. OneKey'
  <2>1. r.status # "none" /\ taken' = taken /\ r \in Item /\ o \in Orders
    OBVIOUS
  <2>2. r.id = "key" => Keyed \subseteq {o}
    OBVIOUS
  <2>3. ~taken' /\ r.byEmail => r.id = "key" /\ r.seen \subseteq {"key"}
    OBVIOUS
  <2>4. order' = [order EXCEPT ![o] = r]
    OBVIOUS
  <2>5. taken => taken'
    BY <2>1
  <2> QED
    BY <2>1, <2>2, <2>3, <2>4, <2>5, KeyStep, Zenon
<1> QED
  BY <1>9, <1>10, <1>11, <1>12, <1>13 DEF IInv

LEMMA SalesInv ==
    ASSUME IInv, NEW w \in Workers, NEW o \in Orders,
           Create(w, o) \/ \E b \in Batches, s \in {"pending", "paid"} : Sell(w, o, b, s)
    PROVE  IInv'
<1>1. CASE Create(w, o)
  <2> DEFINE b == work[w].batch
             r == [NoOrder EXCEPT !.status = "pending", !.batch = b, !.seen = {"other"}]
  <2>1. b \in Batches
    BY WorkIs DEF WorkOK
  <2>2. CASE Left1(b)
    <3>1. r \in Item /\ r.batch = b /\ r.status = "pending" /\ r.id = "other" /\ ~r.byEmail
      BY <2>1, AnyType DEF Item, Ids, NoOrder
    <3>2. /\ order[o].status = "none" /\ Finish(w) /\ Outdate(w) /\ UNCHANGED <<lost, cut, taken>>
          /\ order' = [order EXCEPT ![o] = r] /\ Reserve(b, 0)
      BY <1>1, <2>2 DEF Create, New
    <3> HIDE DEF b, r
    <3>3. (r.id = "key" => Keyed = {}) /\ (r.byEmail => r.id = "key" /\ r.seen \subseteq {"key"})
      BY <3>1
    <3> DEFINE n == 0
    <3>4. n \in {0, 1} /\ r.status = IF n = 1 THEN "paid" ELSE "pending"
      BY <3>1
    <3>5. Reserve(b, n)
      BY <3>2
    <3> HIDE DEF n
    <3> QED
      BY <2>1, <2>2, <3>1, <3>2, <3>3, <3>4, <3>5, BuyInv
  <2>3. CASE ~Left1(b)
    BY <1>1, <2>3, FinishInv DEF Create
  <2> QED
    BY <2>2, <2>3
<1>2. ASSUME NEW b \in Batches, NEW s \in {"pending", "paid"}, Sell(w, o, b, s) PROVE IInv'
  <2> DEFINE r == [status |-> s, batch |-> b, byEmail |-> TRUE, id |-> "key", seen |-> IF s = "paid" THEN {} ELSE {"key"}]
             n == IF s = "paid" THEN 1 ELSE 0
  <2>1. r \in Item /\ r.batch = b /\ r.status = s /\ r.id = "key" /\ r.seen \subseteq {"key"}
    BY DEF Item, Ids
  <2>2. n \in {0, 1} /\ s = IF n = 1 THEN "paid" ELSE "pending"
    OBVIOUS
  <2>3. /\ order[o].status = "none" /\ Finish(w) /\ Outdate(w) /\ UNCHANGED <<lost, cut, taken>>
        /\ order' = [order EXCEPT ![o] = r] /\ Reserve(b, n) /\ Left1(b) /\ Keyed = {}
    BY <1>2 DEF Sell, KeyIsFree, New
  <2> HIDE DEF r, n
  <2> QED
    BY <2>1, <2>2, <2>3, BuyInv
<1> QED
  BY <1>1, <1>2

(* An order ends, or is released again after its end.                       *)
LEMMA ReleaseInv ==
    ASSUME IInv, NEW o \in Orders, NEW n \in {0, 1}, NEW r \in Item,
           order' = [order EXCEPT ![o] = r], r.batch = order[o].batch, ReleaseOf(o, n), OneKey',
           order[o].status # "none", r.status \in {"paid", "expired", "cancelled"},
           n = 1 <=> order[o].status = "pending" /\ r.status = "paid",
           order[o].status # "pending" => r.status # "paid",
           lost \subseteq lost', lost' \subseteq lost \cup ({order[o].batch} \X Counters),
           cut \subseteq cut', lost' # lost => order[o].batch \in cut',
           order[o].status = "paid" => <<order[o].batch, "sold">> \in lost',
           order[o].status # "pending" /\ batch[order[o].batch].reserved > 0
             => <<order[o].batch, "reserved">> \in lost'
    PROVE  IInv'
<1> DEFINE b == order[o].batch
           s == batch[b].sold + n
           x == Less(batch[b].reserved)
           row == Counting(batch[b], s, x)
<1>1. /\ batch \in [Batches -> Row] /\ order \in [Orders -> Item] /\ order[o] \in Item
      /\ b \in Batches /\ batch[b] \in Row
  BY DEF IInv, Typed, Item
<1>2. UNCHANGED work /\ OutdateAll
  BY DEF ReleaseOf
<1>3. batch' = [batch EXCEPT ![b] = row]
  BY <1>1 DEF ReleaseOf, Release, Counting
<1>4. batch[b].sold \in Nat /\ batch[b].reserved \in Nat /\ batch[b].capacity \in Nat /\ s \in Nat /\ x \in Nat
  <2>1. batch[b].sold \in Nat /\ batch[b].reserved \in Nat /\ batch[b].capacity \in Nat
    BY <1>1 DEF Row
  <2> QED
    BY <2>1 DEF Less
<1>5. /\ r.batch = b /\ (order[o].status = "paid" => <<b, "sold">> \in lost')
      /\ order[o].status # "pending" /\ batch[b].reserved > 0 => <<b, "reserved">> \in lost'
      /\ lost' \subseteq lost \cup ({b} \X Counters) /\ (lost' # lost => b \in cut')
  OBVIOUS
<1> HIDE DEF b
<1>6. row \in Row /\ row.there = batch[b].there /\ row.capacity = batch[b].capacity /\ row.sold = s /\ row.reserved = x
  <2> DEFINE q == batch[b]
  <2>1. s \in Nat /\ x \in Nat /\ q \in Row
    BY <1>1, <1>4
  <2> HIDE DEF s, x, q
  <2>2. /\ Counting(q, s, x) \in Row /\ Counting(q, s, x).there = q.there
        /\ Counting(q, s, x).capacity = q.capacity
        /\ Counting(q, s, x).sold = s /\ Counting(q, s, x).reserved = x
    BY <2>1, CountingType
  <2>3. row = Counting(q, s, x)
    BY DEF q
  <2> QED
    BY <2>2, <2>3 DEF q
<1> HIDE DEF row
<1>7. /\ batch' \in [Batches -> Row] /\ batch'[b] = row /\ \A c \in Batches \ {b} : batch'[c] = batch[c]
  BY <1>1, <1>3, <1>6
<1>8. order' \in [Orders -> Item] /\ order'[o] = r /\ \A p \in Orders \ {o} : order'[p] = order[p]
  BY <1>1
<1>9. (\A c \in Batches : Ever(c, order') <=> Ever(c, order)) /\ Ever(b, order)
  BY <1>1, <1>5, <1>8 DEF Ever, b
<1>10. Typed'
  <2>1. lost' \subseteq (Batches \X Counters)
    BY <1>1, <1>5 DEF Typed, IInv
  <2> QED
    BY <1>2, <1>7, <1>8, <2>1 DEF Typed, IInv
<1>11. Rows'
  <2> SUFFICES ASSUME NEW c \in Batches
               PROVE  /\ Ever(c, order') => batch'[c].there
                      /\ ~Ever(c, order') => batch'[c].sold = 0 /\ batch'[c].reserved = 0
    BY DEF Rows
  <2>2. CASE c = b
    BY <2>2, <1>6, <1>7, <1>9 DEF IInv, Rows
  <2>3. CASE c # b
    BY <2>3, <1>7, <1>9 DEF IInv, Rows
  <2> QED
    BY <2>2, <2>3
<1>12. Requests'
  <2> SUFFICES ASSUME NEW v \in Workers
               PROVE  SnapOK(work'[v], order') /\ (v \notin stale' => FreshOK(work'[v], order', batch'))
    BY DEF Requests
  <2>1. v \notin stale' => work[v].pc \notin {"recalc", "reconcile"}
    BY <1>2 DEF OutdateAll, Summing
  <2> QED
    BY <2>1, <1>2, <1>9, OutdatedInv DEF Later
<1>13. ASSUME NEW c, NEW S
       PROVE  /\ OfIn(c, S, order) \in Nat
              /\ ~Counts(order[o], c, S) /\ Counts(r, c, S) => OfIn(c, S, order') = OfIn(c, S, order) + 1
              /\ Counts(order[o], c, S) /\ ~Counts(r, c, S)
                   => OfIn(c, S, order') = OfIn(c, S, order) - 1 /\ OfIn(c, S, order) > 0
              /\ (Counts(order[o], c, S) <=> Counts(r, c, S)) => OfIn(c, S, order') = OfIn(c, S, order)
  <2>1. order' = Marked(order, o, r)
    BY DEF Marked
  <2>2. /\ OfIn(c, S, order) \in Nat
        /\ ~Counts(order[o], c, S) /\ Counts(r, c, S) => OfIn(c, S, Marked(order, o, r)) = OfIn(c, S, order) + 1
        /\ Counts(order[o], c, S) /\ ~Counts(r, c, S)
             => OfIn(c, S, Marked(order, o, r)) = OfIn(c, S, order) - 1 /\ OfIn(c, S, order) > 0
        /\ (Counts(order[o], c, S) <=> Counts(r, c, S))
             => OfIn(c, S, Marked(order, o, r)) = OfIn(c, S, order)
    BY <1>1, OfMoves
  <2> QED
    BY <2>1, <2>2
<1>14. ASSUME order[o].status = "pending"
       PROVE  /\ OfIn(b, {"paid"}, order) \in Nat /\ OfIn(b, {"paid"}, order') = OfIn(b, {"paid"}, order) + n
              /\ OfIn(b, {"pending"}, order) \in Nat /\ OfIn(b, {"pending"}, order) > 0
              /\ OfIn(b, {"pending"}, order') = OfIn(b, {"pending"}, order) - 1
  <2>1. Counts(order[o], b, {"pending"}) /\ ~Counts(r, b, {"pending"}) /\ ~Counts(order[o], b, {"paid"})
    BY <1>14, <1>5 DEF Counts, b
  <2>2. Counts(r, b, {"paid"}) <=> n = 1
    BY <1>14, <1>5 DEF Counts
  <2>3. OfIn(b, {"paid"}, order) \in Nat /\ OfIn(b, {"paid"}, order') = OfIn(b, {"paid"}, order) + n
    <3>1. CASE n = 1
      BY <3>1, <1>13, <2>1, <2>2
    <3>2. CASE n = 0
      <4>1. Counts(order[o], b, {"paid"}) <=> Counts(r, b, {"paid"})
        BY <3>2, <2>1, <2>2
      <4>2. OfIn(b, {"paid"}, order) \in Nat /\ OfIn(b, {"paid"}, order') = OfIn(b, {"paid"}, order)
        BY <4>1, <1>13
      <4> QED
        BY <3>2, <4>2
    <3> QED
      BY <3>1, <3>2
  <2>4. /\ OfIn(b, {"pending"}, order) \in Nat /\ OfIn(b, {"pending"}, order) > 0
        /\ OfIn(b, {"pending"}, order') = OfIn(b, {"pending"}, order) - 1
    BY <1>13, <2>1
  <2> QED
    BY <2>3, <2>4
<1>15. ASSUME order[o].status # "pending"
       PROVE  /\ OfIn(b, {"pending"}, order') = OfIn(b, {"pending"}, order) /\ n = 0
              /\ order[o].status # "paid" => OfIn(b, {"paid"}, order') = OfIn(b, {"paid"}, order)
  <2>1. ~Counts(order[o], b, {"pending"}) /\ ~Counts(r, b, {"pending"}) /\ ~Counts(r, b, {"paid"})
    BY <1>15 DEF Counts
  <2>2. order[o].status # "paid" => ~Counts(order[o], b, {"paid"})
    BY DEF Counts
  <2> QED
    BY <1>13, <1>15, <2>1, <2>2
<1>16. ASSUME NEW c \in Batches, c # b
       PROVE  /\ OfIn(c, {"paid"}, order') = OfIn(c, {"paid"}, order)
              /\ OfIn(c, {"pending"}, order') = OfIn(c, {"pending"}, order)
  <2>1. ASSUME NEW S PROVE ~Counts(order[o], c, S) /\ ~Counts(r, c, S)
    BY <1>16, <1>5 DEF Counts, b
  <2> QED
    BY <1>13, <2>1
<1>17. CountersMatchOrders'
  <2> SUFFICES ASSUME NEW c \in Batches
               PROVE  /\ <<c, "sold">> \notin lost' => batch'[c].sold = OfIn(c, {"paid"}, order')
                      /\ <<c, "reserved">> \notin lost' => batch'[c].reserved = OfIn(c, {"pending"}, order')
    BY DEF CountersMatchOrders, Of, OfIn, OrdersOf, There
  <2>1. CASE c = b /\ order[o].status = "pending"
    BY <2>1, <1>6, <1>7, <1>14, Counted DEF Less
  <2>2. CASE c = b /\ order[o].status # "pending"
    <3>1. <<b, "sold">> \notin lost' => batch'[b].sold = OfIn(b, {"paid"}, order')
      BY <2>2, <1>1, <1>4, <1>5, <1>6, <1>7, <1>15, Counted
    <3>2. <<b, "reserved">> \notin lost' => batch[b].reserved = 0
      BY <2>2, <1>4, <1>5
    <3>3. ASSUME <<b, "reserved">> \notin lost' PROVE batch'[b].reserved = OfIn(b, {"pending"}, order')
      <4>1. batch[b].reserved = OfIn(b, {"pending"}, order)
        BY <3>3, <1>1, Counted
      <4>2. batch[b].reserved = 0 /\ batch'[b].reserved = 0
        BY <3>2, <3>3, <1>6, <1>7 DEF Less
      <4> QED
        BY <2>2, <4>1, <4>2, <1>15
    <3> QED
      BY <2>2, <3>1, <3>3
  <2>3. CASE c # b
    BY <2>3, <1>7, <1>16, Counted
  <2> QED
    BY <2>1, <2>2, <2>3
<1>18. Owed'
  <2>1. ASSUME NEW c \in Batches, NEW y \in Counters, <<c, y>> \in lost' PROVE c \in cut'
    <3>1. <<c, y>> \in lost => c \in cut
      BY DEF IInv, Owed
    <3>2. <<c, y>> \notin lost => c = b /\ lost' # lost
      BY <2>1, <1>5
    <3> QED
      BY <3>1, <3>2, <1>5
  <2>2. ASSUME NEW c \in Batches \ cut', batch'[c].there
        PROVE  batch'[c].sold + batch'[c].reserved <= batch'[c].capacity
    <3>0. c \notin cut
      BY <2>2
    <3>1. CASE c = b
      <4>1. batch[b].sold + batch[b].reserved <= batch[b].capacity
        BY <2>2, <3>0, <3>1, <1>6, <1>7 DEF IInv, Owed, There
      <4>2. n <= batch[b].reserved - x /\ x <= batch[b].reserved
        <5>1. CASE order[o].status = "pending"
          <6>1. <<b, "reserved">> \notin lost
            BY <3>0, <3>1 DEF IInv, Owed, Counters
          <6>2. batch[b].reserved > 0
            BY <1>1, <1>14, <5>1, <6>1, Counted
          <6> QED
            BY <1>4, <6>2 DEF Less
        <5>2. CASE order[o].status # "pending"
          BY <5>2, <1>4, <1>15 DEF Less
        <5> QED
          BY <5>1, <5>2
      <4>3. n \in Nat
        OBVIOUS
      <4> HIDE DEF x
      <4> QED
        BY <3>1, <1>4, <1>6, <1>7, <4>1, <4>2, <4>3
    <3>2. CASE c # b
      BY <2>2, <3>0, <3>2, <1>7 DEF IInv, Owed, There
    <3> QED
      BY <3>1, <3>2
  <2> QED
    BY <2>1, <2>2 DEF Owed, There
<1> QED
  BY <1>10, <1>11, <1>12, <1>17, <1>18 DEF IInv

Ended(o, status, id) == [order[o] EXCEPT !.status = status, !.id = id]
LEMMA BecomesIs ==
    ASSUME IInv, NEW o \in Orders, NEW status \in {"paid", "expired", "cancelled"},
           NEW id \in order[o].seen \cup {order[o].id}, Becomes(o, status, id), taken' = taken
    PROVE  /\ Ended(o, status, id) \in Item /\ order' = [order EXCEPT ![o] = Ended(o, status, id)]
           /\ Ended(o, status, id).batch = order[o].batch /\ Ended(o, status, id).status = status
           /\ OneKey'
<1> DEFINE r == Ended(o, status, id)
<1>1. order \in [Orders -> Item] /\ order[o] \in Item
  BY DEF IInv, Typed
<1>2. id \in Ids
  BY <1>1 DEF Item
<1>3. /\ r \in Item /\ r.status = status /\ r.batch = order[o].batch /\ r.id = id
      /\ r.byEmail = order[o].byEmail /\ r.seen = order[o].seen
  BY <1>1, <1>2 DEF Item, Ended
<1>4. order' = [order EXCEPT ![o] = r] /\ (id = "key" => Keyed \subseteq {o})
  BY <1>1 DEF Becomes, Ended
<1>5. ~taken' /\ r.byEmail => r.id = "key" /\ r.seen \subseteq {"key"}
  BY <1>3 DEF IInv, OneKey
<1> HIDE DEF r
<1>6. OneKey'
  BY <1>3, <1>4, <1>5, KeyStep
<1> QED
  BY <1>3, <1>4, <1>6 DEF r

LEMMA EndsInv ==
    ASSUME IInv, NEW o \in Orders, Pay(o) \/ Cancel(o) \/ Expire(o)
    PROVE  IInv'
<1>1. taken' = taken /\ order[o].batch \in Batches
  BY DEF Pay, Cancel, Expire, ReleaseOf, IInv, Typed, Item
<1>2. CASE Pay(o)
  <2>1. PICK id \in order[o].seen : Becomes(o, "paid", id)
    BY <1>2 DEF Pay
  <2>2. order[o].status = "pending" /\ ReleaseOf(o, 1) /\ lost' = lost /\ cut' = cut
    BY <1>2 DEF Pay, Agrees
  <2> DEFINE r == Ended(o, "paid", id)
  <2>3. /\ r \in Item /\ order' = [order EXCEPT ![o] = r] /\ r.batch = order[o].batch /\ r.status = "paid"
        /\ OneKey'
    BY <1>1, <2>1, BecomesIs
  <2> HIDE DEF r
  <2> DEFINE n == 1
  <2>4. n \in {0, 1} /\ ReleaseOf(o, n) /\ n = 1
    BY <2>2
  <2> HIDE DEF n
  <2> QED
    BY <2>2, <2>3, <2>4, ReleaseInv
<1>3. CASE Cancel(o)
  <2>1. order[o].status = "pending" /\ ReleaseOf(o, 0) /\ lost' = lost /\ cut' = cut
        /\ Becomes(o, "cancelled", order[o].id)
    BY <1>3 DEF Cancel, Agrees
  <2> DEFINE r == Ended(o, "cancelled", order[o].id)
  <2>2. /\ r \in Item /\ order' = [order EXCEPT ![o] = r] /\ r.batch = order[o].batch /\ r.status = "cancelled"
        /\ OneKey'
    BY <1>1, <2>1, BecomesIs
  <2> HIDE DEF r
  <2> DEFINE n == 0
  <2>3. n \in {0, 1} /\ ReleaseOf(o, n) /\ n # 1
    BY <2>1
  <2> HIDE DEF n
  <2> QED
    BY <2>1, <2>2, <2>3, ReleaseInv
<1>4. CASE Expire(o)
  <2>1. PICK id \in order[o].seen : Becomes(o, "expired", id)
    BY <1>4 DEF Expire
  <2> DEFINE b == order[o].batch
             counters == SoldOf(o) \cup {x \in {"reserved"} : batch[b].reserved > 0}
  <2>2. ReleaseOf(o, 0) /\ IF order[o].status = "pending" THEN Agrees ELSE Part(o, counters)
    BY <1>4 DEF Expire
  <2>3. order[o].status # "none"
    BY <2>1 DEF IInv, OneKey
  <2> DEFINE r == Ended(o, "expired", id)
  <2>4. /\ r \in Item /\ order' = [order EXCEPT ![o] = r] /\ r.batch = order[o].batch /\ r.status = "expired"
        /\ OneKey'
    BY <1>1, <2>1, BecomesIs
  <2> HIDE DEF r
  <2>5. /\ lost \subseteq lost' /\ lost' \subseteq lost \cup ({b} \X Counters)
        /\ cut \subseteq cut' /\ (lost' # lost => b \in cut')
        /\ order[o].status = "paid" => <<b, "sold">> \in lost'
        /\ order[o].status # "pending" /\ batch[b].reserved > 0 => <<b, "reserved">> \in lost'
    <3>1. CASE order[o].status = "pending"
      BY <2>2, <3>1 DEF Agrees
    <3>2. CASE order[o].status # "pending"
      <4>1. /\ lost' = lost \cup ({b} \X counters)
            /\ cut' = IF counters = {} THEN cut ELSE cut \cup {b}
        BY <2>2, <3>2 DEF Part
      <4>2. /\ counters \subseteq Counters /\ (order[o].status = "paid" => "sold" \in counters)
            /\ batch[b].reserved > 0 => "reserved" \in counters
        BY DEF SoldOf, Counters
      <4> HIDE DEF counters, b
      <4> QED
        BY <4>1, <4>2
    <3> QED
      BY <3>1, <3>2
  <2> DEFINE n == 0
  <2>6. n \in {0, 1} /\ ReleaseOf(o, n) /\ n # 1
    BY <2>2
  <2> HIDE DEF n
  <2> QED
    BY <2>3, <2>4, <2>5, <2>6, ReleaseInv
<1> QED
  BY <1>2, <1>3, <1>4

----------------------------------------------------------------------------
(* Checkouts, and orders that are put back *)

(* What they write of the order.                                            *)
LEMMA ChargedIs ==
    ASSUME IInv, NEW o \in Orders, Charged(o), order[o].status # "none"
    PROVE  \E r \in Item : /\ order' = [order EXCEPT ![o] = r] /\ r.status = "pending"
                           /\ r.batch = order[o].batch /\ OneKey'
<1> DEFINE r == [order[o] EXCEPT !.status = "pending", !.id = "other", !.seen = @ \cup {"other"}]
<1>1. order \in [Orders -> Item] /\ order[o] \in Item
  BY DEF IInv, Typed
<1>2. /\ r \in Item /\ r.status = "pending" /\ r.batch = order[o].batch /\ r.id = "other"
      /\ r.byEmail = order[o].byEmail
  BY <1>1 DEF Item, Ids
<1>3. order' = [order EXCEPT ![o] = r] /\ (taken' <=> (taken \/ order[o].id = "key"))
  BY <1>1 DEF Charged
<1>4. ~taken' => ~r.byEmail
  BY <1>2, <1>3 DEF IInv, OneKey, Item
<1> HIDE DEF r
<1>5. OneKey'
  BY <1>2, <1>3, <1>4, KeyStep
<1> QED
  BY <1>2, <1>3, <1>5

LEMMA CheckoutInv ==
    ASSUME IInv, NEW o \in Orders, Checkout(o)
    PROVE  IInv'
<1>1. /\ order \in [Orders -> Item] /\ order[o] \in Item /\ order[o].status = "pending"
      /\ Charged(o) /\ UNCHANGED <<batch, work, stale, lost, cut>>
  BY DEF IInv, Typed, Checkout
<1>2. PICK r \in Item : /\ order' = [order EXCEPT ![o] = r] /\ r.status = "pending"
                        /\ r.batch = order[o].batch /\ OneKey'
  BY <1>1, ChargedIs
<1>3. order' \in [Orders -> Item] /\ order'[o] = r /\ \A p \in Orders \ {o} : order'[p] = order[p]
  BY <1>1, <1>2
<1>4. \A p \in Orders : order'[p].batch = order[p].batch /\ order'[p].status = order[p].status
  BY <1>1, <1>2, <1>3
<1>5. /\ \A c : Ever(c, order') <=> Ever(c, order)
      /\ \A c, S : OrdersOf(c, S, order') = OrdersOf(c, S, order)
  BY <1>4 DEF Ever, OrdersOf
<1>6. \A c, S : OfIn(c, S, order') = OfIn(c, S, order)
  BY <1>5 DEF OfIn
<1>7. Typed' /\ Rows'
  BY <1>1, <1>3, <1>5 DEF IInv, Typed, Rows
<1>8. Requests'
  <2> SUFFICES ASSUME NEW v \in Workers
               PROVE  SnapOK(work[v], order') /\ (v \notin stale => FreshOK(work[v], order', batch))
    BY <1>1 DEF Requests
  <2> DEFINE q == work[v]
  <2>1. SnapOK(q, order) /\ (v \notin stale => FreshOK(q, order, batch))
    BY WorkIs
  <2> HIDE DEF q
  <2>2. SnapOK(q, order')
    BY <2>1, <1>5 DEF SnapOK
  <2>3. FreshOK(q, order, batch) => FreshOK(q, order', batch)
    BY <1>6 DEF FreshOK
  <2> QED
    BY <2>1, <2>2, <2>3 DEF q
<1>9. CountersMatchOrders'
  <2> SUFFICES ASSUME NEW c \in Batches
               PROVE  /\ <<c, "sold">> \notin lost => batch[c].sold = OfIn(c, {"paid"}, order')
                      /\ <<c, "reserved">> \notin lost => batch[c].reserved = OfIn(c, {"pending"}, order')
    BY <1>1 DEF CountersMatchOrders, Of, OfIn, OrdersOf, There
  <2> QED
    BY <1>6, Counted
<1>10. Owed'
  BY <1>1 DEF IInv, Owed, There
<1> QED
  BY <1>2, <1>7, <1>8, <1>9, <1>10 DEF IInv

LEMMA BackInv ==
    ASSUME IInv, NEW o \in Orders, Back(o), order[o].status \notin {"none", "pending"},
           NEW r \in Item, order' = [order EXCEPT ![o] = r], r.status = "pending",
           r.batch = order[o].batch, OneKey'
    PROVE  IInv'
<1> DEFINE b == order[o].batch
           counters == {"reserved"} \cup SoldOf(o)
<1>1. /\ batch \in [Batches -> Row] /\ order \in [Orders -> Item] /\ order[o] \in Item /\ b \in Batches
      /\ batch' = batch /\ work' = work
      /\ stale' = stale \cup {v \in Workers : work[v].pc \in {"recalc", "reconcile"}}
  BY DEF IInv, Typed, Item, Back
<1>2. lost' = lost \cup ({b} \X counters) /\ cut' = cut \cup {b}
  BY DEF Back, Part
<1>3. counters \subseteq Counters /\ "reserved" \in counters /\ (order[o].status = "paid" => "sold" \in counters)
  BY DEF SoldOf, Counters
<1>4. r.batch = b
  OBVIOUS
<1> HIDE DEF counters, b
<1>5. order' \in [Orders -> Item] /\ order'[o] = r /\ \A p \in Orders \ {o} : order'[p] = order[p]
  BY <1>1
<1>6. \A c : Ever(c, order') <=> Ever(c, order)
  BY <1>4, <1>5 DEF Ever, b
<1>7. Typed' /\ Rows'
  <2>1. lost' \subseteq (Batches \X Counters)
    BY <1>1, <1>2, <1>3 DEF IInv, Typed
  <2> QED
    BY <1>1, <1>5, <1>6, <2>1 DEF IInv, Typed, Rows
<1>8. Requests'
  <2> SUFFICES ASSUME NEW v \in Workers
               PROVE  SnapOK(work'[v], order') /\ (v \notin stale' => FreshOK(work'[v], order', batch'))
    BY DEF Requests
  <2>1. work'[v] = work[v] /\ (v \notin stale' => work[v].pc \notin {"recalc", "reconcile"})
    BY <1>1
  <2>2. Later
    BY <1>6 DEF Later
  <2> QED
    BY <2>1, <2>2, OutdatedInv
<1>9. CountersMatchOrders'
  <2> SUFFICES ASSUME NEW c \in Batches
               PROVE  /\ <<c, "sold">> \notin lost' => batch[c].sold = OfIn(c, {"paid"}, order')
                      /\ <<c, "reserved">> \notin lost' => batch[c].reserved = OfIn(c, {"pending"}, order')
    BY <1>1 DEF CountersMatchOrders, Of, OfIn, OrdersOf, There
  <2>1. ASSUME NEW S, Counts(order[o], c, S) <=> Counts(r, c, S)
        PROVE  OfIn(c, S, order') = OfIn(c, S, order)
    <3>1. order' = Marked(order, o, r)
      BY DEF Marked
    <3>2. OfIn(c, S, Marked(order, o, r)) = OfIn(c, S, order)
      BY <1>1, <2>1, OfSame
    <3> QED
      BY <3>1, <3>2
  <2>2. CASE c = b
    <3>1. <<b, "reserved">> \in lost' /\ (order[o].status = "paid" => <<b, "sold">> \in lost')
      BY <1>2, <1>3
    <3>2. order[o].status # "paid" => OfIn(c, {"paid"}, order') = OfIn(c, {"paid"}, order)
      <4>1. order[o].status # "paid" => ~Counts(order[o], c, {"paid"}) /\ ~Counts(r, c, {"paid"})
        BY DEF Counts
      <4> QED
        BY <2>1, <4>1
    <3> QED
      BY <2>2, <3>1, <3>2, <1>2, Counted
  <2>3. CASE c # b
    <3>1. ASSUME NEW S PROVE ~Counts(order[o], c, S) /\ ~Counts(r, c, S)
      BY <2>3, <1>4 DEF Counts, b
    <3>2. ASSUME NEW S PROVE OfIn(c, S, order') = OfIn(c, S, order)
      BY <2>1, <3>1
    <3> QED
      BY <1>2, <3>2, Counted
  <2> QED
    BY <2>2, <2>3
<1>10. Owed'
  <2>1. ASSUME NEW c \in Batches, NEW y \in Counters, <<c, y>> \in lost' PROVE c \in cut'
    BY <2>1, <1>2 DEF IInv, Owed
  <2>2. \A c \in There \ cut' : batch[c].sold + batch[c].reserved <= batch[c].capacity
    BY <1>2 DEF IInv, Owed
  <2> QED
    BY <1>1, <2>1, <2>2 DEF Owed, There
<1> QED
  BY <1>7, <1>8, <1>9, <1>10 DEF IInv

LEMMA PutBackInv ==
    ASSUME IInv, NEW o \in Orders, LateCheckout(o) \/ Reopen(o)
    PROVE  IInv'
<1>1. order \in [Orders -> Item] /\ order[o] \in Item
  BY DEF IInv, Typed
<1>2. CASE LateCheckout(o)
  <2>1. Charged(o) /\ Back(o) /\ order[o].status \notin {"none", "pending"}
    BY <1>2 DEF LateCheckout, IInv, OneKey
  <2>2. PICK r \in Item : /\ order' = [order EXCEPT ![o] = r] /\ r.status = "pending"
                          /\ r.batch = order[o].batch /\ OneKey'
    BY <2>1, ChargedIs
  <2> QED
    BY <2>1, <2>2, BackInv
<1>3. CASE Reopen(o)
  <2> DEFINE r == [order[o] EXCEPT !.status = "pending", !.seen = @ \cup {order[o].id}]
  <2>1. Back(o) /\ order[o].status \notin {"none", "pending"} /\ taken' = taken
        /\ order' = [order EXCEPT ![o] = r]
    BY <1>1, <1>3 DEF Reopen
  <2>2. /\ r \in Item /\ r.status = "pending" /\ r.batch = order[o].batch /\ r.id = order[o].id
        /\ r.byEmail = order[o].byEmail /\ r.seen = order[o].seen \cup {order[o].id}
    BY <1>1 DEF Item
  <2> HIDE DEF r
  <2>3. r.id = "key" => Keyed \subseteq {o}
    BY <2>2 DEF IInv, OneKey, Keyed
  <2>4. ~taken' /\ r.byEmail => r.id = "key" /\ r.seen \subseteq {"key"}
    BY <2>1, <2>2 DEF IInv, OneKey
  <2>5. OneKey'
    BY <2>1, <2>2, <2>3, <2>4, KeyStep
  <2> QED
    BY <2>1, <2>2, <2>5, BackInv
<1> QED
  BY <1>2, <1>3

(* The desk writes one row, its capacity, or counters it then accounts for. *)
LEMMA RowInv ==
    ASSUME IInv, NEW w \in Workers, NEW q, WorkOK(q), work' = [work EXCEPT ![w] = q],
           q.pc \notin {"edit", "write", "recalc", "reconcile"}, Outdate(w), UNCHANGED <<order, taken>>,
           NEW b \in Batches, NEW row \in Row, batch' = [batch EXCEPT ![b] = row],
           Ever(b, order) => row.there,
           ~Ever(b, order) => row.sold = 0 /\ row.reserved = 0,
           lost \subseteq lost', lost' \subseteq lost \cup ({b} \X Counters), cut \subseteq cut',
           lost' # lost => b \in cut',
           <<b, "sold">> \notin lost' => row.sold = batch[b].sold,
           <<b, "reserved">> \notin lost' => row.reserved = batch[b].reserved,
           row.there /\ b \notin cut' => row.sold + row.reserved <= row.capacity
    PROVE  IInv'
<1>1. /\ batch' \in [Batches -> Row] /\ batch'[b] = row /\ \A c \in Batches \ {b} : batch'[c] = batch[c]
  BY DEF IInv, Typed
<1>2. Later
  BY DEF Later
<1>3. Requests' /\ Typed'
  <2>1. lost' \subseteq (Batches \X Counters)
    BY DEF IInv, Typed
  <2> QED
    BY <1>1, <1>2, <2>1, CommitInv DEF Typed, IInv
<1>4. Rows'
  BY <1>1 DEF IInv, Rows
<1>5. CountersMatchOrders'
  <2> SUFFICES ASSUME NEW c \in Batches
               PROVE  /\ <<c, "sold">> \notin lost' => batch'[c].sold = OfIn(c, {"paid"}, order)
                      /\ <<c, "reserved">> \notin lost' => batch'[c].reserved = OfIn(c, {"pending"}, order)
    BY DEF CountersMatchOrders, Of, OfIn, OrdersOf, There
  <2>1. CASE c = b
    BY <2>1, <1>1, Counted
  <2>2. CASE c # b
    BY <2>2, <1>1, Counted
  <2> QED
    BY <2>1, <2>2
<1>6. Owed'
  <2>1. ASSUME NEW c \in Batches, NEW x \in Counters, <<c, x>> \in lost' PROVE c \in cut'
    BY <2>1 DEF IInv, Owed
  <2>2. ASSUME NEW c \in Batches \ cut', batch'[c].there
        PROVE  batch'[c].sold + batch'[c].reserved <= batch'[c].capacity
    BY <2>2, <1>1 DEF IInv, Owed, There
  <2> QED
    BY <2>1, <2>2 DEF Owed, There
<1>7. OneKey'
  BY DEF IInv, OneKey
<1> QED
  BY <1>3, <1>4, <1>5, <1>6, <1>7 DEF IInv

LEMMA AddBatchInv ==
    ASSUME IInv, NEW w \in Workers, NEW b \in Batches, NEW c \in Capacities, NEW s \in {"open", "hidden"},
           AddBatch(w, b, c, s)
    PROVE  IInv'
<1> DEFINE row == NewBatch(c, s)
           q == Asked("sum", b, NoBatch)
<1>1. /\ row \in Row /\ row.there /\ row.capacity = c /\ row.sold = 0 /\ row.reserved = 0 /\ c \in Nat
  BY NewType, StockAssumption DEF States
<1>2. WorkOK(q) /\ q.pc = "sum"
  BY AskedType
<1>3. /\ work' = [work EXCEPT ![w] = q] /\ Outdate(w) /\ UNCHANGED <<order, taken, lost, cut>>
      /\ batch' = [batch EXCEPT ![b] = row] /\ batch[b] = NoBatch
  BY DEF AddBatch, Request, Asked
<1>4. batch[b].sold = 0 /\ batch[b].reserved = 0
  BY <1>3 DEF NoBatch
<1> HIDE DEF row, q
<1>5. /\ Ever(b, order) => row.there
      /\ ~Ever(b, order) => row.sold = 0 /\ row.reserved = 0
      /\ row.there /\ b \notin cut' => row.sold + row.reserved <= row.capacity
      /\ row.sold = batch[b].sold /\ row.reserved = batch[b].reserved
  BY <1>1, <1>4
<1> QED
  BY <1>1, <1>2, <1>3, <1>5, RowInv

LEMMA DeleteInv ==
    ASSUME IInv, NEW w \in Workers, Delete(w)
    PROVE  IInv'
<1> DEFINE b == work[w].batch
           row == [batch[b] EXCEPT !.there = FALSE]
           q == Went(work[w], "sum")
<1>1. WorkOK(work[w]) /\ b \in Batches /\ batch[b] \in Row /\ work = [v \in Workers |-> work[v]]
      /\ batch \in [Batches -> Row]
  BY WorkIs DEF IInv, Typed, WorkOK
<1>2. WorkOK(q) /\ q.pc = "sum"
  BY <1>1, WentType
<1>3. row \in Row /\ ~row.there /\ row.sold = batch[b].sold /\ row.reserved = batch[b].reserved
  BY <1>1 DEF Row
<1>4. /\ Outdate(w) /\ UNCHANGED <<order, taken, lost, cut>> /\ ~Ever(b, order)
  BY DEF Delete, Deletable, IsOrdered, Ever
<1>5. batch' = [batch EXCEPT ![b] = row] /\ work' = [work EXCEPT ![w] = q]
  BY <1>1 DEF Delete, Goto, Went
<1>6. batch[b].sold = 0 /\ batch[b].reserved = 0
  BY <1>1, <1>4 DEF IInv, Rows
<1> HIDE DEF b, row, q
<1> QED
  BY <1>1, <1>2, <1>3, <1>4, <1>5, <1>6, RowInv

LEMMA WrittenIs ==
    ASSUME NEW w \in Workers, NEW s \in Row, NEW y \in Row, s = work[w].snap, y = batch[work[w].batch],
           work[w].dirty \subseteq DOMAIN NoBatch
    PROVE  LET d == work[w].dirty
               R == Written(w) IN
           /\ R \in Row
           /\ R.there = IF "there" \in d THEN s.there ELSE y.there
           /\ R.sold = IF "sold" \in d THEN s.sold ELSE y.sold
           /\ R.reserved = IF "reserved" \in d THEN s.reserved ELSE y.reserved
           /\ R.capacity = IF "capacity" \in d THEN s.capacity ELSE y.capacity
<1> DEFINE d == work[w].dirty
           R == Written(w)
<1>1. R = [x \in DOMAIN NoBatch |-> IF x \in d THEN s[x] ELSE y[x]]
  BY DEF Written
<1> HIDE DEF d, R
<1>2. R = [there |-> IF "there" \in d THEN s.there ELSE y.there,
           capacity |-> IF "capacity" \in d THEN s.capacity ELSE y.capacity,
           sold |-> IF "sold" \in d THEN s.sold ELSE y.sold,
           reserved |-> IF "reserved" \in d THEN s.reserved ELSE y.reserved,
           state |-> IF "state" \in d THEN s.state ELSE y.state]
  BY <1>1 DEF NoBatch
<1>3. R \in Row
  BY <1>2 DEF Row
<1> QED
  BY <1>2, <1>3 DEF d, R

LEMMA WriteInv ==
    ASSUME IInv, NEW w \in Workers, Write(w)
    PROVE  IInv'
<1> DEFINE b == work[w].batch
           d == work[w].dirty
           s == work[w].snap
           row == Written(w)
           q == Went(work[w], "sum")
<1>1. /\ WorkOK(work[w]) /\ SnapOK(work[w], order) /\ work[w].pc = "write" /\ b \in Batches
      /\ d \subseteq DOMAIN NoBatch /\ batch[b] \in Row /\ work = [v \in Workers |-> work[v]]
  BY WorkIs DEF IInv, Typed, WorkOK, Write, At
<1>2. s \in Row /\ (~Ever(b, order) => s.sold = 0 /\ s.reserved = 0)
  BY <1>1 DEF SnapOK
<1>3. /\ row \in Row
      /\ row.there = IF "there" \in d THEN s.there ELSE batch[b].there
      /\ row.sold = IF "sold" \in d THEN s.sold ELSE batch[b].sold
      /\ row.reserved = IF "reserved" \in d THEN s.reserved ELSE batch[b].reserved
      /\ row.capacity = IF "capacity" \in d THEN s.capacity ELSE batch[b].capacity
  BY <1>1, <1>2, WrittenIs
<1>4. WorkOK(q) /\ q.pc = "sum"
  BY <1>1, WentType
<1>5. work' = [work EXCEPT ![w] = q] /\ UNCHANGED <<order, taken>>
  BY <1>1 DEF Write, Goto, Went
<1>6. ~Ever(b, order) => row.sold = 0 /\ row.reserved = 0
  BY <1>1, <1>2, <1>3 DEF IInv, Rows
<1>7. CASE row.there
  <2> DEFINE overwritten == {b} \X (d \cap Counters)
  <2>1. /\ batch' = [batch EXCEPT ![b] = row] /\ Outdate(w) /\ lost' = lost \cup overwritten
        /\ cut' = IF overwritten # {} \/ ("capacity" \in d /\ row.capacity < row.sold + row.reserved)
                  THEN cut \cup {b} ELSE cut
    BY <1>7 DEF Write
  <2> HIDE DEF b, d, s, row, q
  <2>2. lost \subseteq lost' /\ lost' \subseteq lost \cup ({b} \X Counters) /\ cut \subseteq cut'
    BY <2>1
  <2>3. lost' # lost => b \in cut'
    BY <2>1
  <2>4. /\ <<b, "sold">> \notin lost' => "sold" \notin d
        /\ <<b, "reserved">> \notin lost' => "reserved" \notin d
    BY <2>1 DEF Counters
  <2>5. ASSUME b \notin cut' PROVE row.sold + row.reserved <= row.capacity
    <3>1. b \notin cut /\ overwritten = {} /\ ~("capacity" \in d /\ row.capacity < row.sold + row.reserved)
      BY <2>5, <2>1
    <3>2. row.sold \in Nat /\ row.reserved \in Nat /\ row.capacity \in Nat
      BY <1>3 DEF Row
    <3>3. CASE "capacity" \in d
      BY <3>1, <3>2, <3>3
    <3>4. CASE "capacity" \notin d /\ batch[b].there
      <4>1. "sold" \notin d /\ "reserved" \notin d
        <5>1. \A x \in d \cap Counters : <<b, x>> \in overwritten
          OBVIOUS
        <5> HIDE DEF overwritten
        <5> QED
          BY <5>1, <3>1 DEF Counters
      <4>2. batch[b].sold + batch[b].reserved <= batch[b].capacity
        BY <3>1, <3>4, <1>1 DEF IInv, Owed, There
      <4> QED
        BY <3>4, <4>1, <4>2, <1>3
    <3>5. CASE ~batch[b].there
      <4>1. ~Ever(b, order)
        BY <3>5, <1>1 DEF IInv, Rows
      <4>2. row.sold = 0 /\ row.reserved = 0
        BY <4>1, <1>6
      <4> QED
        BY <3>2, <4>2
    <3> QED
      BY <3>3, <3>4, <3>5
  <2>6. /\ <<b, "sold">> \notin lost' => row.sold = batch[b].sold
        /\ <<b, "reserved">> \notin lost' => row.reserved = batch[b].reserved
    BY <2>4, <1>3
  <2> HIDE DEF overwritten
  <2>7. b \in Batches /\ row \in Row /\ (Ever(b, order) => row.there)
    BY <1>1, <1>3, <1>7 DEF b
  <2> QED
    BY <1>4, <1>5, <1>6, <2>1, <2>2, <2>3, <2>5, <2>6, <2>7, RowInv
<1>8. CASE ~row.there
  <2>1. UNCHANGED <<batch, stale, lost, cut>>
    BY <1>8 DEF Write
  <2>2. SnapOK(q, order) /\ FreshOK(q, order, batch)
    BY <1>4, Quiet
  <2> HIDE DEF q
  <2> QED
    BY <1>4, <1>5, <2>1, <2>2, MoveInv
<1> QED
  BY <1>7, <1>8

(* A script writes the counters of every batch it has found wrong.          *)
LEMMA CountsInv ==
    ASSUME IInv, NEW w \in Workers, Finish(w), Outdate(w), UNCHANGED <<order, taken>>,
           batch' \in [Batches -> Row], lost' \subseteq (Batches \X Counters),
           \A b \in Batches :
               /\ batch'[b].there = batch[b].there /\ batch'[b].capacity = batch[b].capacity
               /\ ~Ever(b, order) => batch'[b].sold = 0 /\ batch'[b].reserved = 0
               /\ \A x \in Counters : <<b, x>> \in lost' => b \in cut',
           cut \subseteq cut',
           \A b \in There :
               /\ <<b, "sold">> \notin lost' => batch'[b].sold = OfIn(b, {"paid"}, order)
               /\ <<b, "reserved">> \notin lost' => batch'[b].reserved = OfIn(b, {"pending"}, order)
               /\ b \notin cut' => batch'[b].sold = batch[b].sold /\ batch'[b].reserved = batch[b].reserved
    PROVE  IInv'
<1>1. WorkOK(Idle) /\ Idle.pc \notin {"edit", "write", "recalc", "reconcile"}
  BY AnyType
<1>2. Requests' /\ Typed'
  BY <1>1, CommitInv DEF Finish, Later, Typed, IInv
<1>3. Rows'
  BY DEF IInv, Rows
<1>4. CountersMatchOrders'
  <2>1. There' = There
    BY DEF There
  <2>2. \A b, S : Of(b, S)' = OfIn(b, S, order)
    BY DEF Of, OfIn, OrdersOf
  <2> QED
    BY <2>1, <2>2 DEF CountersMatchOrders
<1>5. Owed'
  BY DEF IInv, Owed, There
<1>6. OneKey'
  BY DEF IInv, OneKey
<1> QED
  BY <1>2, <1>3, <1>4, <1>5, <1>6 DEF IInv

LEMMA ApplyRecalcInv ==
    ASSUME IInv, NEW w \in Workers, ApplyRecalc(w)
    PROVE  IInv'
<1> DEFINE s == work[w].snap
           written == s.batches \cap There
           wrong == IF w \in stale THEN written ELSE s.lapsed
<1>1. /\ SnapOK(work[w], order) /\ (w \notin stale => FreshOK(work[w], order, batch))
      /\ work[w].pc = "recalc" /\ batch \in [Batches -> Row]
  BY WorkIs DEF ApplyRecalc, At, IInv, Typed
<1>2. /\ s \in Recount /\ \A b \in Batches : ~Ever(b, order) => s.real[b] = 0
      /\ w \notin stale =>
           \A b \in Batches :
             /\ b \notin s.lapsed => s.real[b] = OfIn(b, {"pending"}, order)
             /\ batch[b].there /\ b \notin s.batches => batch[b].reserved = s.real[b]
  BY <1>1 DEF SnapOK, FreshOK
<1>3. /\ Finish(w) /\ Outdate(w) /\ UNCHANGED <<order, taken>> /\ cut' = cut \cup wrong
      /\ batch' = [b \in Batches |-> IF b \in written THEN [batch[b] EXCEPT !.reserved = s.real[b]] ELSE batch[b]]
      /\ lost' = (IF w \in stale THEN lost ELSE lost \ (Batches \X {"reserved"})) \cup (wrong \X {"reserved"})
  BY DEF ApplyRecalc
<1>4. wrong \subseteq Batches /\ written \subseteq Batches /\ \A b \in Batches : s.real[b] \in Nat
  BY <1>2 DEF Recount, There
<1> HIDE DEF s
<1>5. ASSUME NEW b \in Batches
      PROVE  /\ batch'[b] \in Row /\ batch'[b].there = batch[b].there /\ batch'[b].capacity = batch[b].capacity
             /\ batch'[b].sold = batch[b].sold
             /\ batch'[b].reserved = IF b \in written THEN s.real[b] ELSE batch[b].reserved
  <2>1. CASE b \in written
    <3>1. batch'[b] = [batch[b] EXCEPT !.reserved = s.real[b]]
      BY <1>3, <2>1
    <3> QED
      BY <2>1, <3>1, <1>1, <1>4 DEF Row
  <2>2. CASE b \notin written
    BY <2>2, <1>1, <1>3
  <2> QED
    BY <2>1, <2>2
<1>6. batch' \in [Batches -> Row]
  BY <1>3, <1>5
<1>7. lost' \subseteq (Batches \X Counters)
  BY <1>3, <1>4 DEF IInv, Typed, Counters
<1> HIDE DEF wrong
<1>8. ASSUME NEW b \in Batches
      PROVE  /\ <<b, "sold">> \in lost' <=> <<b, "sold">> \in lost
             /\ <<b, "reserved">> \in lost' <=> b \in wrong \/ (w \in stale /\ <<b, "reserved">> \in lost)
  BY <1>3
<1>9. ASSUME NEW b \in Batches
      PROVE  /\ ~Ever(b, order) => batch'[b].sold = 0 /\ batch'[b].reserved = 0
             /\ \A x \in Counters : <<b, x>> \in lost' => b \in cut'
  <2>1. ~Ever(b, order) => batch'[b].sold = 0 /\ batch'[b].reserved = 0
    BY <1>2, <1>5 DEF IInv, Rows
  <2>2. \A x \in Counters : <<b, x>> \in lost => b \in cut
    BY DEF IInv, Owed
  <2>3. \A x \in Counters : <<b, x>> \in lost' => b \in cut'
    BY <2>2, <1>3, <1>8 DEF Counters
  <2> QED
    BY <2>1, <2>3
<1>10. ASSUME NEW b \in There
       PROVE  /\ <<b, "sold">> \notin lost' => batch'[b].sold = OfIn(b, {"paid"}, order)
              /\ <<b, "reserved">> \notin lost' => batch'[b].reserved = OfIn(b, {"pending"}, order)
              /\ b \notin cut' => batch'[b].sold = batch[b].sold /\ batch'[b].reserved = batch[b].reserved
  <2>1. b \in Batches /\ batch[b].there
    BY DEF There
  <2>2. <<b, "sold">> \notin lost' => batch'[b].sold = OfIn(b, {"paid"}, order)
    BY <2>1, <1>5, <1>8, Counted
  <2>3. <<b, "reserved">> \notin lost' => batch'[b].reserved = OfIn(b, {"pending"}, order)
    <3>1. CASE w \in stale
      BY <3>1, <2>1, <1>5, <1>8, Counted DEF wrong
    <3>2. CASE w \notin stale
      BY <3>2, <2>1, <1>2, <1>5, <1>8 DEF wrong
    <3> QED
      BY <3>1, <3>2
  <2>4. ASSUME b \notin cut' PROVE batch'[b].reserved = batch[b].reserved
    <3>1. b \notin cut /\ b \notin wrong
      BY <2>4, <1>3
    <3>2. batch[b].reserved = OfIn(b, {"pending"}, order)
      BY <2>1, <3>1, Counted DEF IInv, Owed, Counters
    <3>3. CASE w \in stale
      BY <3>1, <3>3, <2>1, <1>5 DEF wrong
    <3>4. CASE w \notin stale
      BY <3>1, <3>2, <3>4, <2>1, <1>2, <1>5 DEF wrong
    <3> QED
      BY <3>3, <3>4
  <2> QED
    BY <2>1, <2>2, <2>3, <2>4, <1>5
<1> HIDE DEF written
<1>11. cut \subseteq cut'
  BY <1>3
<1> QED
  BY <1>3, <1>5, <1>6, <1>7, <1>9, <1>10, <1>11, CountsInv

LEMMA ApplyReconcileInv ==
    ASSUME IInv, NEW w \in Workers, ApplyReconcile(w)
    PROVE  IInv'
<1> DEFINE s == work[w].snap
<1>1. /\ SnapOK(work[w], order) /\ (w \notin stale => FreshOK(work[w], order, batch))
      /\ work[w].pc = "reconcile" /\ batch \in [Batches -> Row]
  BY WorkIs DEF ApplyReconcile, At, IInv, Typed
<1>2. /\ s \in [Batches -> Nat] /\ \A b \in Batches : ~Ever(b, order) => s[b] = 0
      /\ w \notin stale => \A b \in Batches : s[b] = OfIn(b, {"paid"}, order)
  BY <1>1 DEF SnapOK, FreshOK
<1>3. /\ Finish(w) /\ Outdate(w) /\ UNCHANGED <<order, taken>>
      /\ batch' = [b \in Batches |-> IF b \in There THEN [batch[b] EXCEPT !.sold = s[b]] ELSE batch[b]]
      /\ lost' = IF w \in stale THEN lost \cup (There \X {"sold"}) ELSE lost \ (Batches \X {"sold"})
      /\ cut' = IF w \in stale THEN cut \cup There ELSE cut
  BY DEF ApplyReconcile
<1> HIDE DEF s
<1>4. ASSUME NEW b \in Batches
      PROVE  /\ batch'[b] \in Row /\ batch'[b].there = batch[b].there /\ batch'[b].capacity = batch[b].capacity
             /\ batch'[b].reserved = batch[b].reserved
             /\ batch'[b].sold = IF b \in There THEN s[b] ELSE batch[b].sold
  <2>1. CASE b \in There
    <3>1. batch'[b] = [batch[b] EXCEPT !.sold = s[b]]
      BY <1>3, <2>1
    <3> QED
      BY <2>1, <3>1, <1>1, <1>2 DEF Row
  <2>2. CASE b \notin There
    BY <2>2, <1>1, <1>3
  <2> QED
    BY <2>1, <2>2
<1>5. batch' \in [Batches -> Row]
  BY <1>3, <1>4
<1>6. lost' \subseteq (Batches \X Counters)
  BY <1>3 DEF IInv, Typed, Counters, There
<1>7. ASSUME NEW b \in Batches
      PROVE  /\ <<b, "reserved">> \in lost' <=> <<b, "reserved">> \in lost
             /\ <<b, "sold">> \in lost' <=> w \in stale /\ (b \in There \/ <<b, "sold">> \in lost)
  BY <1>3
<1>8. ASSUME NEW b \in Batches
      PROVE  /\ ~Ever(b, order) => batch'[b].sold = 0 /\ batch'[b].reserved = 0
             /\ \A x \in Counters : <<b, x>> \in lost' => b \in cut'
  <2>1. ~Ever(b, order) => batch'[b].sold = 0 /\ batch'[b].reserved = 0
    BY <1>2, <1>4 DEF IInv, Rows
  <2>2. \A x \in Counters : <<b, x>> \in lost => b \in cut
    BY DEF IInv, Owed
  <2>3. \A x \in Counters : <<b, x>> \in lost' => b \in cut'
    BY <2>2, <1>3, <1>7 DEF Counters
  <2> QED
    BY <2>1, <2>3
<1>9. ASSUME NEW b \in There
      PROVE  /\ <<b, "sold">> \notin lost' => batch'[b].sold = OfIn(b, {"paid"}, order)
             /\ <<b, "reserved">> \notin lost' => batch'[b].reserved = OfIn(b, {"pending"}, order)
             /\ b \notin cut' => batch'[b].sold = batch[b].sold /\ batch'[b].reserved = batch[b].reserved
  <2>1. b \in Batches
    BY DEF There
  <2>2. <<b, "sold">> \notin lost' => batch'[b].sold = OfIn(b, {"paid"}, order)
    BY <2>1, <1>2, <1>4, <1>7
  <2>3. <<b, "reserved">> \notin lost' => batch'[b].reserved = OfIn(b, {"pending"}, order)
    BY <2>1, <1>4, <1>7, Counted
  <2>4. ASSUME b \notin cut' PROVE batch'[b].sold = batch[b].sold
    <3>1. w \notin stale /\ b \notin cut
      BY <2>4, <1>3
    <3>2. batch[b].sold = OfIn(b, {"paid"}, order)
      BY <2>1, <3>1, Counted DEF IInv, Owed, Counters
    <3> QED
      BY <3>1, <3>2, <2>1, <1>2, <1>4
  <2> QED
    BY <2>1, <2>2, <2>3, <2>4, <1>4
<1>10. cut \subseteq cut'
  BY <1>3
<1> QED
  BY <1>3, <1>4, <1>5, <1>6, <1>8, <1>9, <1>10, CountsInv

----------------------------------------------------------------------------
LEMMA StutterInv ==
    ASSUME IInv, UNCHANGED vars
    PROVE  IInv'
<1> USE DEF vars, history
<1>1. Typed' /\ Rows'
  BY DEF IInv, Typed, Rows
<1>2. Requests'
  BY DEF IInv, Requests
<1>3. CountersMatchOrders'
  BY DEF IInv, CountersMatchOrders, Of, There
<1>4. Owed' /\ OneKey'
  BY DEF IInv, Owed, OneKey, There
<1> QED
  BY <1>1, <1>2, <1>3, <1>4 DEF IInv

LEMMA NextInv ==
    ASSUME IInv, [Next]_vars
    PROVE  IInv'
<1>1. CASE UNCHANGED vars
  BY <1>1, StutterInv
<1>2. ASSUME NEW w \in Workers, NEW o \in Orders,
             Create(w, o) \/ \E b \in Batches, s \in {"pending", "paid"} : Sell(w, o, b, s)
      PROVE  IInv'
  BY <1>2, SalesInv
<1>3. ASSUME NEW w \in Workers,
             FindKey(w) \/ SumBatches(w) \/ SaveSector(w) \/ Fail(w) \/ \E b \in Batches : Choose(w, b)
      PROVE  IInv'
  BY <1>3, LooksInv
<1>4. ASSUME NEW w \in Workers, NEW b \in Batches, Edit(w, b) \/ Remove(w, b) PROVE IInv'
  BY <1>4, EditInv
<1>5. ASSUME NEW w \in Workers, NEW b \in Batches, NEW c \in Capacities, NEW s \in {"open", "hidden"},
             AddBatch(w, b, c, s)
      PROVE  IInv'
  BY <1>5, AddBatchInv
<1>6. ASSUME NEW w \in Workers, Diff(w) \/ Write(w) \/ Delete(w) PROVE IInv'
  BY <1>6, DiffInv, WriteInv, DeleteInv
<1>7. ASSUME NEW w \in Workers, Recalc(w) \/ Reconcile(w) PROVE IInv'
  BY <1>7, ScriptInv
<1>8. ASSUME NEW w \in Workers, ApplyRecalc(w) \/ ApplyReconcile(w) PROVE IInv'
  BY <1>8, ApplyRecalcInv, ApplyReconcileInv
<1>9. ASSUME NEW o \in Orders, Pay(o) \/ Cancel(o) \/ Expire(o) PROVE IInv'
  BY <1>9, EndsInv
<1>10. ASSUME NEW o \in Orders, Checkout(o) \/ LateCheckout(o) \/ Reopen(o) PROVE IInv'
  BY <1>10, CheckoutInv, PutBackInv
<1> QED
  BY <1>1, <1>2, <1>3, <1>4, <1>5, <1>6, <1>7, <1>8, <1>9, <1>10 DEF Next

(* What edits and scripts have read of a batch is true as long as nobody    *)
(* has outdated them.                                                       *)
THEOREM Invariant == Spec => []IInv
<1>1. Init => IInv
  BY InitInv
<1>2. IInv /\ [Next]_vars => IInv'
  BY NextInv
<1> QED
  BY <1>1, <1>2, PTL DEF Spec

(* A batch's sold and reserved are what its orders bought and hold, through *)
(* every sale, release, edit, removal and repair, except for a counter that *)
(* an outdated save or script or recalc's disregard of lapsed holds has     *)
(* overwritten, or that a second release of an order, a late checkout or    *)
(* the reopening script has parted from the orders.                         *)
THEOREM CountersAreExact == Spec => []CountersMatchOrders
<1>1. IInv => CountersMatchOrders
  BY DEF IInv
<1> QED
  BY <1>1, Invariant, PTL

(* orders.create, sales by e-mail and the desk at once never let a batch    *)
(* owe more than its capacity, except a batch the desk has cut or one whose *)
(* counters were overwritten or parted from its orders as above.            *)
THEOREM NeverOversold == Spec => []OversoldOnlyByCut
<1>1. IInv => OversoldOnlyByCut
  BY OwedGives
<1> QED
  BY <1>1, Invariant, PTL

(* A sale by e-mail is made once per key, until a checkout of its order     *)
(* writes a charge over the key.                                            *)
THEOREM OneSalePerKey == Spec => []SoldOncePerKey
<1>1. IInv => SoldOncePerKey
  BY KeyGives
<1> QED
  BY <1>1, Invariant, PTL

----------------------------------------------------------------------------
(* Sums over batches *)

LEMMA UnitsAre ==
    ASSUME NEW f, NEW B, NEW u
    PROVE  u \in Units(f, B) <=> \E b \in B : \E i \in 1..f[b] : u = <<b, i>>
BY DEF Units

LEMMA UnitIs ==
    ASSUME NEW f, NEW B, NEW b, NEW i
    PROVE  <<b, i>> \in Units(f, B) <=> b \in B /\ i \in 1..f[b]
BY UnitsAre

LEMMA AmountType ==
    ASSUME NEW f \in [Batches -> Nat], NEW B, B \subseteq Batches
    PROVE  IsFiniteSet(Units(f, B)) /\ Amount(f, B) \in Nat
<1> DEFINE Of1(b) == {b} \X (1..f[b])
           T == {Of1(b) : b \in B}
<1>1. IsFiniteSet(B)
  BY StockAssumption, FS_Subset
<1>2. IsFiniteSet(T)
  <2> DEFINE all == [b \in B |-> Of1(b)]
  <2>1. all \in Surjection(B, T)
    BY DEF Surjection
  <2> HIDE DEF all, T
  <2> QED
    BY <1>1, <2>1, FS_Surjection
<1>3. ASSUME NEW b \in B PROVE IsFiniteSet(Of1(b))
  <2>1. f[b] \in Nat
    OBVIOUS
  <2>3. 1 \in Int /\ f[b] \in Int
    BY <2>1
  <2>4. IsFiniteSet({b})
    BY FS_Singleton
  <2>2. IsFiniteSet({b}) /\ IsFiniteSet(1..f[b])
    BY <2>3, <2>4, FS_Interval
  <2> QED
    BY <2>2, FS_Product
<1>4. IsFiniteSet(UNION T)
  BY <1>2, <1>3, FS_UNION
<1> QED
  BY <1>4, FS_CardinalityType DEF Units, Amount

LEMMA AmountUp ==
    ASSUME NEW f \in [Batches -> Nat], NEW g \in [Batches -> Nat], NEW B, B \subseteq Batches,
           NEW b \in B, g[b] = f[b] + 1, \A c \in B \ {b} : g[c] = f[c]
    PROVE  Amount(g, B) = Amount(f, B) + 1
<1> DEFINE u == <<b, f[b] + 1>>
<1>1. f[b] \in Nat /\ 1..g[b] = 1..f[b] \cup {f[b] + 1} /\ f[b] + 1 \notin 1..f[b]
  OBVIOUS
<1>2. u \notin Units(f, B)
  BY <1>1, UnitIs
<1>3. Units(g, B) = Units(f, B) \cup {u}
  <2>1. ASSUME NEW v \in Units(g, B) PROVE v \in Units(f, B) \cup {u}
    <3>1. PICK c \in B : \E i \in 1..g[c] : v = <<c, i>>
      BY UnitsAre
    <3>4. PICK i \in 1..g[c] : v = <<c, i>>
      BY <3>1
    <3>2. CASE c = b
      BY <1>1, <3>4, <3>2, UnitIs
    <3>3. CASE c # b
      BY <3>4, <3>3, UnitIs
    <3> QED
      BY <3>2, <3>3
  <2>2. ASSUME NEW v \in Units(f, B) PROVE v \in Units(g, B)
    <3>1. PICK c \in B : \E i \in 1..f[c] : v = <<c, i>>
      BY UnitsAre
    <3>4. PICK i \in 1..f[c] : v = <<c, i>>
      BY <3>1
    <3>2. i \in 1..g[c]
      BY <1>1, <3>4
    <3> QED
      BY <3>4, <3>2, UnitIs
  <2>3. u \in Units(g, B)
    BY <1>1, UnitIs
  <2> QED
    BY <2>1, <2>2, <2>3
<1> HIDE DEF u
<1> QED
  BY <1>2, <1>3, AmountType, FS_AddElement DEF Amount

LEMMA AmountSame ==
    ASSUME NEW f, NEW g, NEW B, \A b \in B : g[b] = f[b]
    PROVE  Amount(g, B) = Amount(f, B)
<1>1. \A u : u \in Units(g, B) <=> u \in Units(f, B)
  BY UnitsAre
<1> QED
  BY <1>1 DEF Amount

(* Batches that have none of it do not count. *)
LEMMA AmountOver ==
    ASSUME NEW f \in [Batches -> Nat], NEW A, NEW B, A \subseteq B, B \subseteq Batches, \A b \in B \ A : f[b] = 0
    PROVE  Amount(f, A) = Amount(f, B)
<1>1. \A b \in B : \A i \in 1..f[b] : b \in A
  OBVIOUS
<1>2. ASSUME NEW u PROVE u \in Units(f, A) <=> u \in Units(f, B)
  BY <1>1, UnitsAre
<1>3. Units(f, A) = Units(f, B)
  BY <1>2
<1> QED
  BY <1>3 DEF Amount

----------------------------------------------------------------------------
(* The sector's sums, and what is to be written over them *)

SumIn(x, rows) == Amount([b \in Batches |-> rows[b][x]], {b \in Batches : rows[b].there})
(* What a request has read of the sums still holds. *)
FreshSums(q, sec, rows) ==
    /\ q.pc = "sector" => \A x \in Sums : q.snap[x] = SumIn(x, rows)
    /\ q.pc = "recalc" => (q.snap.sector <=> sec["reserved"] # Total(q.snap.real))
SnapSums(q) == q.pc = "sector" => q.snap \in [Sums -> Nat]
SumsOK ==
    /\ sector \in [Sums -> Nat] /\ SectorIsSum
    /\ \A w \in Workers : SnapSums(work[w])
    /\ \A w \in Workers \ stale : FreshSums(work[w], sector, batch)
Bounded ==
    /\ requests \in [Kinds -> Nat]
    /\ stale \subseteq Workers /\ drift \subseteq Sums /\ cut \subseteq Batches /\ taken \in BOOLEAN
KInv == IInv /\ SumsOK /\ Bounded

LEMMA SumIs ==
    ASSUME NEW x
    PROVE  SumOf(x) = SumIn(x, batch) /\ SumOf(x)' = SumIn(x, batch')
BY DEF SumOf, SumIn, Column, There

LEMMA ColumnType ==
    ASSUME NEW rows \in [Batches -> Row], NEW x \in Sums
    PROVE  [b \in Batches |-> rows[b][x]] \in [Batches -> Nat]
<1> SUFFICES ASSUME NEW b \in Batches PROVE rows[b][x] \in Nat
  OBVIOUS
<1>1. rows[b] \in Row
  OBVIOUS
<1> QED
  BY <1>1 DEF Row, Sums

LEMMA SumType ==
    ASSUME NEW rows \in [Batches -> Row], NEW x \in Sums
    PROVE  SumIn(x, rows) \in Nat
BY ColumnType, AmountType DEF SumIn

SameThere(rows, new) == \A b \in Batches : new[b].there <=> rows[b].there
LEMMA SumSame ==
    ASSUME NEW rows, NEW new, NEW x, SameThere(rows, new),
           \A b \in Batches : rows[b].there => new[b][x] = rows[b][x]
    PROVE  SumIn(x, new) = SumIn(x, rows)
<1> DEFINE f == [b \in Batches |-> rows[b][x]]
           g == [b \in Batches |-> new[b][x]]
           B == {b \in Batches : rows[b].there}
<1>1. B = {b \in Batches : new[b].there} /\ \A b \in B : g[b] = f[b]
  BY DEF SameThere
<1>2. Amount(g, B) = Amount(f, B)
  <2> HIDE DEF f, g, B
  <2> QED
    BY <1>1, AmountSame
<1> QED
  BY <1>1, <1>2 DEF SumIn

LEMMA SumUp ==
    ASSUME NEW rows \in [Batches -> Row], NEW new \in [Batches -> Row], NEW x \in Sums,
           SameThere(rows, new), NEW b \in Batches, rows[b].there, new[b][x] = rows[b][x] + 1,
           \A c \in Batches \ {b} : new[c][x] = rows[c][x]
    PROVE  SumIn(x, new) = SumIn(x, rows) + 1
<1> DEFINE f == [c \in Batches |-> rows[c][x]]
           g == [c \in Batches |-> new[c][x]]
           B == {c \in Batches : rows[c].there}
<1>1. B = {c \in Batches : new[c].there} /\ b \in B /\ B \subseteq Batches
      /\ g[b] = f[b] + 1 /\ \A c \in B \ {b} : g[c] = f[c]
  BY DEF SameThere
<1>2. f \in [Batches -> Nat] /\ g \in [Batches -> Nat]
  BY ColumnType
<1>3. Amount(g, B) = Amount(f, B) + 1
  <2> HIDE DEF f, g, B
  <2> QED
    BY <1>1, <1>2, AmountUp
<1> QED
  BY <1>1, <1>3 DEF SumIn

LEMMA SumDown ==
    ASSUME NEW rows \in [Batches -> Row], NEW new \in [Batches -> Row], NEW x \in Sums,
           SameThere(rows, new), NEW b \in Batches, rows[b].there, rows[b][x] = new[b][x] + 1,
           \A c \in Batches \ {b} : new[c][x] = rows[c][x]
    PROVE  SumIn(x, new) = SumIn(x, rows) - 1 /\ SumIn(x, rows) > 0
<1>1. SameThere(new, rows) /\ new[b].there /\ \A c \in Batches \ {b} : rows[c][x] = new[c][x]
  BY DEF SameThere
<1>2. SumIn(x, rows) = SumIn(x, new) + 1
  BY <1>1, SumUp
<1> QED
  BY <1>2, SumType

----------------------------------------------------------------------------
(* What a step leaves of the sums *)

LEMMA MoveSums ==
    ASSUME KInv, NEW w \in Workers, NEW q, WorkOK(q), work' = [work EXCEPT ![w] = q],
           SnapSums(q), FreshSums(q, sector, batch) \/ w \in stale',
           UNCHANGED <<batch, sector, drift>>, stale \ {w} \subseteq stale'
    PROVE  SumsOK'
<1>1. work'[w] = q /\ \A v \in Workers \ {w} : work'[v] = work[v]
  BY WorkChange DEF KInv
<1>2. SectorIsSum' /\ sector' \in [Sums -> Nat]
  BY SumIs DEF KInv, SumsOK, SectorIsSum
<1>3. ASSUME NEW v \in Workers
      PROVE  SnapSums(work'[v]) /\ (v \notin stale' => FreshSums(work'[v], sector, batch))
  BY <1>1, <1>3 DEF KInv, SumsOK
<1>4. \A v \in Workers : SnapSums(work'[v]) /\ (v \notin stale' => FreshSums(work'[v], sector', batch'))
  BY <1>3
<1> HIDE DEF FreshSums, SnapSums
<1> QED
  BY <1>2, <1>4 DEF SumsOK

(* A commit outdates what every other request has read. *)
LEMMA CommitSums ==
    ASSUME KInv, NEW w \in Workers, NEW q, WorkOK(q), work' = [work EXCEPT ![w] = q],
           q.pc \in {"idle", "sum"}, Outdate(w), sector' \in [Sums -> Nat], SectorIsSum'
    PROVE  SumsOK'
<1>1. work'[w] = q /\ \A v \in Workers \ {w} : work'[v] = work[v]
  BY WorkChange DEF KInv
<1>2. ASSUME NEW v \in Workers
      PROVE  SnapSums(work'[v]) /\ (v \notin stale' => FreshSums(work'[v], sector', batch'))
  <2>1. CASE v = w
    BY <1>1, <2>1 DEF SnapSums, FreshSums
  <2>2. CASE v # w
    <3>1. work'[v] = work[v] /\ SnapSums(work[v])
      BY <1>1, <2>2 DEF KInv, SumsOK
    <3>2. v \notin stale' => work[v].pc \notin {"sector", "recalc"}
      BY <2>2 DEF Outdate, Summing
    <3> QED
      BY <3>1, <3>2 DEF FreshSums
  <2> QED
    BY <2>1, <2>2
<1> HIDE DEF FreshSums, SnapSums
<1> QED
  BY <1>2 DEF SumsOK

Alike(x) == sector[x] = SumIn(x, batch)
LEMMA SumsHold ==
    ASSUME KInv, NEW x \in Sums, x \notin drift
    PROVE  Alike(x)
BY SumIs DEF KInv, SumsOK, SectorIsSum, Alike

Recounted(rows, b, s, r) == [rows EXCEPT ![b] = Counting(rows[b], s, r)]
SectorAs(sec, s, r) == [sec EXCEPT !.sold = s, !.reserved = r]
LEMMA CountingStep ==
    ASSUME NEW rows \in [Batches -> Row], NEW b \in Batches, NEW s \in Nat, NEW r \in Nat
    PROVE  LET new == Recounted(rows, b, s, r) IN
           /\ new \in [Batches -> Row] /\ SameThere(rows, new)
           /\ \A c \in Batches \ {b} : new[c] = rows[c]
           /\ new[b]["sold"] = s /\ new[b]["reserved"] = r
           /\ new[b]["capacity"] = rows[b]["capacity"]
<1> DEFINE row == Counting(rows[b], s, r)
<1>1. /\ row \in Row /\ row.there = rows[b].there /\ row.sold = s /\ row.reserved = r
      /\ row.capacity = rows[b].capacity
  BY CountingType
<1> HIDE DEF row
<1>2. Recounted(rows, b, s, r) = [rows EXCEPT ![b] = row]
  BY DEF row, Recounted
<1> QED
  BY <1>1, <1>2 DEF SameThere

LEMMA SectorStep ==
    ASSUME NEW sec \in [Sums -> Nat], NEW s \in Nat, NEW r \in Nat
    PROVE  LET new == SectorAs(sec, s, r) IN
           /\ new \in [Sums -> Nat] /\ new["sold"] = s /\ new["reserved"] = r
           /\ new["capacity"] = sec["capacity"]
BY DEF Sums, SectorAs

LEMMA ReserveSums ==
    ASSUME KInv, NEW b \in Batches, batch[b].there, NEW n \in {0, 1}, Reserve(b, n)
    PROVE  sector' \in [Sums -> Nat] /\ \A x \in Sums : Alike(x) => Alike(x)'
<1>1. batch \in [Batches -> Row] /\ batch[b] \in Row /\ sector \in [Sums -> Nat]
  BY DEF KInv, SumsOK, IInv, Typed
<1> DEFINE s == batch[b]["sold"] + n  r == batch[b]["reserved"] + (1 - n)
           t == sector["sold"] + n  u == sector["reserved"] + (1 - n)
<1>10. s \in Nat /\ r \in Nat /\ t \in Nat /\ u \in Nat
  BY <1>1 DEF Row, Sums
<1>11. batch' = Recounted(batch, b, s, r)
  BY <1>1 DEF Reserve, Counting, Recounted
<1>12. sector' = SectorAs(sector, t, u)
  BY <1>1 DEF Reserve, SectorAs
<1> HIDE DEF s, r, t, u
<1>13. batch' \in [Batches -> Row] /\ SameThere(batch, batch')
       /\ (\A c \in Batches \ {b} : batch'[c] = batch[c])
       /\ batch'[b]["sold"] = s /\ batch'[b]["reserved"] = r
       /\ batch'[b]["capacity"] = batch[b]["capacity"]
  BY <1>1, <1>10, <1>11, CountingStep
<1>2. batch' \in [Batches -> Row] /\ SameThere(batch, batch')
      /\ \A c \in Batches \ {b} : batch'[c] = batch[c]
  BY <1>13
<1>3. /\ batch'[b]["sold"] = batch[b]["sold"] + n
      /\ batch'[b]["reserved"] = batch[b]["reserved"] + (1 - n)
      /\ batch'[b]["capacity"] = batch[b]["capacity"]
  BY <1>13 DEF s, r
<1>4. /\ sector' \in [Sums -> Nat] /\ sector'["sold"] = sector["sold"] + n
      /\ sector'["reserved"] = sector["reserved"] + (1 - n) /\ sector'["capacity"] = sector["capacity"]
  BY <1>1, <1>10, <1>12, SectorStep DEF t, u
<1>5. "sold" \in Sums /\ "reserved" \in Sums /\ "capacity" \in Sums
  BY DEF Sums
<1>6. SumIn("capacity", batch') = SumIn("capacity", batch)
  BY <1>2, <1>3, SumSame
<1>7. SumIn("sold", batch') = SumIn("sold", batch) + n
  <2>1. CASE n = 1
    BY <1>1, <1>2, <1>3, <1>5, <2>1, SumUp
  <2>2. CASE n = 0
    <3>1. batch'[b]["sold"] = batch[b]["sold"]
      BY <1>1, <1>3, <2>2 DEF Row
    <3>2. SumIn("sold", batch') = SumIn("sold", batch)
      BY <1>2, <3>1, SumSame
    <3> QED
      BY <1>1, <1>5, <2>2, <3>2, SumType
  <2> QED
    BY <2>1, <2>2
<1>8. SumIn("reserved", batch') = SumIn("reserved", batch) + (1 - n)
  <2>1. CASE n = 0
    BY <1>1, <1>2, <1>3, <1>5, <2>1, SumUp
  <2>2. CASE n = 1
    <3>1. batch'[b]["reserved"] = batch[b]["reserved"]
      BY <1>1, <1>3, <2>2 DEF Row
    <3>2. SumIn("reserved", batch') = SumIn("reserved", batch)
      BY <1>2, <3>1, SumSame
    <3> QED
      BY <1>1, <1>5, <2>2, <3>2, SumType
  <2> QED
    BY <2>1, <2>2
<1>9. ASSUME NEW x \in Sums, Alike(x) PROVE sector'[x] = SumIn(x, batch')
  BY <1>4, <1>6, <1>7, <1>8, <1>9 DEF Alike, Sums
<1> QED
  BY <1>4, <1>9 DEF Alike

LEMMA ReleaseSums ==
    ASSUME KInv, NEW b \in Batches, batch[b].there, NEW n \in {0, 1}, Release(b, n)
    PROVE  /\ sector' \in [Sums -> Nat]
           /\ \A x \in Sums : /\ Alike(x)
                              /\ x = "reserved" => (batch[b]["reserved"] = 0 <=> sector["reserved"] = 0)
                              => Alike(x)'
<1>1. batch \in [Batches -> Row] /\ batch[b] \in Row /\ sector \in [Sums -> Nat]
      /\ batch[b]["reserved"] \in Nat /\ sector["reserved"] \in Nat
  BY DEF KInv, SumsOK, IInv, Typed, Row, Sums
<1> DEFINE s == batch[b]["sold"] + n  r == Less(batch[b]["reserved"])
           t == sector["sold"] + n  u == Less(sector["reserved"])
<1>10. s \in Nat /\ r \in Nat /\ t \in Nat /\ u \in Nat
  BY <1>1 DEF Row, Sums, Less
<1>11. batch' = Recounted(batch, b, s, r)
  BY <1>1 DEF Release, Counting, Recounted
<1>12. sector' = SectorAs(sector, t, u)
  BY <1>1 DEF Release, SectorAs
<1> HIDE DEF s, r, t, u
<1>13. batch' \in [Batches -> Row] /\ SameThere(batch, batch')
       /\ (\A c \in Batches \ {b} : batch'[c] = batch[c])
       /\ batch'[b]["sold"] = s /\ batch'[b]["reserved"] = r
       /\ batch'[b]["capacity"] = batch[b]["capacity"]
  BY <1>1, <1>10, <1>11, CountingStep
<1>2. batch' \in [Batches -> Row] /\ SameThere(batch, batch')
      /\ \A c \in Batches \ {b} : batch'[c] = batch[c]
  BY <1>13
<1>3. /\ batch'[b]["sold"] = batch[b]["sold"] + n
      /\ batch'[b]["reserved"] = Less(batch[b]["reserved"])
      /\ batch'[b]["capacity"] = batch[b]["capacity"]
  BY <1>13 DEF s, r
<1>4. /\ sector' \in [Sums -> Nat] /\ sector'["sold"] = sector["sold"] + n
      /\ sector'["reserved"] = Less(sector["reserved"]) /\ sector'["capacity"] = sector["capacity"]
  BY <1>1, <1>10, <1>12, SectorStep DEF t, u
<1>5. "sold" \in Sums /\ "reserved" \in Sums /\ "capacity" \in Sums
  BY DEF Sums
<1>6. SumIn("capacity", batch') = SumIn("capacity", batch)
  BY <1>2, <1>3, SumSame
<1>7. SumIn("sold", batch') = SumIn("sold", batch) + n
  <2>1. CASE n = 1
    BY <1>1, <1>2, <1>3, <1>5, <2>1, SumUp
  <2>2. CASE n = 0
    <3>1. batch'[b]["sold"] = batch[b]["sold"]
      BY <1>1, <1>3, <2>2 DEF Row
    <3>2. SumIn("sold", batch') = SumIn("sold", batch)
      BY <1>2, <3>1, SumSame
    <3> QED
      BY <1>1, <1>5, <2>2, <3>2, SumType
  <2> QED
    BY <2>1, <2>2
<1>8. SumIn("reserved", batch') = IF batch[b]["reserved"] = 0 THEN SumIn("reserved", batch)
                                  ELSE SumIn("reserved", batch) - 1
  <2>1. CASE batch[b]["reserved"] = 0
    <3>1. batch'[b]["reserved"] = batch[b]["reserved"]
      BY <1>3, <2>1 DEF Less
    <3> QED
      BY <1>2, <2>1, <3>1, SumSame
  <2>2. CASE batch[b]["reserved"] # 0
    <3>1. batch[b]["reserved"] = batch'[b]["reserved"] + 1
      BY <1>1, <1>3, <2>2 DEF Less
    <3> QED
      BY <1>1, <1>2, <1>5, <2>2, <3>1, SumDown
  <2> QED
    BY <2>1, <2>2
<1>9. ASSUME NEW x \in Sums, Alike(x),
             x = "reserved" => (batch[b]["reserved"] = 0 <=> sector["reserved"] = 0)
      PROVE  sector'[x] = SumIn(x, batch')
  <2>1. CASE x = "reserved"
    BY <1>1, <1>4, <1>8, <1>9, <2>1 DEF Alike, Less
  <2>2. CASE x # "reserved"
    BY <1>4, <1>6, <1>7, <1>9, <2>2 DEF Alike, Sums
  <2> QED
    BY <2>1, <2>2
<1> QED
  BY <1>4, <1>9 DEF Alike

----------------------------------------------------------------------------
(* Requests that only look *)

LEMMA Known ==
    ASSUME KInv, NEW w \in Workers
    PROVE  /\ WorkOK(work[w]) /\ SnapOK(work[w], order) /\ SnapSums(work[w])
           /\ w \notin stale => FreshOK(work[w], order, batch) /\ FreshSums(work[w], sector, batch)
           /\ work = [v \in Workers |-> work[v]] /\ batch \in [Batches -> Row]
           /\ sector \in [Sums -> Nat]
BY WorkIs DEF KInv, IInv, Typed, SumsOK

LEMMA Silent ==
    ASSUME NEW q, q.pc \notin {"sector", "recalc"}, NEW sec, NEW rows
    PROVE  SnapSums(q) /\ FreshSums(q, sec, rows)
BY DEF SnapSums, FreshSums

LEMMA AsksSums ==
    ASSUME KInv, NEW w \in Workers, NEW k, NEW b \in Batches, NEW pc, NEW snap,
           Request(w, k, b, pc, snap), UNCHANGED <<batch, sector, drift>>, pc # "sector",
           FreshSums(Asked(pc, b, snap), sector, batch), stale \ {w} \subseteq stale'
    PROVE  SumsOK'
<1>1. work' = [work EXCEPT ![w] = Asked(pc, b, snap)]
  BY DEF Request, Asked
<1>2. WorkOK(Asked(pc, b, snap)) /\ Asked(pc, b, snap).pc = pc
  BY AskedType
<1>3. SnapSums(Asked(pc, b, snap))
  BY <1>2 DEF SnapSums
<1> QED
  BY <1>1, <1>2, <1>3, MoveSums

LEMMA LooksSums ==
    ASSUME KInv, NEW w \in Workers,
           FindKey(w) \/ SumBatches(w) \/ Fail(w) \/ Diff(w) \/ (\E b \in Batches : Choose(w, b))
    PROVE  SumsOK'
<1>0. WorkOK(work[w]) /\ work = [v \in Workers |-> work[v]]
  BY Known
<1>1. CASE FindKey(w)
  <2>1. work' = [work EXCEPT ![w] = Went(work[w], "sell")] /\ UNCHANGED <<batch, sector, drift, stale>>
    BY <1>0, <1>1 DEF FindKey, Goto, Went, history
  <2>2. WorkOK(Went(work[w], "sell")) /\ Went(work[w], "sell").pc = "sell"
    BY <1>0, WentType
  <2> HIDE DEF Went
  <2>3. SnapSums(Went(work[w], "sell")) /\ FreshSums(Went(work[w], "sell"), sector, batch)
    BY <2>2, Silent
  <2> QED
    BY <2>1, <2>2, <2>3, MoveSums
<1>2. CASE SumBatches(w)
  <2> DEFINE q == [work[w] EXCEPT !.pc = "sector", !.snap = SectorSums]
  <2>1. work' = [work EXCEPT ![w] = q] /\ UNCHANGED <<batch, sector, drift>> /\ stale' = stale \ {w}
    BY <1>0, <1>2 DEF SumBatches
  <2>2. WorkOK(q) /\ q.pc = "sector" /\ q.snap = SectorSums
    BY <1>0 DEF WorkOK
  <2> HIDE DEF q
  <2>3. \A x \in Sums : SectorSums[x] = SumIn(x, batch) /\ SumIn(x, batch) \in Nat
    BY SumIs, SumType, Known DEF SectorSums
  <2>4. SectorSums \in [Sums -> Nat]
    BY <2>3 DEF SectorSums
  <2>5. SnapSums(q) /\ FreshSums(q, sector, batch)
    BY <2>2, <2>3, <2>4 DEF SnapSums, FreshSums
  <2> QED
    BY <2>1, <2>2, <2>5, MoveSums
<1>3. CASE Fail(w)
  <2>1. work' = [work EXCEPT ![w] = Idle] /\ UNCHANGED <<batch, sector, drift>> /\ stale' = stale \ {w}
    BY <1>3 DEF Fail, Finish
  <2>2. WorkOK(Idle) /\ SnapSums(Idle) /\ FreshSums(Idle, sector, batch)
    BY AnyType, Silent
  <2> QED
    BY <2>1, <2>2, MoveSums
<1>4. ASSUME NEW b \in Batches, Choose(w, b) PROVE SumsOK'
  <2> DEFINE q == [work[w] EXCEPT !.pc = "create", !.batch = b]
  <2>1. work' = [work EXCEPT ![w] = q] /\ UNCHANGED <<batch, sector, drift, stale>>
    BY <1>0, <1>4 DEF Choose, history
  <2>2. WorkOK(q) /\ q.pc = "create"
    BY <1>0 DEF WorkOK
  <2> HIDE DEF q
  <2>3. SnapSums(q) /\ FreshSums(q, sector, batch)
    BY <2>2, Silent
  <2> QED
    BY <2>1, <2>2, <2>3, MoveSums
<1>5. CASE Diff(w)
  <2> DEFINE d == {x \in DOMAIN NoBatch : work[w].snap[x] # batch[work[w].batch][x]}
             q == [work[w] EXCEPT !.pc = "write", !.dirty = d]
  <2>1. work' = [work EXCEPT ![w] = q] /\ UNCHANGED <<batch, sector, drift, stale>>
    BY <1>0, <1>5 DEF Diff, history
  <2>2. WorkOK(q) /\ q.pc = "write"
    <3>1. d \subseteq DOMAIN NoBatch
      OBVIOUS
    <3> HIDE DEF d
    <3> QED
      BY <1>0, <3>1 DEF WorkOK
  <2> HIDE DEF q
  <2>3. SnapSums(q) /\ FreshSums(q, sector, batch)
    BY <2>2, Silent
  <2> QED
    BY <2>1, <2>2, <2>3, MoveSums
<1> QED
  BY <1>1, <1>2, <1>3, <1>4, <1>5

LEMMA DeskSums ==
    ASSUME KInv, NEW w \in Workers, NEW b \in Batches, Edit(w, b) \/ Remove(w, b)
    PROVE  SumsOK'
<1>1. UNCHANGED <<batch, sector, drift, stale>>
  BY DEF Edit, Remove, history
<1>2. ASSUME NEW pc \in {"edit", "delete"}, NEW snap PROVE FreshSums(Asked(pc, b, snap), sector, batch)
  BY AskedType, Silent
<1>3. CASE Remove(w, b)
  <2>1. Request(w, "other", b, "delete", NoBatch)
    BY <1>3 DEF Remove
  <2> QED
    BY <1>1, <1>2, <2>1, AsksSums
<1>4. CASE Edit(w, b)
  <2>1. PICK new \in Changes(b) : Request(w, "write", b, "edit", new)
    BY <1>4 DEF Edit
  <2> QED
    BY <1>1, <1>2, <2>1, AsksSums
<1> QED
  BY <1>3, <1>4

LEMMA ScriptSums ==
    ASSUME KInv, NEW w \in Workers, Recalc(w) \/ Reconcile(w)
    PROVE  SumsOK'
<1>0. AnyBatch \in Batches
  BY AnyType
<1>1. CASE Recalc(w)
  <2> DEFINE Snap(lapsed) ==
        [real |-> Real(lapsed), lapsed |-> {order[o].batch : o \in lapsed},
         batches |-> {b \in There : batch[b].reserved # Real(lapsed)[b]},
         sector |-> sector.reserved # Total(Real(lapsed))]
  <2>1. PICK lapsed \in SUBSET {o \in Orders : order[o].status = "pending"} :
          Request(w, "other", AnyBatch, "recalc", Snap(lapsed))
    BY <1>1 DEF Recalc
  <2> DEFINE s == Snap(lapsed)
             q == Asked("recalc", AnyBatch, s)
  <2>2. s.real = Real(lapsed) /\ s.sector = (sector["reserved"] # Total(Real(lapsed)))
    OBVIOUS
  <2>3. q.pc = "recalc" /\ q.snap = s
    BY <1>0, AskedType
  <2>4. Request(w, "other", AnyBatch, "recalc", s)
    BY <2>1
  <2> HIDE DEF Snap, s, q
  <2>5. FreshSums(q, sector, batch)
    BY <2>2, <2>3 DEF FreshSums
  <2> QED
    BY <1>0, <1>1, <2>4, <2>5, AsksSums DEF Recalc, q
<1>2. CASE Reconcile(w)
  <2> DEFINE s == [b \in Batches |-> Of(b, {"paid"})]
  <2>1. Request(w, "other", AnyBatch, "reconcile", s)
    BY <1>2 DEF Reconcile
  <2> HIDE DEF s
  <2>2. FreshSums(Asked("reconcile", AnyBatch, s), sector, batch)
    BY <1>0, AskedType, Silent
  <2> QED
    BY <1>0, <1>2, <2>1, <2>2, AsksSums DEF Reconcile
<1> QED
  BY <1>1, <1>2

----------------------------------------------------------------------------
(* Orders *)

LEMMA BuySums ==
    ASSUME KInv, NEW w \in Workers, NEW b \in Batches, NEW n \in {0, 1}, Left1(b), Reserve(b, n),
           Finish(w), Outdate(w), drift' = drift
    PROVE  SumsOK'
<1>1. batch[b].there
  BY DEF Left1
<1>2. sector' \in [Sums -> Nat] /\ \A x \in Sums : Alike(x) => Alike(x)'
  BY <1>1, ReserveSums
<1>3. ASSUME NEW x \in Sums, x \notin drift' PROVE sector'[x] = SumOf(x)'
  BY <1>2, <1>3, SumsHold, SumIs DEF Alike
<1>4. SectorIsSum'
  BY <1>3 DEF SectorIsSum
<1>5. WorkOK(Idle) /\ Idle.pc = "idle"
  BY AnyType
<1> QED
  BY <1>2, <1>4, <1>5, CommitSums DEF Finish

LEMMA SalesSums ==
    ASSUME KInv, NEW w \in Workers, NEW o \in Orders,
           Create(w, o) \/ (\E b \in Batches, s \in {"pending", "paid"} : Sell(w, o, b, s))
    PROVE  SumsOK'
<1>1. CASE Create(w, o)
  <2> DEFINE b == work[w].batch
  <2>1. b \in Batches /\ Finish(w) /\ drift' = drift
    BY <1>1, Known DEF WorkOK, Create
  <2>2. CASE Left1(b)
    <3>1. Reserve(b, 0) /\ Outdate(w)
      BY <1>1, <2>2 DEF Create
    <3> HIDE DEF b
    <3> QED
      BY <2>1, <2>2, <3>1, BuySums
  <2>3. CASE ~Left1(b)
    <3>1. UNCHANGED <<batch, sector, drift, stale>> /\ work' = [work EXCEPT ![w] = Idle]
      BY <1>1, <2>3 DEF Create, Finish
    <3>2. WorkOK(Idle) /\ SnapSums(Idle) /\ FreshSums(Idle, sector, batch)
      BY AnyType, Silent
    <3> QED
      BY <3>1, <3>2, MoveSums
  <2> QED
    BY <2>2, <2>3
<1>2. ASSUME NEW b \in Batches, NEW s \in {"pending", "paid"}, Sell(w, o, b, s) PROVE SumsOK'
  <2> DEFINE n == IF s = "paid" THEN 1 ELSE 0
  <2>1. n \in {0, 1} /\ Left1(b) /\ Reserve(b, n) /\ Finish(w) /\ Outdate(w) /\ drift' = drift
    BY <1>2 DEF Sell
  <2> HIDE DEF n
  <2> QED
    BY <2>1, BuySums
<1> QED
  BY <1>1, <1>2

LEMMA ReleasedSums ==
    ASSUME KInv, NEW o \in Orders, NEW n \in {0, 1}, ReleaseOf(o, n), order[o].status # "none"
    PROVE  SumsOK'
<1> DEFINE b == order[o].batch
<1>1. b \in Batches /\ batch[b].there /\ Release(b, n)
  <2>1. order[o] \in Item /\ Release(b, n)
    BY DEF KInv, IInv, Typed, ReleaseOf
  <2>2. b \in Batches /\ Ever(b, order)
    BY <2>1 DEF Item, Ever
  <2> QED
    BY <2>1, <2>2 DEF KInv, IInv, Rows
<1>2. /\ OutdateAll /\ work' = work
      /\ drift' = IF (batch[b]["reserved"] = 0) # (sector["reserved"] = 0)
                  THEN drift \cup {"reserved"} ELSE drift
  BY DEF ReleaseOf
<1> HIDE DEF b
<1>3. /\ sector' \in [Sums -> Nat]
      /\ \A x \in Sums : /\ Alike(x)
                         /\ x = "reserved" => (batch[b]["reserved"] = 0 <=> sector["reserved"] = 0)
                         => Alike(x)'
  BY <1>1, ReleaseSums
<1>4. ASSUME NEW x \in Sums, x \notin drift' PROVE sector'[x] = SumOf(x)'
  <2>1. x \notin drift /\ (x = "reserved" => (batch[b]["reserved"] = 0 <=> sector["reserved"] = 0))
    BY <1>2, <1>4
  <2> QED
    BY <1>3, <2>1, SumsHold, SumIs DEF Alike
<1>5. SectorIsSum'
  BY <1>4 DEF SectorIsSum
<1>6. ASSUME NEW v \in Workers
      PROVE  SnapSums(work'[v]) /\ (v \notin stale' => FreshSums(work'[v], sector', batch'))
  BY <1>2, Known DEF OutdateAll, Summing, FreshSums
<1> HIDE DEF FreshSums, SnapSums
<1> QED
  BY <1>3, <1>5, <1>6 DEF SumsOK

LEMMA EndsSums ==
    ASSUME KInv, NEW o \in Orders, Pay(o) \/ Cancel(o) \/ Expire(o)
    PROVE  SumsOK'
<1>1. order[o].status # "none"
  BY DEF Pay, Cancel, Expire, KInv, IInv, OneKey
<1>2. PICK n \in {0, 1} : ReleaseOf(o, n)
  BY DEF Pay, Cancel, Expire
<1> QED
  BY <1>1, <1>2, ReleasedSums

(* No row of batches or sectors is written.                                 *)
LEMMA CheckoutSums ==
    ASSUME KInv, NEW o \in Orders, Checkout(o) \/ LateCheckout(o) \/ Reopen(o)
    PROVE  SumsOK'
<1>1. UNCHANGED <<batch, sector, work, drift>> /\ stale \subseteq stale'
  BY DEF Checkout, LateCheckout, Reopen, Back
<1>2. \A v \in Workers : SnapSums(work[v]) /\ (v \notin stale' => FreshSums(work[v], sector, batch))
  BY <1>1 DEF KInv, SumsOK
<1>3. SectorIsSum'
  BY <1>1, SumIs DEF KInv, SumsOK, SectorIsSum
<1> HIDE DEF FreshSums, SnapSums
<1> QED
  BY <1>1, <1>2, <1>3 DEF KInv, SumsOK

----------------------------------------------------------------------------
(* Requests that write *)

LEMMA AddBatchSums ==
    ASSUME KInv, NEW w \in Workers, NEW b \in Batches, NEW c, NEW s, AddBatch(w, b, c, s)
    PROVE  SumsOK'
<1> DEFINE q == Asked("sum", b, NoBatch)
<1>1. work' = [work EXCEPT ![w] = q] /\ Outdate(w) /\ sector' = sector /\ drift' = drift \cup Sums
  BY DEF AddBatch, Request, Asked
<1>2. WorkOK(q) /\ q.pc = "sum"
  BY AskedType
<1>3. SectorIsSum' /\ sector' \in [Sums -> Nat]
  BY <1>1, Known DEF SectorIsSum
<1> HIDE DEF q
<1> QED
  BY <1>1, <1>2, <1>3, CommitSums

(* A row that is changed where drift does not say so. *)
Kept(b, row) ==
    \A x \in Sums \ drift' : (row.there <=> batch[b].there) /\ (row.there => row[x] = batch[b][x])
LEMMA RowSums ==
    ASSUME KInv, NEW w \in Workers, NEW q, WorkOK(q), work' = [work EXCEPT ![w] = q], q.pc = "sum",
           Outdate(w), sector' = sector, drift \subseteq drift', NEW b \in Batches, NEW row \in Row,
           batch' = [batch EXCEPT ![b] = row], Kept(b, row)
    PROVE  SumsOK'
<1>1. batch \in [Batches -> Row] /\ batch[b] \in Row /\ sector \in [Sums -> Nat]
  BY Known
<1>2. batch'[b] = row /\ \A c \in Batches \ {b} : batch'[c] = batch[c]
  BY <1>1
<1>3. ASSUME NEW x \in Sums, x \notin drift' PROVE sector'[x] = SumOf(x)'
  <2>1. (row.there <=> batch[b].there) /\ (row.there => row[x] = batch[b][x])
    BY <1>3 DEF Kept
  <2>2. SameThere(batch, batch') /\ \A c \in Batches : batch[c].there => batch'[c][x] = batch[c][x]
    BY <1>2, <2>1 DEF SameThere
  <2>3. SumIn(x, batch') = SumIn(x, batch)
    BY <2>2, SumSame
  <2> QED
    BY <1>3, <2>3, SumsHold, SumIs DEF Alike
<1>4. SectorIsSum'
  BY <1>3 DEF SectorIsSum
<1> QED
  BY <1>1, <1>4, CommitSums

LEMMA DeleteSums ==
    ASSUME KInv, NEW w \in Workers, Delete(w)
    PROVE  SumsOK'
<1> DEFINE b == work[w].batch
           row == [batch[b] EXCEPT !.there = FALSE]
           q == Went(work[w], "sum")
<1>1. WorkOK(work[w]) /\ b \in Batches /\ batch[b] \in Row /\ work = [v \in Workers |-> work[v]]
      /\ batch \in [Batches -> Row]
  BY Known DEF WorkOK
<1>2. WorkOK(q) /\ q.pc = "sum"
  BY <1>1, WentType
<1>3. row \in Row /\ ~row.there
  BY <1>1 DEF Row
<1>4. Outdate(w) /\ sector' = sector /\ drift' = IF batch[b].there THEN drift \cup Sums ELSE drift
  BY <1>1 DEF Delete, There
<1>5. batch' = [batch EXCEPT ![b] = row] /\ work' = [work EXCEPT ![w] = q]
  BY <1>1 DEF Delete, Goto, Went
<1> HIDE DEF b, row, q
<1>6. Kept(b, row)
  BY <1>3, <1>4 DEF Kept
<1> QED
  BY <1>1, <1>2, <1>3, <1>4, <1>5, <1>6, RowSums

LEMMA WriteSums ==
    ASSUME KInv, NEW w \in Workers, Write(w)
    PROVE  SumsOK'
<1> DEFINE b == work[w].batch
           d == work[w].dirty
           s == work[w].snap
           row == Written(w)
           q == Went(work[w], "sum")
<1>1. /\ WorkOK(work[w]) /\ SnapOK(work[w], order) /\ work[w].pc = "write" /\ b \in Batches
      /\ d \subseteq DOMAIN NoBatch /\ batch[b] \in Row /\ work = [v \in Workers |-> work[v]]
      /\ batch \in [Batches -> Row]
  BY Known DEF WorkOK, Write, At
<1>2. s \in Row
  BY <1>1 DEF SnapOK
<1>3. /\ row \in Row
      /\ row.there = IF "there" \in d THEN s.there ELSE batch[b].there
      /\ row["sold"] = IF "sold" \in d THEN s.sold ELSE batch[b]["sold"]
      /\ row["reserved"] = IF "reserved" \in d THEN s.reserved ELSE batch[b]["reserved"]
      /\ row["capacity"] = IF "capacity" \in d THEN s.capacity ELSE batch[b]["capacity"]
  BY <1>1, <1>2, WrittenIs
<1>4. work' = [work EXCEPT ![w] = q] /\ WorkOK(q) /\ q.pc = "sum" /\ sector' = sector
  BY <1>1, WentType DEF Write, Goto, Went
<1>5. CASE row.there
  <2>1. /\ batch' = [batch EXCEPT ![b] = row] /\ Outdate(w)
        /\ drift' = drift \cup (IF "there" \in d THEN Sums ELSE d \cap Sums)
    BY <1>5 DEF Write
  <2> HIDE DEF b, d, s, row, q
  <2>2. ASSUME NEW x \in Sums \ drift'
        PROVE  (row.there <=> batch[b].there) /\ row[x] = batch[b][x]
    <3>1. "there" \notin d /\ x \notin d
      BY <2>1, <2>2
    <3>2. row["sold"] = batch[b]["sold"] \/ "sold" \in d
      BY <1>3
    <3>3. row["reserved"] = batch[b]["reserved"] \/ "reserved" \in d
      BY <1>3
    <3>4. row["capacity"] = batch[b]["capacity"] \/ "capacity" \in d
      BY <1>3
    <3>5. row.there <=> batch[b].there
      BY <1>3, <3>1
    <3>6. x = "capacity" \/ x = "sold" \/ x = "reserved"
      BY <2>2 DEF Sums
    <3>7. row[x] = batch[b][x]
      BY <3>1, <3>2, <3>3, <3>4, <3>6
    <3> QED
      BY <3>5, <3>7
  <2>3. drift \subseteq drift'
    BY <2>1
  <2>4. Kept(b, row)
    BY <2>2 DEF Kept
  <2>5. b \in Batches /\ row \in Row
    BY <1>1, <1>3
  <2> QED
    BY <1>4, <2>1, <2>3, <2>4, <2>5, RowSums
<1>6. CASE ~row.there
  <2>1. UNCHANGED <<batch, stale, drift>>
    BY <1>6 DEF Write
  <2> HIDE DEF b, d, s, row, q
  <2>2. SnapSums(q) /\ FreshSums(q, sector, batch)
    BY <1>4, Silent
  <2> QED
    BY <1>4, <2>1, <2>2, MoveSums
<1> QED
  BY <1>5, <1>6

LEMMA SaveSums ==
    ASSUME KInv, NEW w \in Workers, SaveSector(w)
    PROVE  SumsOK'
<1>1. /\ work[w].pc = "sector" /\ work' = [work EXCEPT ![w] = Idle] /\ sector' = work[w].snap
      /\ drift' = (IF w \in stale THEN Sums ELSE {}) /\ Outdate(w) /\ batch' = batch
  BY DEF SaveSector, At, Finish
<1>2. sector' \in [Sums -> Nat]
  BY <1>1, Known DEF SnapSums
<1>3. ASSUME NEW x \in Sums, x \notin drift' PROVE sector'[x] = SumOf(x)'
  BY <1>1, <1>3, Known, SumIs DEF FreshSums
<1>4. SectorIsSum'
  BY <1>3 DEF SectorIsSum
<1> QED
  BY <1>1, <1>2, <1>4, AnyType, CommitSums

(* The rows are those of the batches that are there, and what a script has  *)
(* counted is what it has counted of these.                                 *)
LEMMA SumOfCounted ==
    ASSUME KInv, NEW f \in [Batches -> Nat], NEW new, NEW x, SameThere(batch, new),
           \A b \in There : new[b][x] = f[b]
    PROVE  SumIn(x, new) = Amount(f, There)
<1> DEFINE g == [b \in Batches |-> new[b][x]]
<1>1. {b \in Batches : new[b].there} = There /\ \A b \in There : g[b] = f[b]
  BY DEF SameThere, There
<1>2. Amount(g, There) = Amount(f, There)
  <2> HIDE DEF g
  <2> QED
    BY <1>1, AmountSame
<1> QED
  BY <1>1, <1>2 DEF SumIn

LEMMA OverAll ==
    ASSUME KInv, NEW f \in [Batches -> Nat], \A b \in Batches : ~Ever(b, order) => f[b] = 0
    PROVE  Total(f) = Amount(f, There) /\ Total(f) \in Nat
<1>1. There \subseteq Batches /\ \A b \in Batches \ There : f[b] = 0
  BY DEF There, KInv, IInv, Rows
<1> QED
  BY <1>1, AmountOver, AmountType DEF Total

LEMMA ApplyRecalcSums ==
    ASSUME KInv, NEW w \in Workers, ApplyRecalc(w)
    PROVE  SumsOK'
<1> DEFINE s == work[w].snap
           written == s.batches \cap There
<1>1. /\ SnapOK(work[w], order) /\ work[w].pc = "recalc" /\ batch \in [Batches -> Row]
      /\ sector \in [Sums -> Nat]
      /\ w \notin stale => FreshOK(work[w], order, batch) /\ FreshSums(work[w], sector, batch)
  BY Known DEF ApplyRecalc, At
<1>2. /\ s \in Recount /\ s.real \in [Batches -> Nat]
      /\ \A b \in Batches : ~Ever(b, order) => s.real[b] = 0
  BY <1>1 DEF SnapOK, Recount
<1>3. w \notin stale =>
        /\ \A b \in Batches : batch[b].there /\ b \notin s.batches => batch[b]["reserved"] = s.real[b]
        /\ s.sector <=> sector["reserved"] # Total(s.real)
  BY <1>1 DEF FreshOK, FreshSums
<1>4. /\ work' = [work EXCEPT ![w] = Idle] /\ Outdate(w)
      /\ batch' = [b \in Batches |-> IF b \in written THEN [batch[b] EXCEPT !.reserved = s.real[b]] ELSE batch[b]]
      /\ sector' = IF s.sector THEN [sector EXCEPT !["reserved"] = Total(s.real)] ELSE sector
      /\ drift' = IF w \in stale THEN drift \cup {"reserved"} ELSE drift \ {"reserved"}
  BY DEF ApplyRecalc, Finish
<1> HIDE DEF s
<1>5. ASSUME NEW b \in Batches
      PROVE  /\ batch'[b].there = batch[b].there /\ batch'[b]["capacity"] = batch[b]["capacity"]
             /\ batch'[b]["sold"] = batch[b]["sold"]
             /\ batch'[b]["reserved"] = IF b \in written THEN s.real[b] ELSE batch[b]["reserved"]
  <2>1. CASE b \in written
    <3>1. batch'[b] = [batch[b] EXCEPT !.reserved = s.real[b]]
      BY <1>4, <2>1
    <3> QED
      BY <2>1, <3>1, <1>1 DEF Row
  <2>2. CASE b \notin written
    BY <2>2, <1>1, <1>4
  <2> QED
    BY <2>1, <2>2
<1>6. Total(s.real) = Amount(s.real, There) /\ Total(s.real) \in Nat
  BY <1>2, OverAll
<1>7. sector' \in [Sums -> Nat] /\ (s.sector => sector'["reserved"] = Total(s.real))
      /\ (~s.sector => sector' = sector) /\ \A x \in Sums : x # "reserved" => sector'[x] = sector[x]
  BY <1>1, <1>4, <1>6 DEF Sums
<1>8. ASSUME NEW x \in Sums, x \notin drift' PROVE sector'[x] = SumIn(x, batch')
  <2>1. SameThere(batch, batch')
    BY <1>5 DEF SameThere
  <2>2. CASE x # "reserved"
    <3>1. \A b \in Batches : batch'[b][x] = batch[b][x]
      BY <1>5, <2>2 DEF Sums
    <3>2. SumIn(x, batch') = SumIn(x, batch) /\ x \notin drift
      BY <1>4, <1>8, <2>1, <2>2, <3>1, SumSame
    <3> QED
      BY <1>7, <2>2, <3>2, SumsHold DEF Alike
  <2>3. CASE x = "reserved"
    <3>1. w \notin stale
      BY <1>4, <1>8, <2>3
    <3>2. \A b \in There : batch'[b]["reserved"] = s.real[b]
      BY <1>3, <1>5, <3>1 DEF There
    <3>3. SumIn("reserved", batch') = Amount(s.real, There)
      BY <1>2, <2>1, <3>2, SumOfCounted
    <3> QED
      BY <1>3, <1>6, <1>7, <2>3, <3>1, <3>3
  <2> QED
    BY <2>2, <2>3
<1>9. SectorIsSum'
  BY <1>8, SumIs DEF SectorIsSum
<1> QED
  BY <1>4, <1>7, <1>9, AnyType, CommitSums

LEMMA ApplyReconcileSums ==
    ASSUME KInv, NEW w \in Workers, ApplyReconcile(w)
    PROVE  SumsOK'
<1> DEFINE s == work[w].snap
<1>1. /\ SnapOK(work[w], order) /\ work[w].pc = "reconcile" /\ batch \in [Batches -> Row]
      /\ sector \in [Sums -> Nat]
  BY Known DEF ApplyReconcile, At
<1>2. s \in [Batches -> Nat]
  BY <1>1 DEF SnapOK
<1>3. /\ work' = [work EXCEPT ![w] = Idle] /\ Outdate(w)
      /\ batch' = [b \in Batches |-> IF b \in There THEN [batch[b] EXCEPT !.sold = s[b]] ELSE batch[b]]
      /\ sector' = [sector EXCEPT !["sold"] = Amount(s, There)]
      /\ drift' = drift \ {"sold"}
  BY DEF ApplyReconcile, Finish
<1> HIDE DEF s
<1>4. ASSUME NEW b \in Batches
      PROVE  /\ batch'[b].there = batch[b].there /\ batch'[b]["capacity"] = batch[b]["capacity"]
             /\ batch'[b]["reserved"] = batch[b]["reserved"]
             /\ b \in There => batch'[b]["sold"] = s[b]
  <2>1. CASE b \in There
    <3>1. batch'[b] = [batch[b] EXCEPT !.sold = s[b]]
      BY <1>3, <2>1
    <3> QED
      BY <2>1, <3>1, <1>1 DEF Row
  <2>2. CASE b \notin There
    BY <2>2, <1>1, <1>3
  <2> QED
    BY <2>1, <2>2
<1>5. There \subseteq Batches /\ Amount(s, There) \in Nat
  BY <1>2, AmountType DEF There
<1>6. sector' \in [Sums -> Nat] /\ sector'["sold"] = Amount(s, There)
      /\ \A x \in Sums : x # "sold" => sector'[x] = sector[x]
  BY <1>1, <1>3, <1>5 DEF Sums
<1>7. ASSUME NEW x \in Sums, x \notin drift' PROVE sector'[x] = SumIn(x, batch')
  <2>1. SameThere(batch, batch')
    BY <1>4 DEF SameThere
  <2>2. CASE x # "sold"
    <3>1. \A b \in Batches : batch'[b][x] = batch[b][x]
      BY <1>4, <2>2 DEF Sums
    <3>2. SumIn(x, batch') = SumIn(x, batch) /\ x \notin drift
      BY <1>3, <1>7, <2>1, <2>2, <3>1, SumSame
    <3> QED
      BY <1>6, <2>2, <3>2, SumsHold DEF Alike
  <2>3. CASE x = "sold"
    <3>1. SumIn("sold", batch') = Amount(s, There)
      BY <1>2, <1>4, <1>5, <2>1, SumOfCounted
    <3> QED
      BY <1>6, <2>3, <3>1
  <2> QED
    BY <2>2, <2>3
<1>8. SectorIsSum'
  BY <1>7, SumIs DEF SectorIsSum
<1> QED
  BY <1>3, <1>6, <1>8, AnyType, CommitSums

----------------------------------------------------------------------------
(* The bounds, and both together *)

LEMMA RequestBounded ==
    ASSUME KInv, NEW w, NEW k \in Kinds, NEW b, NEW pc, NEW snap, Request(w, k, b, pc, snap)
    PROVE  requests' \in [Kinds -> Nat]
<1>1. requests \in [Kinds -> Nat] /\ requests[k] > 0 /\ requests' = [requests EXCEPT ![k] = requests[k] - 1]
  BY DEF KInv, Bounded, Request
<1>2. requests[k] - 1 \in Nat
  BY <1>1
<1> QED
  BY <1>1, <1>2

LEMMA PartBounded ==
    ASSUME KInv, NEW o \in Orders, NEW counters, Part(o, counters)
    PROVE  requests' \in [Kinds -> Nat] /\ cut' \subseteq Batches
<1>1. /\ requests \in [Kinds -> Nat] /\ requests["late"] > 0 /\ "late" \in Kinds
      /\ requests' = [requests EXCEPT !["late"] = requests["late"] - 1]
  BY DEF KInv, Bounded, Part, Kinds
<1>2. requests["late"] - 1 \in Nat
  BY <1>1
<1>3. requests' \in [Kinds -> Nat]
  BY <1>1, <1>2
<1>4. order[o].batch \in Batches /\ cut \subseteq Batches
  BY DEF KInv, Bounded, IInv, Typed, Item
<1> QED
  BY <1>3, <1>4 DEF Part

LEMMA SameBounded ==
    ASSUME KInv, requests' = requests
    PROVE  requests' \in [Kinds -> Nat]
BY DEF KInv, Bounded

LEMMA HistoryBounded ==
    ASSUME KInv, stale' \subseteq Workers, drift' \subseteq Sums, cut' \subseteq Batches, taken' \in BOOLEAN,
           requests' \in [Kinds -> Nat]
    PROVE  Bounded'
BY DEF Bounded

LEMMA NextBounded ==
    ASSUME KInv, [Next]_vars
    PROVE  Bounded'
<1>0. stale \subseteq Workers /\ drift \subseteq Sums /\ cut \subseteq Batches /\ taken \in BOOLEAN
  BY DEF KInv, Bounded
<1>1. CASE UNCHANGED vars
  BY <1>0, <1>1, SameBounded, HistoryBounded DEF vars, history
<1>2. ASSUME NEW w \in Workers, NEW o \in Orders, Create(w, o) PROVE Bounded'
  BY <1>0, <1>2, SameBounded, HistoryBounded DEF Create, Outdate
<1>3. ASSUME NEW w \in Workers, NEW o \in Orders, NEW b \in Batches, NEW s, Sell(w, o, b, s) PROVE Bounded'
  BY <1>0, <1>3, SameBounded, HistoryBounded DEF Sell, Outdate
<1>4. ASSUME NEW w \in Workers, NEW b \in Batches, Choose(w, b) PROVE Bounded'
  BY <1>0, <1>4, SameBounded, HistoryBounded DEF Choose, history
<1>5. ASSUME NEW w \in Workers, NEW b \in Batches, Edit(w, b) PROVE Bounded'
  <2>1. PICK new \in Changes(b) : Request(w, "write", b, "edit", new)
    BY <1>5 DEF Edit
  <2>2. UNCHANGED history /\ "write" \in Kinds
    BY <1>5 DEF Edit, Kinds
  <2> QED
    BY <1>0, <2>1, <2>2, RequestBounded, HistoryBounded DEF history
<1>6. ASSUME NEW w \in Workers, NEW b \in Batches, Remove(w, b) PROVE Bounded'
  <2>1. Request(w, "other", b, "delete", NoBatch) /\ UNCHANGED history /\ "other" \in Kinds
    BY <1>6 DEF Remove, Kinds
  <2> QED
    BY <1>0, <2>1, RequestBounded, HistoryBounded DEF history
<1>7. ASSUME NEW w \in Workers, NEW b \in Batches, NEW c, NEW s, AddBatch(w, b, c, s) PROVE Bounded'
  <2>1. /\ Request(w, "write", b, "sum", NoBatch) /\ "write" \in Kinds
        /\ drift' = drift \cup Sums /\ Outdate(w) /\ UNCHANGED <<cut, taken>>
    BY <1>7 DEF AddBatch, Kinds
  <2>2. stale' \subseteq Workers
    BY <1>0, <2>1 DEF Outdate
  <2> QED
    BY <1>0, <2>1, <2>2, RequestBounded, HistoryBounded
<1>8. ASSUME NEW w \in Workers, FindKey(w) \/ Diff(w) PROVE Bounded'
  BY <1>0, <1>8, SameBounded, HistoryBounded DEF FindKey, Diff, history
<1>9. ASSUME NEW w \in Workers, Write(w) PROVE Bounded'
  <2>1. work[w].batch \in Batches
    BY <1>9, Known DEF WorkOK
  <2>2. requests' = requests /\ taken' = taken
    BY <1>9 DEF Write
  <2>3. stale' \subseteq Workers
    BY <1>0, <1>9 DEF Write, Outdate
  <2>4. drift' \subseteq Sums
    BY <1>0, <1>9 DEF Write
  <2>5. cut' \subseteq Batches
    BY <1>0, <1>9, <2>1 DEF Write
  <2> QED
    BY <1>0, <2>2, <2>3, <2>4, <2>5, SameBounded, HistoryBounded
<1>10. ASSUME NEW w \in Workers, Delete(w) PROVE Bounded'
  BY <1>0, <1>10, SameBounded, HistoryBounded DEF Delete, Outdate
<1>11. ASSUME NEW w \in Workers, SumBatches(w) \/ SaveSector(w) \/ Fail(w) PROVE Bounded'
  BY <1>0, <1>11, SameBounded, HistoryBounded DEF SumBatches, SaveSector, Fail, Outdate
<1>12. ASSUME NEW w \in Workers, Recalc(w) PROVE Bounded'
  <2>1. PICK snap : Request(w, "other", AnyBatch, "recalc", snap)
    BY <1>12 DEF Recalc
  <2>2. "other" \in Kinds /\ stale' = stale \ {w} /\ UNCHANGED <<drift, cut, taken>>
    BY <1>12 DEF Recalc, Kinds
  <2> QED
    BY <1>0, <2>1, <2>2, RequestBounded, HistoryBounded
<1>13. ASSUME NEW w \in Workers, Reconcile(w) PROVE Bounded'
  <2>1. PICK snap : Request(w, "other", AnyBatch, "reconcile", snap)
    BY <1>13 DEF Reconcile
  <2>2. "other" \in Kinds /\ stale' = stale \ {w} /\ UNCHANGED <<drift, cut, taken>>
    BY <1>13 DEF Reconcile, Kinds
  <2> QED
    BY <1>0, <2>1, <2>2, RequestBounded, HistoryBounded
<1>14. ASSUME NEW w \in Workers, ApplyRecalc(w) PROVE Bounded'
  <2>1. work[w].snap.lapsed \subseteq Batches
    BY <1>14, Known DEF SnapOK, Recount, ApplyRecalc, At
  <2>2. requests' = requests /\ taken' = taken /\ stale' \subseteq Workers
    BY <1>0, <1>14 DEF ApplyRecalc, Outdate
  <2>3. drift' \subseteq Sums
    BY <1>0, <1>14 DEF ApplyRecalc, Sums
  <2>4. cut' \subseteq Batches
    BY <1>0, <1>14, <2>1 DEF ApplyRecalc, There
  <2> QED
    BY <1>0, <2>2, <2>3, <2>4, SameBounded, HistoryBounded
<1>15. ASSUME NEW w \in Workers, ApplyReconcile(w) PROVE Bounded'
  <2>1. requests' = requests /\ taken' = taken /\ stale' \subseteq Workers /\ drift' \subseteq Sums
    BY <1>0, <1>15 DEF ApplyReconcile, Outdate
  <2>2. cut' \subseteq Batches
    BY <1>0, <1>15 DEF ApplyReconcile, There
  <2> QED
    BY <1>0, <2>1, <2>2, SameBounded, HistoryBounded
<1>16. ASSUME NEW o \in Orders, NEW n, ReleaseOf(o, n)
       PROVE  stale' \subseteq Workers /\ drift' \subseteq Sums /\ taken' = taken
  BY <1>0, <1>16 DEF ReleaseOf, OutdateAll, Sums
<1>17. ASSUME NEW o \in Orders, Pay(o) \/ Cancel(o) PROVE Bounded'
  <2>1. (\E n \in {0, 1} : ReleaseOf(o, n)) /\ Agrees
    BY <1>17 DEF Pay, Cancel
  <2> QED
    BY <1>0, <1>16, <2>1, SameBounded, HistoryBounded DEF Agrees
<1>18. ASSUME NEW o \in Orders, Expire(o) PROVE Bounded'
  <2>1. ReleaseOf(o, 0) /\ (Agrees \/ \E counters : Part(o, counters))
    BY <1>18 DEF Expire
  <2>2. requests' \in [Kinds -> Nat] /\ cut' \subseteq Batches
    BY <1>0, <2>1, SameBounded, PartBounded DEF Agrees
  <2> QED
    BY <1>0, <1>16, <2>1, <2>2, HistoryBounded
<1>19. ASSUME NEW o \in Orders, Checkout(o) PROVE Bounded'
  <2>1. taken' \in BOOLEAN
    BY <1>0, <1>19 DEF Checkout, Charged
  <2> QED
    BY <1>0, <1>19, <2>1, SameBounded, HistoryBounded DEF Checkout
<1>20. ASSUME NEW o \in Orders, LateCheckout(o) \/ Reopen(o) PROVE Bounded'
  <2>1. taken' \in BOOLEAN
    BY <1>0, <1>20 DEF LateCheckout, Reopen, Charged
  <2>2. Back(o)
    BY <1>20 DEF LateCheckout, Reopen
  <2>3. requests' \in [Kinds -> Nat] /\ cut' \subseteq Batches
    BY <2>2, PartBounded DEF Back
  <2>4. stale' \subseteq Workers /\ drift' = drift
    BY <1>0, <2>2 DEF Back
  <2> QED
    BY <1>0, <2>1, <2>3, <2>4, HistoryBounded
<1> QED
  BY <1>1, <1>2, <1>3, <1>4, <1>5, <1>6, <1>7, <1>8, <1>9, <1>10, <1>11, <1>12, <1>13, <1>14,
     <1>15, <1>17, <1>18, <1>19, <1>20 DEF Next

LEMMA NextSums ==
    ASSUME KInv, [Next]_vars
    PROVE  SumsOK'
<1>1. CASE UNCHANGED vars
  BY <1>1, SumIs DEF KInv, SumsOK, SectorIsSum, vars, history
<1>2. ASSUME NEW w \in Workers, NEW o \in Orders,
             Create(w, o) \/ \E b \in Batches, s \in {"pending", "paid"} : Sell(w, o, b, s)
      PROVE  SumsOK'
  BY <1>2, SalesSums
<1>3. ASSUME NEW w \in Workers,
             FindKey(w) \/ SumBatches(w) \/ Fail(w) \/ Diff(w) \/ \E b \in Batches : Choose(w, b)
      PROVE  SumsOK'
  BY <1>3, LooksSums
<1>4. ASSUME NEW w \in Workers, NEW b \in Batches, Edit(w, b) \/ Remove(w, b) PROVE SumsOK'
  BY <1>4, DeskSums
<1>5. ASSUME NEW w \in Workers, NEW b \in Batches, NEW c \in Capacities, NEW s \in {"open", "hidden"},
             AddBatch(w, b, c, s)
      PROVE  SumsOK'
  BY <1>5, AddBatchSums
<1>6. ASSUME NEW w \in Workers, Write(w) \/ Delete(w) \/ SaveSector(w) PROVE SumsOK'
  BY <1>6, WriteSums, DeleteSums, SaveSums
<1>7. ASSUME NEW w \in Workers, Recalc(w) \/ Reconcile(w) PROVE SumsOK'
  BY <1>7, ScriptSums
<1>8. ASSUME NEW w \in Workers, ApplyRecalc(w) \/ ApplyReconcile(w) PROVE SumsOK'
  BY <1>8, ApplyRecalcSums, ApplyReconcileSums
<1>9. ASSUME NEW o \in Orders,
             Pay(o) \/ Cancel(o) \/ Expire(o) \/ Checkout(o) \/ LateCheckout(o) \/ Reopen(o)
      PROVE  SumsOK'
  BY <1>9, EndsSums, CheckoutSums
<1> QED
  BY <1>1, <1>2, <1>3, <1>4, <1>5, <1>6, <1>7, <1>8, <1>9 DEF Next

LEMMA InitK ==
    ASSUME Init
    PROVE  KInv
<1>1. IInv
  BY InitInv
<1>2. batch \in [Batches -> Row]
  BY <1>1 DEF IInv, Typed
<1>3. sector = SectorSums /\ stale = {} /\ drift = {} /\ cut = {} /\ taken = FALSE
      /\ requests \in Budgets /\ work = [w \in Workers |-> Idle]
  BY DEF Init
<1>4. \A x \in Sums : SectorSums[x] = SumOf(x) /\ SumOf(x) \in Nat
  BY <1>2, SumIs, SumType DEF SectorSums
<1>5. sector \in [Sums -> Nat] /\ SectorIsSum
  BY <1>3, <1>4 DEF SectorSums, SectorIsSum
<1>6. \A w \in Workers : SnapSums(work[w]) /\ FreshSums(work[w], sector, batch)
  BY <1>3, AnyType, Silent
<1>7. Bounded
  BY <1>3, StockAssumption DEF Bounded
<1> QED
  BY <1>1, <1>5, <1>6, <1>7 DEF KInv, SumsOK

(* What a request of the desk or a script has read of the sums is true as   *)
(* long as nobody has outdated it, so that what it saves is their sum.      *)
THEOREM SumsInvariant == Spec => []KInv
<1>1. Init => KInv
  BY InitK
<1>2. KInv /\ [Next]_vars => KInv'
  BY NextInv, NextSums, NextBounded DEF KInv
<1> QED
  BY <1>1, <1>2, PTL DEF Spec

(* The rows, the sector and the histories have their types (batch.entity.ts *)
(* and sector.entity.ts), for any number of requests, orders and batches:   *)
(* in particular no counter falls below zero, and no order outlives its     *)
(* batch.                                                                   *)
THEOREM TypeCorrect == Spec => []TypeOK
<1>1. ASSUME KInv PROVE TypeOK
  <2>1. \A b \in Batches :
          batch[b] \in [there: BOOLEAN, capacity: Nat, sold: Nat, reserved: Nat, state: States]
    BY <1>1, Known DEF KInv, IInv, Typed, Row
  <2>2. \A x \in Sums : sector[x] \in Nat
    BY <1>1 DEF KInv, SumsOK
  <2>3. \A o \in Orders : order[o].status # "none" => order[o].batch \in There
    BY <1>1 DEF KInv, IInv, Typed, Item, Rows, Ever, There
  <2>4. lost \subseteq (Batches \X Counters)
    BY <1>1 DEF KInv, IInv, Typed
  <2> QED
    BY <1>1, <2>1, <2>2, <2>3, <2>4 DEF KInv, Bounded, TypeOK
<1> QED
  BY <1>1, SumsInvariant, PTL

(* Once recomputeSectorCapacity (producer-batches.service.ts) or a script   *)
(* has summed the batches undisturbed, the sector's sums stay those of its  *)
(* batches through every sale and checkout, and through a release, the      *)
(* second of an order too, that finds both reservations at 0 or neither;    *)
(* for any number of batches.                                               *)
THEOREM SectorsAreSums == Spec => []SectorIsSum
<1>1. KInv => SectorIsSum
  BY DEF KInv, SumsOK
<1> QED
  BY <1>1, SumsInvariant, PTL

----------------------------------------------------------------------------
(* What fits in a sector *)

(* The units of g, laid behind those of f. *)
Behind(f, g, B) == {<<u[1], f[u[1]] + u[2]>> : u \in Units(g, B)}
LEMMA BehindIs ==
    ASSUME NEW f \in [Batches -> Nat], NEW g \in [Batches -> Nat], NEW B, B \subseteq Batches,
           NEW b, NEW i
    PROVE  <<b, i>> \in Behind(f, g, B) <=> b \in B /\ \E j \in 1..g[b] : i = f[b] + j
<1>1. ASSUME <<b, i>> \in Behind(f, g, B) PROVE b \in B /\ \E j \in 1..g[b] : i = f[b] + j
  <2>1. PICK u \in Units(g, B) : <<b, i>> = <<u[1], f[u[1]] + u[2]>>
    BY <1>1 DEF Behind
  <2>2. PICK c \in B : \E j \in 1..g[c] : u = <<c, j>>
    BY UnitsAre
  <2>3. PICK j \in 1..g[c] : u = <<c, j>>
    BY <2>2
  <2>4. u[1] = c /\ u[2] = j
    BY <2>3
  <2> QED
    BY <2>1, <2>4
<1>2. ASSUME b \in B, NEW j \in 1..g[b], i = f[b] + j PROVE <<b, i>> \in Behind(f, g, B)
  <2>1. <<b, j>> \in Units(g, B)
    BY <1>2, UnitIs
  <2>2. <<b, j>>[1] = b /\ <<b, j>>[2] = j
    OBVIOUS
  <2> QED
    BY <1>2, <2>1, <2>2 DEF Behind
<1> QED
  BY <1>1, <1>2

LEMMA BehindSize ==
    ASSUME NEW f \in [Batches -> Nat], NEW g \in [Batches -> Nat], NEW B, B \subseteq Batches
    PROVE  IsFiniteSet(Behind(f, g, B)) /\ Cardinality(Behind(f, g, B)) = Amount(g, B)
<1> DEFINE U == Units(g, B)
           V == Behind(f, g, B)
           m == [u \in U |-> <<u[1], f[u[1]] + u[2]>>]
<1>1. ASSUME NEW u \in U
      PROVE  u[1] \in B /\ f[u[1]] \in Nat /\ u[2] \in Nat /\ u = <<u[1], u[2]>>
  <2>1. PICK c \in B : \E j \in 1..g[c] : u = <<c, j>>
    BY UnitsAre
  <2>2. PICK j \in 1..g[c] : u = <<c, j>>
    BY <2>1
  <2>3. u[1] = c /\ u[2] = j /\ g[c] \in Nat /\ f[c] \in Nat
    BY <2>2
  <2> QED
    BY <2>2, <2>3
<1>2. \A v \in V : \E u \in U : m[u] = v
  BY DEF Behind
<1>3. m \in [U -> V]
  BY DEF Behind
<1>4. ASSUME NEW u \in U, NEW v \in U, m[u] = m[v] PROVE u = v
  <2>1. <<u[1], f[u[1]] + u[2]>> = <<v[1], f[v[1]] + v[2]>>
    BY <1>4
  <2>2. u[1] = v[1] /\ f[u[1]] + u[2] = f[v[1]] + v[2]
    BY <2>1
  <2>3. u[2] = v[2]
    BY <1>1, <2>2
  <2> QED
    BY <1>1, <2>2, <2>3
<1> HIDE DEF m, U, V
<1>5. m \in Bijection(U, V)
  BY <1>2, <1>3, <1>4 DEF Bijection, Injection, Surjection, IsInjective
<1>6. IsFiniteSet(U) /\ Cardinality(U) = Amount(g, B)
  BY AmountType DEF U, Amount
<1>7. ExistsBijection(U, V)
  BY <1>5 DEF ExistsBijection
<1> QED
  BY <1>6, <1>7, FS_Bijection DEF V

(* If in no batch f and g are more than h, and in one less, so are the sums. *)
LEMMA AmountFits ==
    ASSUME NEW f \in [Batches -> Nat], NEW g \in [Batches -> Nat], NEW h \in [Batches -> Nat],
           NEW B, B \subseteq Batches, \A c \in B : f[c] + g[c] <= h[c],
           NEW b \in B, f[b] + g[b] < h[b]
    PROVE  Amount(f, B) + Amount(g, B) < Amount(h, B)
<1> DEFINE U == Units(f, B)
           V == Behind(f, g, B)
           W == Units(h, B)
           u == <<b, h[b]>>
<1>1. ASSUME NEW v \in U PROVE v \in W /\ v \notin V /\ v # u
  <2>1. PICK c \in B : \E i \in 1..f[c] : v = <<c, i>>
    BY UnitsAre
  <2>2. PICK i \in 1..f[c] : v = <<c, i>>
    BY <2>1
  <2>3. f[c] \in Nat /\ g[c] \in Nat /\ h[c] \in Nat /\ f[c] + g[c] <= h[c]
    OBVIOUS
  <2>4. i \in 1..h[c] /\ (\A j \in 1..g[c] : i # f[c] + j) /\ (c = b => i # h[b])
    BY <2>3
  <2> QED
    BY <2>2, <2>4, UnitIs, BehindIs
<1>2. ASSUME NEW v \in V PROVE v \in W /\ v # u
  <2>1. PICK x \in Units(g, B) : v = <<x[1], f[x[1]] + x[2]>>
    BY DEF Behind
  <2>2. PICK c \in B : \E j \in 1..g[c] : x = <<c, j>>
    BY UnitsAre
  <2>3. PICK j \in 1..g[c] : x = <<c, j>>
    BY <2>2
  <2>4. x[1] = c /\ x[2] = j
    BY <2>3
  <2>5. f[c] \in Nat /\ g[c] \in Nat /\ h[c] \in Nat /\ f[c] + g[c] <= h[c]
    OBVIOUS
  <2>6. f[c] + j \in 1..h[c] /\ (c = b => f[c] + j # h[b])
    BY <2>5
  <2> QED
    BY <2>1, <2>4, <2>6, UnitIs
<1>3. u \in W
  <2>1. f[b] \in Nat /\ g[b] \in Nat /\ h[b] \in Nat
    OBVIOUS
  <2>2. h[b] \in 1..h[b]
    BY <2>1
  <2> QED
    BY <2>2, UnitIs
<1>4. /\ IsFiniteSet(U) /\ Cardinality(U) = Amount(f, B) /\ Amount(f, B) \in Nat
      /\ IsFiniteSet(W) /\ Cardinality(W) = Amount(h, B) /\ Amount(h, B) \in Nat
      /\ Amount(g, B) \in Nat
  BY AmountType DEF Amount
<1>5. IsFiniteSet(V) /\ Cardinality(V) = Amount(g, B)
  BY BehindSize
<1> HIDE DEF U, V, W, u
<1>6. U \cap V = {} /\ U \cup V \subseteq W \ {u}
  BY <1>1, <1>2
<1>7. Cardinality(U \cup V) = Amount(f, B) + Amount(g, B)
  <2>1. Cardinality(U \cup V) = Cardinality(U) + Cardinality(V) - Cardinality(U \cap V)
    BY <1>4, <1>5, FS_Union
  <2> QED
    <3>1. Cardinality(U \cap V) = 0
      BY <1>6, FS_EmptySet
    <3> QED
      BY <1>4, <1>5, <2>1, <3>1
<1>8. IsFiniteSet(W \ {u}) /\ Cardinality(W \ {u}) = Amount(h, B) - 1
  BY <1>3, <1>4, FS_RemoveElement
<1>9. Cardinality(U \cup V) <= Cardinality(W \ {u})
  BY <1>6, <1>8, FS_Subset
<1> QED
  BY <1>4, <1>7, <1>8, <1>9

LEMMA OfferGives == ASSUME KInv PROVE OfferIsShown
<1> SUFFICES ASSUME Offered # {}, Public \cap cut = {} PROVE ~ShownAsSoldOut
  BY DEF OfferIsShown
<1> DEFINE f == Column("sold")  g == Column("reserved")  h == Column("capacity")
<1>1. batch \in [Batches -> Row]
  BY DEF KInv, IInv, Typed
<1>2. PICK b \in Offered : b \in Public /\ IsOpen(b)
  BY DEF Offered, ActiveAvulso, Active, OpenCombos
<1>3. f \in [Batches -> Nat] /\ g \in [Batches -> Nat] /\ h \in [Batches -> Nat]
  BY <1>1, ColumnType DEF Column, Sums
<1>4. Public \subseteq Batches /\ Public \subseteq There
  BY DEF Public, There, HasState
<1>5. ASSUME NEW c \in Public PROVE f[c] + g[c] <= h[c]
  <2>1. c \in There \ cut /\ c \in Batches
    BY <1>4
  <2>2. batch[c].sold + batch[c].reserved <= batch[c].capacity
    BY <2>1 DEF KInv, IInv, Owed
  <2> QED
    BY <2>1, <2>2 DEF Column
<1>6. f[b] + g[b] < h[b]
  BY <1>2, <1>4 DEF Column, IsOpen
<1>7. Amount(f, Public) \in Nat /\ Amount(g, Public) \in Nat /\ Amount(h, Public) \in Nat
  BY <1>3, <1>4, AmountType
<1>8. Left = Amount(h, Public) - Amount(f, Public) - Amount(g, Public)
  BY DEF Left, SumPublicBatches
<1> HIDE DEF f, g, h
<1>9. Amount(f, Public) + Amount(g, Public) < Amount(h, Public)
  BY <1>2, <1>3, <1>4, <1>5, <1>6, AmountFits
<1> QED
  BY <1>7, <1>8, <1>9 DEF ShownAsSoldOut

(* A sector of which the public page (events.service.ts and events/lib)     *)
(* offers a batch is not shown there as sold out, for any number of batches *)
(* and requests, unless one of those shown was cut or has parted from its   *)
(* orders.                                                                  *)
THEOREM OffersAreShown == Spec => []OfferIsShown
<1> QED
  BY OfferGives, SumsInvariant, PTL
=============================================================================
