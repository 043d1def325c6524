------------------------------- MODULE StockDesk -------------------------------
(***************************************************************************)
(* The stock of one sector behind the producer's desk: batches created,    *)
(* edited and removed (producer-batches.service.ts), sales by e-mail       *)
(* (sell-by-email.service.ts), what the public page offers (events.service *)
(* and events/lib) and what orders.create takes, and the scripts that      *)
(* repair the counters.  Every order is for one unit of one batch; OrderTx *)
(* has the locks and the statements of a sale, here each commit is a step. *)
(*                                                                         *)
(* A request reads an order without a lock and may commit much later: what *)
(* it read is how the order was at any of the times it was PENDING, so an  *)
(* order may be released again, or put back to PENDING by a checkout.      *)
(*                                                                         *)
(* A desk request is a sequence of unlocked reads and saves.  save(entity) *)
(* reads the row again and writes the columns that differ, so it also      *)
(* writes what a sale changed since the entity was read.                   *)
(***************************************************************************)
EXTENDS Naturals, Integers, FiniteSets

CONSTANTS
    Workers,     \* desk requests, sales by e-mail, creates, scripts
    Orders, Batches,
    Combos,      \* batches with ticketsPerUnit > 1
    SortOrder,   \* sortOrder of a batch
    Openings,    \* what batches the event may be created with: capacities, 0 for none
    Capacities,  \* bound: capacities the desk writes
    Settings,    \* bound: states an edit writes
    Budgets      \* bound: how many of each kind there may be

(* What adds or edits a batch, what acts on an order that has ended, and    *)
(* the desk's removals and the scripts.                                     *)
Kinds == {"write", "late", "other"}
(* hidden: producerOnly; off: not isActive; else in its window or not.      *)
States == {"hidden", "off", "open", "shut"}
ASSUME StockAssumption ==
    /\ IsFiniteSet(Workers) /\ IsFiniteSet(Orders) /\ IsFiniteSet(Batches) /\ Batches # {}
    /\ Combos \subseteq Batches /\ SortOrder \in [Batches -> Nat]
    /\ Openings \subseteq [Batches -> Nat] /\ Capacities \subseteq Nat \ {0}
    /\ Settings \subseteq States /\ Budgets \subseteq [Kinds -> Nat]

Sums == {"capacity", "sold", "reserved"}
Counters == {"sold", "reserved"}
NoBatch == [there |-> FALSE, capacity |-> 0, sold |-> 0, reserved |-> 0,
            state |-> "off"]
AnyBatch == CHOOSE b \in Batches : TRUE
NoOrder == [status |-> "none", batch |-> AnyBatch, byEmail |-> FALSE, id |-> "other", seen |-> {}]
Idle == [pc |-> "idle", batch |-> AnyBatch, snap |-> NoBatch, dirty |-> {}]

VARIABLES
    batch,     \* the rows of batches
    sector,    \* capacity, sold and reserved of the sector's row
    order,     \* orders; id: paymentId is the key of the sale by e-mail, or other
               \* (none, manual, a charge); seen: the ids it had while PENDING
    work,      \* what each worker is doing
    requests,  \* how many of each kind there may still be
    stale,     \* history: workers whose sums another commit has outdated
    drift,     \* history: sums disturbed since the sector was last summed
    lost,      \* history: counters that an outdated value has overwritten, or an
               \* order released twice or put back has left behind
    cut,       \* history: batches cut below what they owed, or ever in lost
    taken      \* history: a checkout has replaced the key of a sale

vars == <<batch, sector, order, work, requests, stale, drift, lost, cut, taken>>
history == <<stale, drift, lost, cut, taken>>

Of(b, S) == Cardinality({o \in Orders : order[o].batch = b /\ order[o].status \in S})
There == {b \in Batches : batch[b].there}
(* A sum over batches is the number of their units, one by one.             *)
Units(f, B) == UNION {{b} \X (1..f[b]) : b \in B}
Amount(f, B) == Cardinality(Units(f, B))
Column(x) == [b \in Batches |-> batch[b][x]]
SumOf(x) == Amount(Column(x), There)
SectorSums == [x \in Sums |-> SumOf(x)]

TypeOK ==
    /\ \A b \in Batches :
         batch[b] \in [there: BOOLEAN, capacity: Nat, sold: Nat, reserved: Nat,
                       state: States]
    /\ \A x \in Sums : sector[x] \in Nat
    /\ \A o \in Orders : order[o].status # "none" => order[o].batch \in There
    /\ requests \in [Kinds -> Nat] /\ stale \subseteq Workers /\ drift \subseteq Sums
    /\ lost \subseteq (Batches \X Counters) /\ cut \subseteq Batches
    /\ taken \in BOOLEAN

NewBatch(c, state) == [NoBatch EXCEPT !.there = TRUE, !.capacity = c, !.state = state]
(* An event is created with its sectors and batches in one transaction.     *)
Init ==
    /\ \E c \in Openings :
         batch = [b \in Batches |-> IF c[b] = 0 THEN NoBatch ELSE NewBatch(c[b], "open")]
    /\ sector = SectorSums
    /\ order = [o \in Orders |-> NoOrder]
    /\ work = [w \in Workers |-> Idle] /\ requests \in Budgets
    /\ stale = {} /\ drift = {} /\ lost = {} /\ cut = {} /\ taken = FALSE

At(w, pc) == work[w].pc = pc
Goto(w, pc) == work' = [work EXCEPT ![w].pc = pc]
Finish(w) == work' = [work EXCEPT ![w] = Idle]
(* What a worker has read of the counters is outdated by another's commit.  *)
Summing == {"sector", "recalc", "reconcile"}
OutdateAll == stale' = stale \cup {v \in Workers : work[v].pc \in Summing}
Outdate(w) == stale' = (stale \cup {v \in Workers : work[v].pc \in Summing}) \ {w}

----------------------------------------------------------------------------
(* What the public page offers, and what an order may take *)

HasState(b, S) == batch[b].there /\ batch[b].state \in S
IsOpenFull(b) ==   \* variant: off by one
    HasState(b, {"open"}) /\ batch[b].sold + batch[b].reserved <= batch[b].capacity
IsOpen(b) ==
    /\ HasState(b, {"open"})
    /\ batch[b].sold + batch[b].reserved < batch[b].capacity
(* The open batch that comes first; which one, among equals, is not fixed.  *)
Active(B) == {b \in B : IsOpen(b) /\ \A c \in B : IsOpen(c) => SortOrder[b] <= SortOrder[c]}

Public == {b \in Batches : HasState(b, {"open", "shut"})}
ActiveAvulso(batches) == Active(batches \ Combos)
OpenCombos(batches) == {b \in batches \cap Combos : IsOpen(b)}
Offered == ActiveAvulso(Public) \cup OpenCombos(Public)
SumPublicBatches(x) == Amount(Column(x), Public)
Left == SumPublicBatches("capacity") - SumPublicBatches("sold") - SumPublicBatches("reserved")
(* With hideRemainingTickets the page has only the sign of what is left.    *)
ShownAsSoldOut == Left <= 0

Listed == {b \in Batches : HasState(b, {"off", "open", "shut"})}
Chosen == {b \in Listed : IsOpen(b)}
Unchosen == ActiveAvulso(Listed)

----------------------------------------------------------------------------
(* Orders *)

(* One unit, reserved (n = 0) or sold at once (n = 1).                      *)
ReserveAlso(b, n) ==   \* variant: what is sold stays reserved
    /\ batch' = [batch EXCEPT ![b].sold = @ + n, ![b].reserved = @ + 1]
    /\ sector' = [sector EXCEPT !.sold = @ + n, !.reserved = @ + 1]
Reserve(b, n) ==
    /\ batch' = [batch EXCEPT ![b].sold = @ + n, ![b].reserved = @ + (1 - n)]
    /\ sector' = [sector EXCEPT !.sold = @ + n, !.reserved = @ + (1 - n)]

(* Bound: nobody buys when there are no more orders.                        *)
New == {o \in Orders : order[o].status = "none"}
(* orders.create: its batch, read without a lock ...                        *)
Choose(w, b) ==
    /\ At(w, "idle") /\ New # {} /\ b \in Chosen \cup Unchosen
    /\ work' = [work EXCEPT ![w].pc = "create", ![w].batch = b]
    /\ UNCHANGED <<batch, sector, order, requests, history>>
Left1Sold(b) == batch[b].there /\ batch[b].capacity - batch[b].sold >= 1   \* variant
Left1(b) == batch[b].there /\ batch[b].capacity - batch[b].sold - batch[b].reserved >= 1
(* ... and at the end the insert and the conditional UPDATE.                *)
Create(w, o) ==
    LET b == work[w].batch IN
    /\ At(w, "create") /\ o \in New
    /\ Finish(w)
    /\ IF Left1(b)
       THEN /\ order' = [order EXCEPT ![o] = [NoOrder EXCEPT !.status = "pending", !.batch = b,
                                                             !.seen = {"other"}]]
            /\ Reserve(b, 0) /\ Outdate(w)
       ELSE UNCHANGED <<order, batch, sector, stale>>
    /\ UNCHANGED <<requests, drift, lost, cut, taken>>

(* sell: an order that has the key is the answer, whatever its status ...   *)
Keyed == {o \in Orders : order[o].id = "key"}
FindKey(w) ==
    /\ At(w, "idle") /\ New # {} /\ Keyed = {}
    /\ Goto(w, "sell")
    /\ UNCHANGED <<batch, sector, order, requests, history>>
(* ... if there is none, a transaction that locks sector and batches: the   *)
(* batch asked for, open or not, or the first open one of them all.         *)
KeyIsFreeNoIndex == TRUE   \* variant: no unique index on paymentId
KeyIsFree == Keyed = {}
Sell(w, o, b, status) ==
    /\ At(w, "sell") /\ o \in New /\ b \in There
    /\ KeyIsFree /\ Left1(b) /\ Finish(w)
    /\ order' = [order EXCEPT ![o] = [status |-> status, batch |-> b, byEmail |-> TRUE,
           id |-> "key", seen |-> IF status = "paid" THEN {} ELSE {"key"}]]
    /\ Reserve(b, IF status = "paid" THEN 1 ELSE 0) /\ Outdate(w)
    /\ UNCHANGED <<requests, drift, lost, cut, taken>>
(* One unit less reserved, never below 0, on both rows; or sold (n = 1).    *)
Less(n) == IF n > 0 THEN n - 1 ELSE 0
ReleaseBatchOnly(b, n) ==   \* variant: the sector keeps the reservation
    /\ batch' = [batch EXCEPT ![b].sold = @ + n, ![b].reserved = Less(@)]
    /\ sector' = [sector EXCEPT !.sold = @ + n]
Release(b, n) ==
    /\ batch' = [batch EXCEPT ![b].sold = @ + n, ![b].reserved = Less(@)]
    /\ sector' = [sector EXCEPT !.sold = @ + n, !.reserved = Less(@)]
(* Of an order's batch; the sums part when one of the rows is at 0.         *)
ReleaseOf(o, n) ==
    LET b == order[o].batch IN
    /\ Release(b, n) /\ OutdateAll
    /\ drift' = IF (batch[b].reserved = 0) # (sector.reserved = 0)
                THEN drift \cup {"reserved"} ELSE drift
    /\ UNCHANGED <<work, taken>>
(* The row of an order, its paymentId under the unique index.               *)
Becomes(o, status, id) ==
    /\ id = "key" => Keyed \subseteq {o}
    /\ order' = [order EXCEPT ![o].status = status, ![o].id = id]
SoldOf(o) == IF order[o].status = "paid" THEN {"sold"} ELSE {}
(* An order that had ended no longer agrees with these counters.            *)
Part(o, counters) ==
    LET b == order[o].batch IN
    /\ requests["late"] > 0
    /\ requests' = [requests EXCEPT !["late"] = @ - 1]
    /\ lost' = lost \cup ({b} \X counters)
    /\ cut' = IF counters = {} THEN cut ELSE cut \cup {b}
Agrees == UNCHANGED <<requests, lost, cut>>

(* markOrderPaid claims a pending order, and writes the id it has read.     *)
Pay(o) ==
    /\ order[o].status = "pending"
    /\ \E id \in order[o].seen : Becomes(o, "paid", id)
    /\ ReleaseOf(o, 1) /\ Agrees
(* The producer's cancellation holds the order's lock from its read on.     *)
Cancel(o) ==
    /\ order[o].status = "pending" /\ Becomes(o, "cancelled", order[o].id)
    /\ ReleaseOf(o, 0) /\ Agrees
(* expireIfStale and cancelPendingOrderTx have read it PENDING; what became *)
(* of it since, they do not look at.                                        *)
Expire(o) ==
    /\ \E id \in order[o].seen : Becomes(o, "expired", id)
    /\ ReleaseOf(o, 0)
    /\ IF order[o].status = "pending" THEN Agrees
       ELSE Part(o, SoldOf(o) \cup {x \in {"reserved"} : batch[order[o].batch].reserved > 0})

(* checkout saves the entity it read before the call of the gateway, with a *)
(* new charge: over the key, if it had one ...                              *)
Charged(o) ==
    /\ order' = [order EXCEPT ![o].status = "pending", ![o].id = "other", ![o].seen = @ \cup {"other"}]
    /\ taken' = (taken \/ order[o].id = "key")
Checkout(o) ==
    /\ order[o].status = "pending" /\ Charged(o)
    /\ UNCHANGED <<batch, sector, work, requests, stale, drift, lost, cut>>
(* ... and over the end of the order, whose unit nobody takes again: the    *)
(* scripts that have counted it are outdated.                               *)
Back(o) ==
    /\ Part(o, {"reserved"} \cup SoldOf(o))
    /\ stale' = stale \cup {v \in Workers : work[v].pc \in {"recalc", "reconcile"}}
    /\ UNCHANGED <<batch, sector, work, drift>>
LateCheckout(o) ==
    /\ order[o].seen # {} /\ order[o].status # "pending" /\ Charged(o)
    /\ Back(o)
(* reconcile-abacate-payments.ts opens an expired order with a paid charge; *)
(* of one that never had a charge this is what LateCheckout does.           *)
Reopen(o) ==
    /\ order[o].status = "expired" /\ "other" \in order[o].seen
    /\ order' = [order EXCEPT ![o].status = "pending", ![o].seen = @ \cup {order[o].id}]
    /\ Back(o) /\ taken' = taken

----------------------------------------------------------------------------
(* The desk *)

Request(w, k, b, pc, snap) ==
    /\ At(w, "idle") /\ requests[k] > 0
    /\ requests' = [requests EXCEPT ![k] = @ - 1]
    /\ work' = [work EXCEPT ![w] = [Idle EXCEPT !.pc = pc, !.batch = b, !.snap = snap]]
AddBatch(w, b, c, state) ==
    /\ batch[b] = NoBatch /\ Request(w, "write", b, "sum", NoBatch)
    /\ batch' = [batch EXCEPT ![b] = NewBatch(c, state)]
    /\ drift' = drift \cup Sums /\ Outdate(w)
    /\ UNCHANGED <<sector, order, lost, cut, taken>>

(* update: the batch is read and changed in memory; a capacity below what   *)
(* was sold is refused, below what is reserved it is not.                   *)
Changes(b) ==
    {[batch[b] EXCEPT !.capacity = c] : c \in {d \in Capacities : d >= batch[b].sold}}
    \cup {[batch[b] EXCEPT !.state = x] : x \in Settings}
Edit(w, b) ==
    /\ b \in There
    /\ \E new \in Changes(b) : Request(w, "write", b, "edit", new)
    /\ UNCHANGED <<batch, sector, order, history>>
(* save: the columns that differ from the row as it is now ...              *)
Diff(w) ==
    /\ At(w, "edit")
    /\ work' = [work EXCEPT ![w].pc = "write",
         ![w].dirty = {x \in DOMAIN NoBatch : work[w].snap[x] # batch[work[w].batch][x]}]
    /\ UNCHANGED <<batch, sector, order, requests, history>>
(* ... are updated, or the row is inserted again if it was gone.            *)
Written(w) ==
    LET b == work[w].batch IN
    [x \in DOMAIN NoBatch |-> IF x \in work[w].dirty THEN work[w].snap[x] ELSE batch[b][x]]
Write(w) ==
    LET b == work[w].batch
        dirty == work[w].dirty
        overwritten == {b} \X (dirty \cap Counters)
        new == Written(w) IN
    /\ At(w, "write")
    /\ "there" \in dirty => ~batch[b].there   \* else a duplicate key: Fail
    /\ Goto(w, "sum")
    /\ UNCHANGED <<sector, order, requests, taken>>
    /\ IF new.there
       THEN /\ batch' = [batch EXCEPT ![b] = new]
            /\ drift' = drift \cup (IF "there" \in dirty THEN Sums ELSE dirty \cap Sums)
            /\ lost' = lost \cup overwritten
            /\ cut' = IF overwritten # {} \/ ("capacity" \in dirty
                            /\ new.capacity < new.sold + new.reserved)
                      THEN cut \cup {b} ELSE cut
            /\ Outdate(w)
       ELSE UNCHANGED <<batch, stale, drift, lost, cut>>

(* remove: nothing sold when it is read; order_items keep their batch.      *)
Remove(w, b) ==
    /\ b \in There /\ batch[b].sold = 0 /\ Request(w, "other", b, "delete", NoBatch)
    /\ UNCHANGED <<batch, sector, order, history>>
IsOrdered(b) == \E o \in Orders : order[o].status # "none" /\ order[o].batch = b
DeletableAlways(b) == TRUE   \* variant: no foreign key
Deletable(b) == ~IsOrdered(b)
Delete(w) ==
    LET b == work[w].batch IN
    /\ At(w, "delete") /\ Deletable(b) /\ Goto(w, "sum")
    /\ batch' = [batch EXCEPT ![b].there = FALSE]
    /\ drift' = (IF b \in There THEN drift \cup Sums ELSE drift) /\ Outdate(w)
    /\ UNCHANGED <<sector, order, requests, lost, cut, taken>>

(* recomputeSectorCapacity: the batches are read, then their sums saved in  *)
(* the sector that was read at the start (what its save finds different is  *)
(* written; no statement's condition is on a sector, so one step will do).  *)
SumBatches(w) ==
    /\ At(w, "sum") /\ stale' = stale \ {w}
    /\ work' = [work EXCEPT ![w].pc = "sector", ![w].snap = SectorSums]
    /\ UNCHANGED <<batch, sector, order, requests, drift, lost, cut, taken>>
SaveSector(w) ==
    /\ At(w, "sector") /\ Finish(w)
    /\ sector' = work[w].snap
    /\ drift' = (IF w \in stale THEN Sums ELSE {}) /\ Outdate(w)
    /\ UNCHANGED <<batch, order, requests, lost, cut, taken>>

----------------------------------------------------------------------------
(* The scripts *)

(* recalc-reserved counts the orders whose time is not over, which may be   *)
(* any of the pending ones, and writes later what it read as different, on  *)
(* batches and sector.                                                      *)
Real(lapsed) == [b \in Batches |->
    Cardinality({o \in Orders \ lapsed : order[o].batch = b /\ order[o].status = "pending"})]
Total(f) == Amount(f, Batches)
Recalc(w) ==
    /\ \E lapsed \in SUBSET {o \in Orders : order[o].status = "pending"} :
         Request(w, "other", AnyBatch, "recalc",
           [real |-> Real(lapsed), lapsed |-> {order[o].batch : o \in lapsed},
            batches |-> {b \in There : batch[b].reserved # Real(lapsed)[b]},
            sector |-> sector.reserved # Total(Real(lapsed))])
    /\ stale' = stale \ {w}
    /\ UNCHANGED <<batch, sector, order, drift, lost, cut, taken>>
ApplyRecalc(w) ==
    LET s == work[w].snap
        written == s.batches \cap There
        wrong == IF w \in stale THEN written ELSE s.lapsed IN
    /\ At(w, "recalc") /\ Finish(w)
    /\ batch' = [b \in Batches |-> IF b \in written THEN [batch[b] EXCEPT !.reserved = s.real[b]]
                                                    ELSE batch[b]]
    /\ sector' = IF s.sector THEN [sector EXCEPT !.reserved = Total(s.real)] ELSE sector
    /\ lost' = (IF w \in stale THEN lost ELSE lost \ (Batches \X {"reserved"}))
                    \cup (wrong \X {"reserved"})
    /\ drift' = IF w \in stale THEN drift \cup {"reserved"} ELSE drift \ {"reserved"}
    /\ cut' = cut \cup wrong /\ Outdate(w)
    /\ UNCHANGED <<order, requests, taken>>

(* reconcile-counters counts what was paid and writes every batch, and the  *)
(* sector's sum of them: an UPDATE that waits for a row writes what it had  *)
(* counted before it waited.                                                *)
Reconcile(w) ==
    /\ Request(w, "other", AnyBatch, "reconcile", [b \in Batches |-> Of(b, {"paid"})])
    /\ stale' = stale \ {w}
    /\ UNCHANGED <<batch, sector, order, drift, lost, cut, taken>>
ApplyReconcile(w) ==
    LET sold == work[w].snap IN
    /\ At(w, "reconcile") /\ Finish(w)
    /\ batch' = [b \in Batches |-> IF b \in There THEN [batch[b] EXCEPT !.sold = sold[b]]
                                                  ELSE batch[b]]
    /\ sector' = [sector EXCEPT !.sold = Amount(sold, There)]
    /\ lost' = IF w \in stale THEN lost \cup (There \X {"sold"}) ELSE lost \ (Batches \X {"sold"})
    /\ cut' = IF w \in stale THEN cut \cup There ELSE cut
    /\ drift' = drift \ {"sold"} /\ Outdate(w)
    /\ UNCHANGED <<order, requests, taken>>

(* A refusal, an error, a rollback, a crash.                                *)
Fail(w) ==
    /\ ~At(w, "idle") /\ Finish(w) /\ stale' = stale \ {w}
    /\ UNCHANGED <<batch, sector, order, requests, drift, lost, cut, taken>>

Next ==
    \/ \E w \in Workers :
         \/ \E o \in Orders : Create(w, o)
         \/ \E o \in Orders, b \in Batches, s \in {"pending", "paid"} : Sell(w, o, b, s)
         \/ \E b \in Batches : Choose(w, b) \/ Edit(w, b) \/ Remove(w, b)
         \/ \E b \in Batches, c \in Capacities, s \in {"open", "hidden"} : AddBatch(w, b, c, s)
         \/ FindKey(w) \/ Diff(w) \/ Write(w) \/ Delete(w)
         \/ SumBatches(w) \/ SaveSector(w)
         \/ Recalc(w) \/ ApplyRecalc(w) \/ Reconcile(w) \/ ApplyReconcile(w) \/ Fail(w)
    \/ \E o \in Orders : Pay(o) \/ Cancel(o) \/ Expire(o) \/ Checkout(o) \/ LateCheckout(o) \/ Reopen(o)
Spec == Init /\ [][Next]_vars

----------------------------------------------------------------------------
(* Properties *)

(* The sector's capacity, sold and reserved are the sums of its batches     *)
(* once a request of the desk has summed them undisturbed: from then on     *)
(* every sale and release moves both rows alike.  What leaves them apart: a *)
(* request that reads while another commit is on its way, one that ends     *)
(* before it has summed, and a release that finds only one of the two       *)
(* reservations at 0, which each row holds there by itself.                 *)
SectorIsSum == \A x \in Sums \ drift : sector[x] = SumOf(x)

(* What a batch counts as sold and reserved is what its orders bought and   *)
(* hold, unless that very counter was left behind by a stale save of the    *)
(* desk, a stale script, recalc's disregard of lapsed holds, a second       *)
(* release of an order, or a checkout or a script that put one back.        *)
CountersMatchOrders ==
    \A b \in There :
        /\ <<b, "sold">> \notin lost => batch[b].sold = Of(b, {"paid"})
        /\ <<b, "reserved">> \notin lost => batch[b].reserved = Of(b, {"pending"})

(* No batch owes more than its capacity, whatever the page, the desk and    *)
(* sales by e-mail do at once, except one whose capacity the desk lowered   *)
(* below what was reserved, or one that a stale save or script, a second    *)
(* release or an order put back has parted from its orders (the release is  *)
(* how order_oversell gets there).                                          *)
OversoldOnlyByCut ==
    \A b \in There \ cut : Of(b, {"pending", "paid"}) <= batch[b].capacity

(* A sector of which the page offers a batch is not shown as sold out,      *)
(* whatever its other batches owe, unless one of those on the page was cut  *)
(* or has parted from its orders and outweighs the offer.                   *)
OfferIsShown == Offered # {} /\ Public \cap cut = {} => ~ShownAsSoldOut

(* Within the hour of its key a sale by e-mail is made at most once, also   *)
(* when two requests find no order at the same time, until the buyer's      *)
(* checkout writes a charge over the key.                                   *)
SoldOncePerKey == ~taken => Cardinality({o \in Orders : order[o].byEmail}) <= 1
=============================================================================
