------------------------------- MODULE Payments -------------------------------
(***************************************************************************)
(* One order and the charges made for it: checkout, the gateway's webhook, *)
(* markOrderPaid, the in-memory paymentCache that holds the QR code of the *)
(* last charge, the producer's manual confirmation, the expiry, and the    *)
(* script reconcile-abacate-payments.ts, which is another process.         *)
(* OrderTx has the stock and the locks; here a transaction takes effect    *)
(* when it commits, and what is kept apart is which charge the row names,  *)
(* for which total, and which charge the buyer is shown.                   *)
(*                                                                         *)
(* An amount is the method its processing fee was computed for.            *)
(***************************************************************************)
EXTENDS Naturals, FiniteSets, Sequences

CONSTANTS
    Workers,    \* requests and the script's iterations
    Providers,  \* what event.paymentProvider may be: "gateway", "manual"
    MaxCharges  \* bound: charges the gateway creates for the order

Charges == 1..MaxCharges
Methods == {"PIX", "CARD"}
None == "none"
(* Values of paymentId: none yet, a charge, or manual_<order>.              *)
NoPay == 0
Manual == MaxCharges + 1
ASSUME PaymentsAssumption ==
    IsFiniteSet(Workers) /\ Providers \subseteq {"gateway", "manual"} /\ MaxCharges \in Nat

PayIds == 0..(MaxCharges + 1)
Amounts == Methods \cup {"base"}
Row == [status: {"PENDING", "PAID", "EXPIRED", "CANCELLED"}, pay: PayIds,
        method: Methods \cup {None}, total: Amounts]
Columns == {"status", "pay", "method", "total"}

VARIABLES
    row,        \* the committed order row
    lapsed,     \* reservedUntil is in the past
    manual,     \* the order has a row in manual_payments
    issued,     \* a confirmation has issued tickets
    charges,    \* the gateway's charges, in the order they were created
    cache,      \* paymentCache: the charge whose QR code it holds
    last,       \* history: the charge of the checkout that was saved last
    work,       \* what each worker is doing
    crossed     \* history: the races and failures there were

vars == <<row, lapsed, manual, issued, charges, cache, last, work, crossed>>
order == <<row, lapsed, manual, issued>>

NewRow == [status |-> "PENDING", pay |-> NoPay, method |-> None, total |-> "base"]
Idle == [pc |-> "idle", snap |-> NewRow, charge |-> NoPay, dirty |-> {}]
Pc == {"idle", "charge", "save", "update", "paid", "expire", "expiry", "claim",
       "confirm", "fetch", "reopen", "lookup"}
TypeOK ==
    /\ row \in Row /\ lapsed \in BOOLEAN /\ manual \in BOOLEAN
    /\ issued \in BOOLEAN
    /\ DOMAIN charges \subseteq Charges
    /\ \A c \in DOMAIN charges :
         charges[c] \in [state: {"open", "paid"}, amount: Methods, shown: BOOLEAN]
    /\ cache \in {NoPay, Manual} \cup DOMAIN charges
    /\ last \in {NoPay, Manual} \cup DOMAIN charges
    /\ crossed \subseteq {"checkouts", "expiry", "failure", "overtaken"}
    /\ \A w \in Workers :
         /\ work[w].pc \in Pc /\ work[w].charge \in PayIds
         /\ work[w].snap \in Row /\ work[w].dirty \subseteq Columns
    /\ crossed \subseteq {"failure"} /\ row.status = "PAID"
         => row.pay # NoPay /\ row.method # None

Init ==
    /\ row = NewRow
    /\ lapsed = FALSE /\ manual = FALSE /\ issued = FALSE
    /\ charges = <<>> /\ cache = NoPay /\ last = NoPay
    /\ work = [w \in Workers |-> Idle] /\ crossed = {}

----------------------------------------------------------------------------
(* Workers *)

At(w, pc) == work[w].pc = pc
Start(w, pc, snap, c) ==
    /\ At(w, "idle")
    /\ work' = [work EXCEPT ![w] = [Idle EXCEPT !.pc = pc, !.snap = snap, !.charge = c]]
Finish(w) == work' = [work EXCEPT ![w] = Idle]
Goto(w, pc) == work' = [work EXCEPT ![w] = [Idle EXCEPT !.pc = pc, !.charge = work[w].charge]]
InCheckout(w) == work[w].pc \in {"charge", "save", "update"}
InExpiry(w) == work[w].pc \in {"expire", "expiry"}
Cross(kind, happens) == crossed' = IF happens THEN crossed \cup {kind} ELSE crossed

----------------------------------------------------------------------------
(* checkout *)

(* The order is read once; what follows works on that entity.               *)
Live == row.status = "PENDING" /\ ~lapsed
Checkout(w) ==
    /\ Live /\ Len(charges) < MaxCharges
    /\ Start(w, "charge", row, NoPay)
    /\ Cross("checkouts", \E v \in Workers : InCheckout(v))
    /\ UNCHANGED <<order, charges, cache, last>>

(* The total with the processing fee, which only the gateway has.           *)
Total(provider, method) == IF provider = "gateway" THEN method ELSE "base"
ChargedOnce(snap, c, provider, method) ==   \* variant: the first paymentId is kept
    [snap EXCEPT !.pay = IF @ = NoPay THEN c ELSE @, !.method = method,
                 !.total = Total(provider, method)]
ChargedTotal(snap, c, provider, method) ==   \* variant: the fee is not added again
    [snap EXCEPT !.pay = c, !.method = method,
                 !.total = IF @ = "base" THEN Total(provider, method) ELSE @]
Charged(snap, c, provider, method) ==
    [snap EXCEPT !.pay = c, !.method = method, !.total = Total(provider, method)]
Waiting(w, next) ==
    /\ cache' = next.pay
    /\ work' = [work EXCEPT ![w].pc = "save", ![w].snap = next, ![w].charge = next.pay]
    /\ UNCHANGED <<order, last, crossed>>

(* createCharge of AbacatePayProvider: the gateway creates a charge, which  *)
(* it may already report as paid, and the answer goes to the cache.         *)
NewCharge(method, state) == [state |-> state, amount |-> method, shown |-> FALSE]
CreateCharge(w, method, state) ==
    LET c == Len(charges) + 1 IN
    /\ At(w, "charge") /\ "gateway" \in Providers /\ c \in Charges
    /\ charges' = Append(charges, NewCharge(method, state))
    /\ Waiting(w, Charged(work[w].snap, c, "gateway", method))
(* createCharge of ManualPixProvider: PIX only, nothing leaves the process. *)
ManualCharge(w) ==
    /\ At(w, "charge") /\ "manual" \in Providers
    /\ Waiting(w, Charged(work[w].snap, Manual, "manual", "PIX"))
    /\ UNCHANGED charges
(* An expiry locks the order's stock before its save and until it commits;  *)
(* a confirmation, a cancellation and another expiry need that stock too.   *)
StockIsFree == \A v \in Workers : ~At(v, "expiry")

(* save(entity) reads the row again to find the columns that differ ...     *)
Diff(w) ==
    /\ At(w, "save") \/ (At(w, "expire") /\ StockIsFree)
    /\ work' = [work EXCEPT
         ![w].pc = IF @ = "save" THEN "update" ELSE "expiry",
         ![w].dirty = {x \in Columns : work[w].snap[x] # row[x]}]
    /\ UNCHANGED <<order, charges, cache, last, crossed>>
(* ... and updates those, whatever has happened to the row since.           *)
Saved(w) == [x \in Columns |-> IF x \in work[w].dirty THEN work[w].snap[x] ELSE row[x]]
(* A commit between the two has changed the payment the row names: what the *)
(* checkout compared with is not what it will update.                       *)
Overtake ==
    Cross("overtaken", /\ \E v \in Workers : At(v, "update")
                       /\ \E x \in Columns \ {"status"} : row'[x] # row[x])
PaidAlready(c) == c \in DOMAIN charges /\ charges[c].state = "paid"
Update(w) ==
    /\ At(w, "update")
    /\ row' = Saved(w) /\ last' = work[w].charge
    /\ IF PaidAlready(work[w].charge) THEN Goto(w, "paid") ELSE Finish(w)
    /\ Cross("expiry", \E v \in Workers : InExpiry(v))
    /\ UNCHANGED <<lapsed, manual, issued, charges, cache>>
(* charge.status was PAID: a transaction reads the order and confirms it.   *)
ReadPaid(w) ==
    /\ At(w, "paid")
    /\ IF row.status = "PENDING" /\ row.method # None
       THEN work' = [work EXCEPT ![w].pc = "claim", ![w].snap = row, ![w].charge = NoPay]
       ELSE Finish(w)
    /\ UNCHANGED <<order, charges, cache, last, crossed>>

----------------------------------------------------------------------------
(* The buyer and the gateway *)

(* serialize: the QR code comes from the cache, read last, and only for an  *)
(* order that has a payment.                                                *)
Show ==
    /\ row.pay # NoPay /\ row.method # None /\ cache # NoPay
    /\ charges' = [c \in DOMAIN charges |-> [charges[c] EXCEPT !.shown = @ \/ c = cache]]
    /\ UNCHANGED <<order, cache, last, work, crossed>>
(* The buyer pays what a page shows or has shown, or never pays.             *)
Pay(c) ==
    /\ charges[c].state = "open" /\ charges[c].shown
    /\ charges' = [charges EXCEPT ![c].state = "paid"]
    /\ UNCHANGED <<order, cache, last, work, crossed>>
(* markPaidByPaymentId: the order that names the charge, if the amount paid *)
(* is its total.  No order, a PAID one and a mismatch are acknowledged      *)
(* without effect, any other status is an error.                            *)
Payable(c) == row.pay = c /\ row.status = "PENDING" /\ row.total = charges[c].amount
AsPix(snap) == [snap EXCEPT !.method = IF @ = None THEN "PIX" ELSE @]
(* The webhook of a paid charge: at any time, any number of times.          *)
Webhook(w, c) ==
    /\ charges[c].state = "paid" /\ Payable(c)
    /\ Start(w, "claim", AsPix(row), NoPay)
    /\ UNCHANGED <<order, charges, cache, last, crossed>>

(* WHERE id AND status = PENDING; the transaction that loses has no effect. *)
Claimed(w) == [row EXCEPT !.status = "PAID", !.pay = work[w].snap.pay,
                          !.method = work[w].snap.method]
CacheKept == cache   \* variant: the QR code outlives the payment
CacheAfterEnd == NoPay
Claim(w) ==
    /\ At(w, "claim") /\ StockIsFree /\ Finish(w)
    /\ IF row.status = "PENDING"
       THEN row' = Claimed(w) /\ issued' = TRUE /\ cache' = CacheAfterEnd
       ELSE UNCHANGED <<row, issued, cache>>
    /\ Overtake
    /\ UNCHANGED <<lapsed, manual, charges, last>>

----------------------------------------------------------------------------
(* The producer, the sweep, the script *)

(* confirmManualPayment: not for an order with a charge at the gateway, and *)
(* once per order; markOrderPaid names the payment if nobody has.           *)
ManuallyPaidUnnamed(snap) == AsPix(snap)   \* variant: no manual_ id
ManuallyPaid(snap) ==
    [AsPix(snap) EXCEPT !.pay = IF snap.method = None /\ @ = NoPay THEN Manual ELSE @]
Confirm(w) ==
    /\ row.pay \notin Charges /\ row.status = "PENDING" /\ ~manual
    /\ Start(w, "confirm", ManuallyPaid(row), NoPay)
    /\ UNCHANGED <<order, charges, cache, last, crossed>>
ClaimManual(w) ==
    /\ At(w, "confirm") /\ StockIsFree /\ Finish(w)
    /\ CASE manual -> UNCHANGED <<row, manual, issued, cache>>
         [] ~manual /\ row.status = "PENDING" ->
              row' = Claimed(w) /\ manual' = TRUE /\ issued' = TRUE /\ cache' = CacheAfterEnd
         [] ~manual /\ row.status # "PENDING" ->
              manual' = (row.status = "PAID") /\ UNCHANGED <<row, issued, cache>>
    /\ Overtake
    /\ UNCHANGED <<lapsed, charges, last>>
(* cancelPendingOrder holds the order's row; the cache is left alone.       *)
Cancel ==
    /\ row.status = "PENDING" /\ StockIsFree
    /\ row' = [row EXCEPT !.status = "CANCELLED"] /\ lapsed' = TRUE
    /\ UNCHANGED <<manual, issued, charges, cache, last, work, crossed>>

Lapse ==
    /\ ~lapsed /\ lapsed' = TRUE
    /\ UNCHANGED <<row, manual, issued, charges, cache, last, work, crossed>>
(* expireIfStale: an unlocked read, then a save of the whole entity.        *)
ReadFresh(w) ==
    /\ row.status = "PENDING" /\ lapsed
    /\ Start(w, "expire", [row EXCEPT !.status = "EXPIRED"], NoPay)
    /\ UNCHANGED <<order, charges, cache, last, crossed>>
Expire(w) ==
    /\ At(w, "expiry")
    /\ row' = Saved(w) /\ cache' = CacheAfterEnd
    /\ Finish(w) /\ Overtake
    /\ UNCHANGED <<lapsed, manual, issued, charges, last>>

(* The script: its candidates, the status at the gateway, the order put     *)
(* back if it was read as EXPIRED, and then the path of the webhook.        *)
Candidate(w) ==
    /\ row.status \in {"PENDING", "EXPIRED"} /\ row.pay \in Charges
    /\ Start(w, "fetch", row, row.pay)
    /\ UNCHANGED <<order, charges, cache, last, crossed>>
(* A PIX charge is asked for.  A card's is looked up in a list of at most 50 *)
(* pages loaded once in a run: it may be missing, or older than its payment. *)
FoundPaid(c) == {FALSE, PaidAlready(c)}
Fetch(w) ==
    /\ At(w, "fetch")
    /\ \E paid \in FoundPaid(work[w].charge) :
          CASE ~paid                           -> Finish(w)
            [] work[w].snap.status = "EXPIRED" -> Goto(w, "reopen")
            [] OTHER                           -> Goto(w, "lookup")
    /\ UNCHANGED <<order, charges, cache, last, crossed>>
Reopen(w) ==
    /\ At(w, "reopen")
    /\ IF row.status = "EXPIRED"
       THEN row' = [row EXCEPT !.status = "PENDING"] /\ lapsed' = FALSE /\ Goto(w, "lookup")
       ELSE Finish(w) /\ UNCHANGED <<row, lapsed>>
    /\ UNCHANGED <<manual, issued, charges, cache, last, crossed>>
Lookup(w) ==
    /\ At(w, "lookup")
    /\ IF Payable(work[w].charge)
       THEN work' = [work EXCEPT ![w].pc = "claim", ![w].snap = AsPix(row), ![w].charge = NoPay]
       ELSE Finish(w)
    /\ UNCHANGED <<order, charges, cache, last, crossed>>

(* The cache's entry is dropped: its time is over, a transaction that had   *)
(* deleted it rolled back.                                                  *)
Forget ==
    /\ cache # NoPay /\ cache' = NoPay
    /\ UNCHANGED <<order, charges, last, work, crossed>>
(* A request ends early: the gateway refuses or does not answer, a          *)
(* transaction fails or is the victim of a deadlock, the save finds no room *)
(* in the pool.                                                             *)
Fail(w) ==
    /\ ~At(w, "idle") /\ Finish(w)
    /\ Cross("failure", work[w].pc \in {"save", "update"})
    /\ UNCHANGED <<order, charges, cache, last>>
(* A crash: requests and the cache are gone, the gateway's charges are not. *)
Restart ==
    /\ work' = [w \in Workers |-> Idle] /\ cache' = NoPay
    /\ Cross("failure", \E w \in Workers : work[w].pc \in {"save", "update"})
    /\ UNCHANGED <<order, charges, last>>

Next ==
    \/ \E w \in Workers :
         \/ Checkout(w) \/ ManualCharge(w) \/ Fail(w)
         \/ \E m \in Methods, s \in {"open", "paid"} : CreateCharge(w, m, s)
         \/ Diff(w) \/ Update(w) \/ ReadPaid(w)
         \/ \E c \in DOMAIN charges : Webhook(w, c)
         \/ Claim(w) \/ Confirm(w) \/ ClaimManual(w)
         \/ ReadFresh(w) \/ Expire(w)
         \/ Candidate(w) \/ Fetch(w) \/ Reopen(w) \/ Lookup(w)
    \/ \E c \in DOMAIN charges : Pay(c)
    \/ Show \/ Cancel \/ Lapse \/ Forget \/ Restart
Spec == Init /\ [][Next]_vars

----------------------------------------------------------------------------
(* Properties *)

NoCheckout == \A w \in Workers : ~InCheckout(w)
(* When the charge of the last checkout that was saved has been paid, the   *)
(* payment is not lost: the order was confirmed, or the producer cancelled  *)
(* it, or its row still names the charge for the amount paid, in a status   *)
(* from which the webhook or the script confirms it.  Only two checkouts at *)
(* once, and an expiry that read the order before a checkout saved it, can  *)
(* lose it; the charge a later checkout replaced is lost by design.         *)
Recoverable(c) ==
    /\ row.pay = c /\ row.total = charges[c].amount
    /\ row.status \in {"PENDING", "EXPIRED"}
LastChargeIsKept ==
    (crossed \subseteq {"failure", "overtaken"} /\ last \in DOMAIN charges)
        => (charges[last].state = "paid"
              => issued \/ row.status = "CANCELLED" \/ Recoverable(last))

(* An order that waits for a payment bills what its charge bills, or the    *)
(* webhook would take the payment for a wrong amount and ignore it, unless  *)
(* two checkouts, or a checkout and an expiry, each saved some columns, or  *)
(* the payment of the row changed between the read and the update of a save. *)
TotalMatchesCharge ==
    (/\ crossed \subseteq {"failure"}
     /\ row.status \in {"PENDING", "EXPIRED"} /\ row.pay \in DOMAIN charges)
        => row.total = charges[row.pay].amount

(* Between checkouts the QR code in the cache is that of the charge the row *)
(* names, unless two checkouts overlapped or the save of one failed.        *)
CacheIsOfTheRow ==
    (crossed \subseteq {"expiry", "overtaken"} /\ NoCheckout /\ cache # NoPay)
        => cache = row.pay
=============================================================================
