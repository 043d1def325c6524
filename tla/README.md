# Verification of easy-ticket-api

TLA+ models of the ticket-selling API of this repository (NestJS, TypeORM,
PostgreSQL at READ COMMITTED, one instance of the process), checked with TLC and,
for the core properties, proved with TLAPS. Paths below are relative to
`src/src/` (`orders/orders.service.ts` is `src/src/orders/orders.service.ts`).

## 1. Inventory

| component | state | operations | interacts with | modelled in |
|---|---|---|---|---|
| order life cycle (`orders/orders.service.ts`) | `orders`, `order_items`, counters `sold`/`reserved` of `batches` and `sectors`, tickets issued; in memory: `paymentCache` | create (reuse or replace an earlier order), updateAttendees, checkout, simulatePayment, markPaidByPaymentId, markOrderPaid, cancelPendingOrderTx, expireIfStale | every other component writes the same rows | `OrderTx`, `OrderLedger`, `Payments`, `StockDesk` |
| expiry sweep (`expireStaleOrdersJob`, `orders/lib/expiry-sweep.ts`) | `sweepState` in memory | cron every minute, track, afterSweep | create announces its orders to it | `ExpirySweep` |
| producer: confirmation, cancellation (`producer/producer.service.ts`) | `manual_payments` | confirmManualPayment, cancelPendingOrder | orders, stock | `OrderTx`, `Payments` |
| gate (`producer.service.ts`) | `tickets.status`, `usedAt` | validateTicket, portariaManifest, validateTicketsBatch | the gate application, off-line for a while | `TicketCustody` |
| transfer and delivery (`tickets/tickets.service.ts`, mails and WhatsApp of `orders.service.ts`, `seed/resend-ticket-email.ts`, `me/me.service.ts`) | `tickets` | transfer, the mails with QR codes, the WhatsApp messages with short codes and links, my tickets | gate, which admits by either code | `TicketCustody` |
| order stream (`orders/orders-stream.*`) | subjects and subscriber counts in memory | subscribe, notify, finalize | told by orders | `OrderStream` |
| payments (`payments/*`) | charges at the gateway | createCharge, webhook, providers, fee | checkout, markPaidByPaymentId | `Payments` |
| reconciliation (`seed/reconcile-abacate-payments.ts`) | none of its own | reopen and confirm paid orders that expired | orders, from another process | `Payments`, `OrderTx`, `ExpirySweep` |
| sale by e-mail (`producer/sell-by-email.service.ts`) | orders keyed by `paymentId = sbm:...` | sell, perhaps confirmed at once | orders, stock, accounts | `StockDesk`, `Accounts` |
| batches (`producer/producer-batches.service.ts`) | capacity, prices, windows | create, update, remove, recompute the sector | stock | `StockDesk` |
| stock repair scripts (`seed/recalc-reserved.ts`, `seed/reconcile-counters.ts`) | none of their own | count orders, write counters | stock | `StockDesk` |
| catalogue (`events/events.service.ts`, `events/lib`) | none | which batches a page offers, masked stock | create | `StockDesk` |
| events (`producer/producer-events.service.ts`, `admin/admin.service.ts`) | event status, slug, payout, `featuredAt`, times | create, update, publish, reassign, archive, unarchive, feature | catalogue, create | `EventDesk` |
| accounts (`auth/*`, `claim-tokens/*`, `users/*`) | users, `tokenVersion`, claim tokens | register, login, links, reset, claim, change, refresh, logout | sale by e-mail | `Accounts` |
| PIX text, profile, wallet passes, referral, venues, e-mail, WhatsApp, migrations | - | reads and output | - | not modelled |

What is hard in it: an unlocked read followed by a decision; TypeORM's `save`, which
writes the columns that differ between memory and a row it reads again; locks
taken in different orders; calls to the gateway between a read and a save; a sweep
that works from memory; confirmations that come twice, late, or after the order
ended; clients told before a commit; gates that work off-line; repair scripts that
count first and write later. The list with source lines is `hazards` in
`PROJECT.json`, each with the properties that would catch it going wrong.

## 2. Modules

| module | what it is |
|---|---|
| `OrderTx` | the transactions on orders and stock, one action per SQL statement; the refinement `RefinesLedger` |
| `OrderLedger` | what they promise: atomic steps on status and counters |
| `Payments` | one order and its charges: checkout, webhook, script, cache |
| `OrderStream` | who hears of the end of an order |
| `ExpirySweep` | when the sweep runs and what it finds |
| `TicketCustody` | transfer, QR codes, admission |
| `StockDesk` | batches behind the desk, sale by e-mail, offers, repair scripts |
| `EventDesk` | events behind the desk |
| `Accounts` | the account of one address, its links and sessions |
| `MC...` | values of the constants and symmetries for TLC |
| `...Proofs` | theorems about the module before `Proofs` |

The composition is through rows: `OrderTx` has locks and statements of an order and its
stock. `Payments`, `StockDesk`, `OrderStream` and `TicketCustody` take the transactions
that `OrderTx` opens up as single steps, where only their commit matters, and open up
what `OrderTx` closes: which charge a row names, which batch is chosen, who is told,
who holds the ticket.

A definition named as a variant in its comment (`FitsUnchecked`, `UpdatePlansUnsorted`,
...) is the code with a plausible mistake; no specification uses it. Each property is
violated when its variant takes the place of the original (`mutants` in `PROJECT.json`).

Some properties name exceptions: interleavings after which the code does not give the
guarantee. A history variable (`crossed`, `drift`, `lost`, `cut`, `taken`, `disturbed`,
`putBack`, `texted`, `late`, ...) records that one of them has happened; no guard reads
it, so it changes nothing of what may happen. The property then says that outside the
exceptions its comment names the guarantee holds of every behaviour of the module. That
is complete as far as the module has every writer of what the property is about. The
writers that are easiest to miss are in every module whose properties they touch:

| writer | what it does | where |
|---|---|---|
| `checkout`, `orders.service.ts:592` | saves the entity read before the call to the gateway, status and deadline included, over whatever the order has become | `OrderTx` SaveUpdate, `Payments` Update, `StockDesk` LateCheckout, `OrderStream` kind `checkout`, `ExpirySweep` SaveOrder |
| `expireIfStale`, `cancelPendingOrderTx`, `orders.service.ts:1115-1147`, `1059-1096` | release the units of an order that another has released or paid since they read it, on each row down to 0 | `OrderTx` ReadFresh ... Commit, `StockDesk` Expire; the status alone in `OrderStream` Save and `Payments` Expire |
| `seed/reconcile-abacate-payments.ts:275` | puts an expired order back to PENDING without taking its units | `OrderTx`, `Payments`, `StockDesk`, `OrderStream`, `ExpirySweep` Reopen |
| `distributeTicketWhatsApp`, `orders.service.ts:1017-1051` | sends the buyer the codes of every ticket of the order, transferred copies too | `TicketCustody` RunPaidSideEffects, ResendTicketsForOrder |

### OrderTx

`orders[o]` and `stock[r]` are committed rows; `ordersW`, `stockW` the version that the
transaction holding the row has written. `tx[w]` is what a worker (request, webhook,
cron tick, script) is doing: its operation, the next statement, the entity it read
(`snap`), the columns `save` will write (`dirty`) and the rows it has still to visit
(`plan`). `locks` gives the PostgreSQL mode held on a row: key share (foreign-key
checks), no key update (`UPDATE`) or update (`pessimistic_write`).

| operation | actions |
|---|---|
| `create` | BeginCreate (anti-flood read), ReadFresh ... SaveUpdate of the replaced order, Insert, TouchStock (foreign keys, then batches and sectors by id), Commit |
| `checkout` | BeginCheckout (read and checks), ChargeCreated (the provider answers), SaveSelect, SaveUpdate, Commit |
| `markPaidByPaymentId`, `simulatePayment` (outside production only), the paid branch of checkout | BeginPay, Claim or LoseClaim, TouchStock, Commit |
| `confirmManualPayment` | BeginManual, InsertManual, Claim or LoseClaim, TouchStock, Commit |
| `expireIfStale` (sweep or request) | BeginExpire, ReadFresh, TouchStock, SaveSelect, SaveUpdate, Commit |
| `cancelPendingOrder` | BeginCancel, LockOrder, TouchStock, SaveSelect, SaveUpdate, Commit |
| reconciliation | BeginReopen, Reopen, then a BeginPay |

A failed check ends the transaction without effect; Rollback may happen at any
statement (exception, lost connection, crash) and DeadlockVictim where a cycle of
waits exists. Tickets are counted (`issued`), not modelled as rows: they commit with
the claim. A request that reuses the buyer's order changes nothing and is no action; it
reuses one of the same batches, or, when it names no batch, one of any single units. What
`simulatePayment` does to an order with a manual charge is not told apart: it is
`confirmManualPayment` without its insert.
Where the code locks or saves several rows and nothing orders them (`getMany` with
`FOR UPDATE`, `save` of an array), the model takes any order.

Left out here: prices and attendees, the limit of two units, discounts; and what
`Payments` and `StockDesk` have.

### OrderLedger and the assumption CalmSpec

`OrderLedger` is the specification a reader of the services would give: Place,
Replace, Pay, Release. `OrderTx` does not implement it as it stands: the findings below
and the script are the reasons. `CalmSpec` is `OrderTx` restricted to behaviours in
which no commit of another worker lands on an order while a worker holds an unlocked
snapshot of it, and in which the script does not begin to reopen one; under it
`RefinesLedger` holds (proved: CalmImplementsLedger), and with `LedgerEndsOnce` (proved)
an ended order stays ended. So, apart from the script, the
distance between code and promise is that window: a lock or a second look at the order
inside it would close it.

### Payments

`row` is the committed order: status, the charge `paymentId` names, method, and the
total, of which only the processing fee is told apart. `charges` are the gateway's, with
the amount each bills, whether it is paid, and whether a page has shown its QR code.
`cache` is `paymentCache`; `work` what each request or iteration of the script holds.

| code | actions |
|---|---|
| `checkout` | Checkout (the read), CreateCharge or ManualCharge (provider and cache), Diff, Update (the two halves of `save`), ReadPaid (a charge that was paid at once) |
| `serialize`, the buyer | Show, Pay |
| webhook, `markPaidByPaymentId`, `markOrderPaid` | Webhook, Claim |
| `confirmManualPayment`, `cancelPendingOrder` | Confirm, ClaimManual; Cancel |
| `expireIfStale` | Lapse, ReadFresh, Diff, Expire |
| reconcile-abacate-payments | Candidate, Fetch, Reopen, Lookup, Claim |
| failures | Forget, Fail, Restart |

A webhook comes for a paid charge at any time, any number of times, or never. Not
modelled: the check of its signature, and the mock provider, which is registered
nowhere. The last conjunct of TypeOK says that a PAID order names a payment and a
method unless two checkouts, or a checkout and an expiry, each saved some columns, or a
commit changed the payment of the row between the two halves of a checkout's `save`
(Overtake).

### OrderStream

One order and its connections. `line` is who is attached to the subject, `count` the
entry of `subscribers`. The controller reads (Read), then subscribes (Subscribe); `live`
is subscribed twice by the controller but counted once, so each end takes two from the
count (`Finalize`). `work` holds the statements left of each change of the status, with
`notify` where the code has it: after the commit for a payment through the gateway,
before it for a manual confirmation and an expiry, nowhere for the producer's
cancellation and for a checkout; the script tells, but another process has no streams. A
checkout is a change as well: it reads the order PENDING and later saves what it read, so
that an order already paid, and told so, is PENDING again. `putBack` records that, and the
script's Reopen; a later commit of PAID takes it back.

### ExpirySweep

Time is counted in minutes relative to now: `left[o]`, `next` (`nextExpiryAt`) and
`since` (`lastSweptAt`). Minute advances time and fires the cron; a sweep is Find,
ExpireOne for each order of the page, ReadNext, Assign, and anything may run between.
`create` announces its order when it inserts it, before the commit; a sale by e-mail
(`Untracked`) and the reconcile script (Reopen, another process) never do. A checkout
(AskCharge, then SaveOrder or ChargeFails) puts the order it read back to PENDING with the
deadline it had, and tells the sweep nothing; Settle is the end of an order by a request,
which may expire it too (when it finds it stale, or replaces it).

### TicketCustody

`ticket` holds the committed rows, `holder` the `FOR UPDATE` lock of each, `tx` the
transaction of a worker, `accepted` how many ok answers were committed for a ticket,
`shown` who has a code, QR or short, of a ticket that still opens the gate. LockTicket is the
locked read with the checks that follow; Commit the writes and the end of the
transaction. A gate validates on line if its user's producer owns the event
(`MayAdmit`; everything for an administrator) and off line for one event (`GateEvent`).
The gate application is outside this repository: LoadManifest, ScanOffline and
Acknowledge are what the endpoints allow it, with a device clock that may be ahead.
Mails go by `Destination`, at payment, at a sale, on request, from the script and after
a transfer; pages go by owner; WhatsApp goes to the buyer of the order, at payment and on
request (`Deliver`), any of them may fail. `texted` records the tickets whose codes such a
request gave to a buyer who no longer owned them. A person stands for the address and the
phone of that person. Not modelled: a holder who hands a code on, and the public page
behind a link, which shows what its holder has.

### StockDesk

One sector, its batches and one-unit orders. A desk request is Edit (or AddBatch,
Remove), Diff and Write (`save`), then SumBatches and SaveSector
(`recomputeSectorCapacity`). Choose and Create are the batch choice of `create` and its
conditional UPDATE; FindKey and Sell the idempotency read and the locked sale;
Recalc/ApplyRecalc and Reconcile/ApplyReconcile the scripts' read and write. `Offered` and
`ShownAsSoldOut` are what the public page computes with `active-batch.ts`,
`sector-view.ts` and `mask-stock.ts`.

An order ends in Pay (`markOrderPaid`, a claim), Cancel (the producer's, under the lock
of the order) or Expire (`expireIfStale` and `cancelPendingOrderTx`). These, and a
checkout, act on what was read without a lock: `seen` has the payment ids the order had
while it was PENDING, which is what a request may still hold of it. So Expire releases an
order once more after it was paid, cancelled or expired, each row down to 0 by itself;
LateCheckout puts an order back to PENDING whatever became of it, Reopen (the script) an
expired one, and neither takes its unit again. The steps that act on an ended order part
its batch from its orders: `Part` records the counters concerned in `lost`, and `drift` has
`reserved` once a release found just one of the two rows at 0.

### EventDesk

An event's row with the columns that interact. Every request reads without a lock,
decides, and writes: UpdateEvent, Publish and ReassignEvent a patch (Write), the
administrator's an entity (Diff, Write). FeatureEvent clears the others (Clear, Hold)
inside the transaction that then saves. FindSlug and Insert are `create`.

### Accounts

One address. A request holds what it has read between statements (`work`): Register,
Sell and CreateUser; AskLink, Revoke, Insert (`issueExclusive`); Consume, then OpenMagic,
or Load, Write and Reread (`users.update`); Change and Logout. `session` are the refresh
tokens handed out; `Accepted` is what `refresh` checks.

## 3. Runs

| run | what it shows | instance |
|---|---|---|
| `order_all` | counters of sold stock equal the tickets issued, tickets once per life of an order, no reservation without a pending order, with every operation, both providers and every failure | 2 workers, orders of one and two items of one buyer, one unit per batch |
| `order_calm` | exact reservations, no oversell, refinement of the ledger | the same, `CalmSpec` |
| `order_progress` | sales of several items never wait in a cycle with one another; every started transaction ends, deadlocks with releases included | 2 workers, orders of two items and one, of two buyers, fairness |
| `order_oversell` | violation: a batch is oversold | 3 orders, one unit, two overlapping expirations |
| `order_reissue` | violation: an order's tickets are issued twice | one order, two checkouts |
| `payments` | the payment of the charge saved last is not lost; a waiting order bills what its charge bills; the QR code on the page is that of the charge the row names | 2 requests, 2 charges, both providers |
| `order_stream` | who is still attached when an order ends; how many a closed tab cuts off; a payment told is a payment committed, until a late checkout or the script puts the order back | 3 tabs, 3 changes of any kind, checkouts among them, a reopening |
| `expiry_sweep` | overdue reservations end, and within a bound | two orders (one untracked), pages of one, one failed query or restart, sweeps that overlap, a checkout that saves late |
| `ticket_custody` | one live ticket, one admission, codes with their holders unless a resend gives them to the buyer, final records | one seat, two transfers, two gates of its event and one of another |
| `stock_desk` | sectors are the sum of batches, counters are the orders, no oversell, an offer is shown as available, a key sells once, each outside the exceptions its comment names | 2 requests, 2 orders, a single and a combo; two of three: a write of the desk, a removal or script, a second release or an order put back |
| `event_desk` | one featured event, on sale; a payout fixed when the event leaves DRAFT | 2 requests, 2 events that are new or on sale, 5 requests that write |
| `accounts` | links are good once, one exclusive link, sessions follow the password, revoked stays revoked | 2 requests, 2 links, 2 passwords, 2 updates of the version |

Bounds. Two workers give every interleaving of two operations, which is what each anomaly
these runs know needs, and NoOversell needs a third order rather than a third worker; what
more workers could do is what the theorems are for. Two batches in two sectors give every
lock-order question; one unit per batch makes the last unit contended at once. `MaxCharges`
bounds checkouts per order and charges, and two suffice for one to replace another;
`MaxRevived` and `MaxReopen` the reopenings. In `TicketCustody` the pool of ids bounds
transfers to two, enough for a ticket that comes back to its first owner. In `ExpirySweep`
the safety interval is longer than a reservation, as in the code (six
hours, ten minutes), and long enough that waiting for it twice breaks the bound;
`JobMinutes` says a sweep takes at most one more minute, so two overlap; `Late` that a
checkout saves at most so long after the deadline it read (the code sets no timeout on its
call; the client of Node gives up after minutes), and `Checkouts` how many do. `MaxFaults`
(failed queries and restarts together) and `Reopenable` (the orders that the script puts
back, once each) bound what may go wrong, and `Floor` is beyond the bound that
OverdueBounded states. In `StockDesk` `Budgets` lets
two of three kinds of things happen, once each, in every mix: a write of the desk, one of
the rest (removals, scripts), and an act on an ended order; they race the sales, and each
exception needs one of them, or two. Capacities of one and two are enough for an order to be
the last; of the states that an edit may give a batch, `Settings` has one that orders may
not choose and one that they see, and a batch may be created hidden. `MaxWrites` of
`EventDesk` is what a create, a publication, two features and an archive need; with
`Openings` the events may also be on sale at first, so that features, edits, an archive and
its return race. `MaxVersion` bounds password changes and logouts together: two, so that one
may be computed from a read that the other has outdated.

Fairness. `FairSpec` of OrderTx is strong fairness of each worker's next statement:
PostgreSQL queues row locks, so a row that becomes free again and again is eventually
granted. With weak fairness a `FOR UPDATE` could be overtaken for ever by other workers. No
fairness makes a client act or the gateway answer, so TransactionsEnd says nothing of a
checkout that waits for the gateway. `FairSpec` of ExpirySweep is weak fairness of the
clock, of the sweeps (that one of two goes on is enough), of the end of a creating
transaction and of the end of a checkout's call, by an answer or an error of the HTTP
client. Failures and restarts are finite by their bounds. The other modules state safety
only: nothing in the code makes a buyer pay, the gateway call, a producer edit or a client
reconnect. `CHECK_DEADLOCK FALSE` is set where requests may simply stop; `ExpirySweep` never
stops.

## 4. Findings

1. `order_oversell`: `expireIfStale` and `cancelPendingOrderTx` read the status without a
   lock and release stock without looking again. Two that overlap release twice, and
   the conditional update of `create`, described as the no-oversell check, then passes.
2. `order_reissue`: `checkout` saves an entity it read before the call to the gateway;
   over a paid order that writes PENDING back, and the second charge issues again.

Both reach further than the run that shows them. In `StockDesk` a second release takes the
unit of another order from the batch and, where the batch is already at 0, of another
batch from the sector; an order put back is owed a unit nobody holds. In `OrderStream` a client
told of a payment may read PENDING again; in `ExpirySweep` an expired order comes back
overdue and waits for the next sweep.

Met while modelling and not given a run of their own:

- a confirmation locks batches then sectors, a sweep or a cancellation sectors then
  batches, so the claim of `orders.service.ts:753` that confirmations cannot deadlock
  with the cron does not hold. PostgreSQL aborts one of the two. SalesNeverDeadlock
  is what remains true (every cycle has a release in it), and TransactionsEnd says that
  nothing hangs;
- a sweep that read its next deadline before a create committed assigns it after that
  create announced its order (`orders.service.ts:182`, `385`), which the announcement's
  comment rules out. OverdueEnds and OverdueBounded say what is left: the order still
  ends, but only within the safety interval;
- a resend of the tickets of an order (`orders.service.ts:945`) sends the WhatsApp message of
  every ticket, copies made by a transfer included, to the buyer: who gave a ticket away
  gets the short code and the link of the new holder's. The mails of the same resend go by
  `Destination` and do not. CodesStayWithHolder says that this is the only way;
- the key figure of pending manual orders counts orders with `paymentId IS NULL`, while its
  comment (`producer-events.service.ts:253`) includes sales by e-mail, whose
  `paymentId` holds their key;
- TotalMatchesCharge holds for two requests without an exception that four need, which
  its proof found: a webhook reads the order with its first charge, a checkout replaces
  that by a manual payment, the order expires during the next one, and the script's
  reopening and the webhook's late claim come between the two halves of that
  checkout's `save`. The save then writes only PENDING, beside the first charge and the
  total of the manual payment. Overtake records the claim;
- the exceptions that the properties of `Payments`, `StockDesk`, `EventDesk`, `Accounts` and
  `OrderStream` name are behaviours of the code: no document promises otherwise.

## 5. Theorems

All proofs are checked by TLAPS for every value of the constants, under the named
assumptions of the modules (which TLC evaluates on the instances).

- `OrderTxProofs`: TypeCorrect, ClaimIssuesOnce, SoldIsIssued, NothingLeaks,
  CalmImplementsLedger, HoldsAreExact, NeverOversold, SalesDoNotDeadlock, in four parts.
  1. The types, that a worker that is not idle has an order (Started), and LifeInv: an
     order that is PENDING, in a committed or written version, has been issued at most
     `revived` times, any other at most once more. It has to hold of both versions of a row,
     because commit and rollback copy one to the other, and it is what makes the property
     inductive: a claim succeeds only on PENDING, and the only ways back to PENDING (a stale
     save, the script) count as revivals.
  2. BaseInv, the working state: locks exclude each other, a row nobody has written is
     as committed, and for each step of each operation which rows its transaction holds,
     what it has written in them, and which statements of its plan are left. What is
     written and what is left add up to the effect of the operation, so that a commit moves
     every counter by the units of its order. Hence SoldInv, that a row has sold exactly
     the units issued, and HoldInv, that it reserves no more than the pending orders ask for:
     a double release subtracts too much, never too little.
  3. CalmInv, under CalmSpec only: what a transaction read of its order is still the
     row, so the effect found in part 2 is that of the order as committed. Every commit
     is then a step of `OrderLedger`, every other statement a stutter; the ledger's own
     invariant, carried along, turns refusals by the conditional UPDATE into the guards of
     Place and Replace, and gives HoldLedger and NoOversell.
  4. SoloInv, the lock order: a sale that waits for a stock row holds stock rows only
     before it, batches by id and then sectors, and waits for its own order row with
     nothing held that another sale wants. Of the rows that a cycle of sales waits for,
     finitely many, one would come last; its holder waits further.
  The module has the ledger's own theorems too: LedgerCorrect, LedgerCountersExact,
  LedgerNeverOversells, LedgerEndsOnce, assuming only that quantities and capacities are
  naturals. Units are pairs of an order and a number, so that sums over orders are
  cardinalities and a step adds or removes the units of one order. By
  CalmImplementsLedger they hold of the committed rows of `OrderTx` outside the window.
- `ExpirySweepProofs`: TypeCorrect, OverdueIsBounded. A checkout puts an order back at most
  Late after its deadline, which adds to the bound once and counts as one more deadline to
  be served. That a reservation is gone soon after its deadline needs what pays for the
  delay. The next sweep is due by the memory or by the safety interval, or the last one
  started when the order was not yet overdue by more than Late (Covered); what a sweep is
  about to assign is due if it leaves an overdue order behind (AssignsDue); and an order
  that has waited x sweeps beyond the safety interval finds x pages spent, on deadlines met,
  reopenings or late checkouts, or lost to a failed query or a restart (Served). A deadline
  is met once, a reopening happens once and a checkout saves once, so whole pages of them
  number at most Pages, and OverdueBounded follows. TypeCorrect found that `since` exceeded
  its range when a sweep outlasts the safety interval, which no instance had: AfterSweep now
  stops counting at the interval, as Minute does. `Floor` cuts the clock of an order off;
  the theorem says something where it lies beyond the bound, as on the instance, and there
  it is never reached.
- `PaymentsProofs`: LastCharge. While no two checkouts overlap and no checkout is saved
  during an expiry, and until a confirmation, the row names the last charge and bills its
  amount (Kept). Stale saves make that inductive only with what is known of the entities
  that requests hold: an expiry's has the row's charge and total (Expiries), and what a
  checkout writes, or leaves because it found it written, is its own charge and total
  (Checkouts); both survive because `save` compares with the row just before it
  writes. One lemma covers every step that only ends requests.
  TypeCorrect, TotalsMatch and CacheFollows, from a second invariant on top (JInv): the
  payment of the row, of every entity to be saved and of every claim is a whole, a payment
  with its method and the amount of its charge (Exact); what a save compared with is
  still what it updates, since a confirmation and an expiry exclude each other by the
  stock; and the cache holds the charge of the checkout under way, or that of the row
  (Cached).
- `OrderStreamProofs`: TypeCorrect, EndsAreHeard, ToldPaymentsAreCommitted, OneCutPerClosed.
  What is left of a change is the end of its statements (Typed); whoever is attached after a
  change was told has come after it (Heard), since notify empties the line; a payment past
  its commit is seen (Settled) in whatever is read next, until a commit of PENDING puts the
  order back. For the count, which adds one for a stream and takes two when it ends: the
  streams open or cut off are at most those that ended and the count together (Balance), so
  what it cuts off when it falls to zero is at most what has ended.
- `AccountsProofs`: TypeCorrect, LinkIsGoodOnce, ExclusiveLinks, PasswordsGovern,
  ClaimsTakeNoAccount, RevokedStay. The invariant adds: what a request in progress knows of
  the row (Started), that a consumed link has one holder (Held), that whoever is about
  to insert an exclusive link sees none (Alone), and that whoever is about to write a
  version has read the present one (Current), the last two until an overlap.
- `TicketCustodyProofs`: TypeCorrect, SeatKeepsOneTicket, SeatEntersOnce, CodesStay,
  SpentStays. The invariant adds: a worker about to commit holds its row, which is still
  VALID (LockInv); the copy it will insert is new and its own (CopyInv); a ticket has as
  many ok answers as it has been used, at most one (AnswerInv); every issued row has a seat
  (SeatInv); and who a row names: of an issued ticket its buyer and attendee, of a copy its
  owner; so a buyer is sent the codes of somebody else's ticket only by a resend on
  WhatsApp, which records it.
- `StockDeskProofs`: TypeCorrect, CountersAreExact, NeverOversold, OneSalePerKey,
  SectorsAreSums, OffersAreShown. The invariant adds that an order is of a batch that is
  there, and a batch without orders has empty counters (Rows); that an edit or a script has
  read nothing of orders that a batch never had (SnapOK), and a script nobody has outdated
  has counted exactly (FreshOK); that a batch not cut has lost no counter and has sold and
  reserved at most its capacity (Owed); and that one order at most holds the key (OneKey). A
  release of a pending order moves its counters with its status; a second one, and an order
  put back, move only one of the two, and record it. A second one on top (KInv) has the
  sums: what a request or a script is about to save in the sector is still the sum while no
  commit has outdated it (FreshSums). Sums are written as numbers of units, so that a sale
  changes one by one element, and in a sector where no batch owes more than it has, an open
  batch leaves something in the sum (AmountFits).
- `EventDeskProofs`: TypeCorrect, OneFrontPage, PayoutsStay. The invariant adds what a
  request in progress knows: its event exists (SnapOK), and while no commit has outdated it
  the row still is what it decided on (FreshOK), so that its save touches only the columns
  it means to.

Only model-checked: liveness (TransactionsEnd, OverdueEnds), which the prover does not
reach, nor ENABLED. Every other property a passing run checks is a theorem.

## 6. Not modelled

- `updateAttendees`: it writes names on items, which only the mails read. Its one hazard,
  a second connection asked for inside a transaction, depends on the pool the deployment
  configures.
- the limit of two units, discounts, prices: arithmetic on a request, with no
  interaction.
- paging, filters, key figures, the search of attendees, the profile, the wallet passes,
  venues, referral: reads and single statements.
- the text of PIX codes, templates, mail and WhatsApp transport (who is sent which code is
  in `TicketCustody`): output; their failures are caught and logged by their callers.
- the script that issues missing tickets: a repair of data, run once.
- signatures and tokens as cryptography; rate limits.
- migrations, seeds, bootstrap: configuration. The keys and indexes they create are used by
  `OrderTx` (one manual payment per order), `StockDesk` (`paymentId`), `EventDesk` (slugs)
  and `Accounts` (addresses).

Two hazards have no property: the pool, for the reason above; and two creates of one buyer
that find no pending order and both insert, which `OrderTx` reaches and which breaks no
promise of the code.

## 7. Running

    tlc -workers 2 -config OrderTxAll.cfg MCOrderTx.tla
    tlc -workers 2 -config Payments.cfg MCPayments.tla
    tlapm PaymentsProofs.tla

and likewise `OrderTxCalm`, `OrderTxProgress`, `OrderTxOversell`, `OrderTxReissue` (with
`MCOrderTx`), `OrderStream`, `ExpirySweep`, `TicketCustody`, `StockDesk`, `EventDesk`,
`Accounts` (each with its `MC` module), and the eight modules of proofs. Runs take from
a second to a few minutes with two workers, proofs a minute, `OrderTxProofs` five.
