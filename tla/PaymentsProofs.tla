---------------------------- MODULE PaymentsProofs ----------------------------
(***************************************************************************)
(* Proofs about Payments, for any number of workers and of charges.        *)
(*                                                                         *)
(* First, that the charge of the checkout that was saved last is kept.     *)
(* While no two checkouts overlap and no checkout is saved during an       *)
(* expiry (Calm), and until the order has been confirmed: the row names    *)
(* the last charge and bills its amount (Kept).  To keep that through      *)
(* stale saves the inductive invariant says of the entities that requests  *)
(* hold: an expiry's has the row's charge and total (Expiries), and what a *)
(* checkout will write, or find written, is its own charge and total       *)
(* (Checkouts).  Then, from another invariant on top of that one, the      *)
(* types, what a waiting order bills, and the QR code in the cache.        *)
(***************************************************************************)
EXTENDS Payments, SequenceTheorems, TLAPS

Races == {"checkouts", "expiry", "failure", "overtaken"}
Calm == crossed \subseteq {"failure", "overtaken"}
Charge == [state: {"open", "paid"}, amount: Methods, shown: BOOLEAN]
Work == [pc: Pc, snap: Row, charge: PayIds, dirty: SUBSET Columns]

Typed ==
    /\ row \in Row /\ issued \in BOOLEAN
    /\ charges \in Seq(Charge) /\ Len(charges) <= MaxCharges
    /\ last \in {NoPay, Manual} \cup DOMAIN charges
    /\ crossed \subseteq Races
    /\ work \in [Workers -> Work]
    /\ \A w \in Workers : work[w].pc \in {"save", "update"}
                            => work[w].charge \in {Manual} \cup DOMAIN charges

(* A checkout's entity is PENDING, an expiry's EXPIRED; only confirmations  *)
(* make an order PAID.                                                      *)
Statuses ==
    /\ ~issued => row.status # "PAID"
    /\ \A w \in Workers : /\ InCheckout(w) => work[w].snap.status = "PENDING"
                          /\ InExpiry(w) => work[w].snap.status = "EXPIRED"

OneCheckout == \A v, w \in Workers : InCheckout(v) /\ InCheckout(w) => v = w

Expiries ==
    \A w \in Workers : InExpiry(w) =>
        work[w].snap.pay = row.pay /\ work[w].snap.total = row.total

Bills(c, total) == c \in DOMAIN charges => total = charges[c].amount
Checkouts ==
    \A w \in Workers :
        /\ work[w].pc \in {"save", "update"} =>
             /\ work[w].snap.pay = work[w].charge
             /\ Bills(work[w].charge, work[w].snap.total)
        /\ work[w].pc = "update" =>
             /\ "pay" \in work[w].dirty \/ row.pay = work[w].snap.pay
             /\ "total" \in work[w].dirty \/ row.total = work[w].snap.total

Kept == last \in DOMAIN charges => row.pay = last /\ Bills(last, row.total)

IInv ==
    /\ Typed /\ Statuses
    /\ Calm => OneCheckout
    /\ Calm /\ ~issued => Expiries /\ Checkouts /\ Kept

LEMMA InvGives == IInv => LastChargeIsKept
<1> SUFFICES ASSUME IInv, Calm, last \in DOMAIN charges, ~issued
             PROVE  row.status = "CANCELLED" \/ Recoverable(last)
  BY DEF LastChargeIsKept, Calm
<1>1. row.status \in {"PENDING", "EXPIRED", "CANCELLED"}
  BY DEF IInv, Typed, Statuses, Row
<1> QED
  BY <1>1 DEF IInv, Kept, Bills, Recoverable

(* Numbers of charges. *)
LEMMA Numbers ==
    /\ NoPay \in PayIds /\ Manual \in PayIds /\ Charges \subseteq PayIds
    /\ \A q \in Seq(Charge) : Len(q) <= MaxCharges =>
         DOMAIN q \subseteq Charges /\ NoPay \notin DOMAIN q /\ Manual \notin DOMAIN q
BY PaymentsAssumption DEF NoPay, Manual, Charges, PayIds

LEMMA ChargesType ==
    ASSUME NEW q \in Seq(Charge)
    PROVE  /\ DOMAIN q = 1..Len(q) /\ Len(q) \in Nat /\ q \in [DOMAIN q -> Charge]
           /\ \A i \in DOMAIN q : q[i] \in Charge
OBVIOUS

LEMMA IdleType == Idle \in Work /\ NewRow \in Row /\ Idle.pc = "idle"
BY Numbers DEF Idle, NewRow, Work, Row, Pc, Amounts, None

LEMMA InitInv == Init => IInv
<1> SUFFICES ASSUME Init PROVE IInv
  OBVIOUS
<1>1. /\ charges = <<>> /\ last = NoPay /\ row = NewRow /\ row.status = "PENDING"
      /\ work = [w \in Workers |-> Idle] /\ crossed = {} /\ issued = FALSE
      /\ \A w \in Workers : work[w].pc = "idle"
  BY IdleType DEF Init, NewRow
<1>2. Typed
  <2>1. charges \in Seq(Charge) /\ Len(charges) <= MaxCharges
    BY <1>1, PaymentsAssumption
  <2>2. \A w \in Workers : work[w].pc \notin {"save", "update"}
    BY <1>1
  <2>3. work \in [Workers -> Work]
    BY <1>1, IdleType
  <2> QED
    BY <1>1, <2>1, <2>2, <2>3, IdleType DEF Typed
<1>3. Statuses /\ OneCheckout /\ Expiries /\ Checkouts
  BY <1>1 DEF Statuses, OneCheckout, Expiries, Checkouts, InCheckout, InExpiry
<1>4. Kept
  BY <1>1 DEF Kept, NoPay
<1> QED
  BY <1>2, <1>3, <1>4 DEF IInv

----------------------------------------------------------------------------
(* Steps that only take requests out of checkouts and expiries *)

Busy == {"charge", "save", "update", "expire", "expiry"}

LEMMA AwayInv ==
    ASSUME IInv, work' \in [Workers -> Work],
           \A v \in Workers : work'[v] = work[v] \/ work'[v].pc \notin Busy,
           charges' = charges, last' = last, row' \in Row,
           issued' \in BOOLEAN, issued => issued',
           ~issued' => row'.status # "PAID",
           Calm' /\ ~issued' => row'.pay = row.pay /\ row'.total = row.total,
           crossed \subseteq crossed', crossed' \subseteq Races
    PROVE  IInv'
<1>1. Calm' => Calm
  BY DEF Calm
<1>2. Typed'
  BY DEF IInv, Typed, Busy
<1>3. Statuses'
  BY DEF IInv, Statuses, InCheckout, InExpiry, Busy
<1>4. OneCheckout => OneCheckout'
  BY DEF OneCheckout, InCheckout, Busy
<1>5. ASSUME Calm', ~issued' PROVE Expiries' /\ Checkouts' /\ Kept'
  <2>1. /\ Calm /\ ~issued /\ Expiries /\ Checkouts /\ Kept
        /\ row'.pay = row.pay /\ row'.total = row.total
    BY <1>1, <1>5 DEF IInv
  <2>2. Expiries'
    BY <2>1 DEF Expiries, InExpiry, Busy
  <2>3. Checkouts'
    BY <2>1 DEF Checkouts, Bills, Busy
  <2>4. Kept'
    BY <2>1 DEF Kept, Bills
  <2> QED
    BY <2>2, <2>3, <2>4
<1> QED
  BY <1>1, <1>2, <1>3, <1>4, <1>5 DEF IInv

(* One request goes to a step that is none of these, and the row stays. *)
LEMMA GoneInv ==
    ASSUME IInv, NEW w \in Workers, NEW r \in Work, r.pc \notin Busy,
           work' = [work EXCEPT ![w] = r], UNCHANGED <<row, issued, charges, last>>,
           crossed \subseteq crossed', crossed' \subseteq Races
    PROVE  IInv'
<1>1. /\ work' \in [Workers -> Work]
      /\ \A v \in Workers : work'[v] = work[v] \/ work'[v].pc \notin Busy
  BY DEF IInv, Typed
<1> QED
  BY <1>1, AwayInv DEF IInv, Typed, Statuses

LEMMA Crossing ==
    ASSUME IInv, NEW kind \in Races, NEW happens, Cross(kind, happens)
    PROVE  crossed \subseteq crossed' /\ crossed' \subseteq Races
BY DEF Cross, IInv, Typed, Races

LEMMA Overtaking == ASSUME IInv, Overtake PROVE crossed \subseteq crossed' /\ crossed' \subseteq Races
BY Crossing DEF Overtake, Races

(* The requests that wait for a later statement with what they have read. *)
LEMMA Reads ==
    ASSUME NEW pc \in Pc, NEW snap \in Row, NEW c \in PayIds
    PROVE  LET r == [Idle EXCEPT !.pc = pc, !.snap = snap, !.charge = c] IN
           /\ r \in Work /\ r.pc = pc /\ r.snap = snap /\ r.charge = c
BY IdleType DEF Idle, Work

LEMMA AsPixType == ASSUME NEW r \in Row PROVE AsPix(r) \in Row /\ ManuallyPaid(r) \in Row
BY Numbers DEF AsPix, ManuallyPaid, Row, Methods

LEMMA StartInv ==
    ASSUME IInv, NEW w \in Workers, NEW pc \in Pc \ Busy, NEW snap \in Row, NEW c \in PayIds,
           Start(w, pc, snap, c), UNCHANGED <<order, charges, last, crossed>>
    PROVE  IInv'
<1> DEFINE r == [Idle EXCEPT !.pc = pc, !.snap = snap, !.charge = c]
<1>1. r \in Work /\ r.pc \notin Busy
  BY Reads
<1>2. work' = [work EXCEPT ![w] = r] /\ UNCHANGED <<row, issued, charges, last, crossed>>
  BY DEF Start, order
<1> HIDE DEF r
<1> QED
  BY <1>1, <1>2, GoneInv DEF IInv, Typed

LEMMA GotoInv ==
    ASSUME IInv, NEW w \in Workers, NEW pc \in Pc \ Busy,
           Goto(w, pc), UNCHANGED <<row, issued, charges, last, crossed>>
    PROVE  IInv'
<1> DEFINE r == [Idle EXCEPT !.pc = pc, !.charge = work[w].charge]
<1>1. r \in Work /\ r.pc \notin Busy
  BY IdleType DEF Work, Idle, IInv, Typed
<1>2. work' = [work EXCEPT ![w] = r]
  BY DEF Goto
<1> HIDE DEF r
<1> QED
  BY <1>1, <1>2, GoneInv DEF IInv, Typed

LEMMA FinishInv ==
    ASSUME IInv, NEW w \in Workers, Finish(w), UNCHANGED <<row, issued, charges, last, crossed>>
    PROVE  IInv'
BY IdleType, GoneInv DEF Finish, Busy, IInv, Typed

LEMMA RowType == ASSUME IInv PROVE row \in Row /\ \A w \in Workers : work[w].charge \in PayIds
BY DEF IInv, Typed, Work

(* Confirmations, and the script. *)
LEMMA ReadersInv ==
    ASSUME IInv, NEW w \in Workers,
           \/ \E c \in DOMAIN charges : Webhook(w, c)
           \/ Confirm(w) \/ Candidate(w)
    PROVE  IInv'
<1>1. AsPix(row) \in Row /\ ManuallyPaid(row) \in Row /\ row \in Row /\ row.pay \in PayIds
  BY AsPixType, RowType DEF Row
<1>2. NoPay \in PayIds /\ {"claim", "confirm", "fetch"} \subseteq Pc \ Busy
  BY Numbers DEF Pc, Busy
<1>3. CASE \E c \in DOMAIN charges : Webhook(w, c)
  BY <1>1, <1>2, <1>3, StartInv DEF Webhook
<1>4. CASE Confirm(w)
  BY <1>1, <1>2, <1>4, StartInv DEF Confirm
<1>5. CASE Candidate(w)
  BY <1>1, <1>2, <1>5, StartInv DEF Candidate
<1> QED
  BY <1>3, <1>4, <1>5

LEMMA ToClaim ==
    ASSUME IInv, NEW w \in Workers, NEW snap \in Row,
           work' = [work EXCEPT ![w].pc = "claim", ![w].snap = snap, ![w].charge = NoPay],
           UNCHANGED <<order, charges, last, crossed>>
    PROVE  IInv'
<1>1. work[w] \in Work /\ work \in [Workers -> Work]
  BY DEF IInv, Typed
<1> DEFINE r == [[[work[w] EXCEPT !.pc = "claim"] EXCEPT !.snap = snap] EXCEPT !.charge = NoPay]
<1>2. r \in Work /\ r.pc \notin Busy
  BY <1>1, Numbers DEF Work, Pc, Busy
<1>3. work' = [work EXCEPT ![w] = r]
  BY <1>1
<1> HIDE DEF r
<1> QED
  BY <1>2, <1>3, GoneInv DEF order, IInv, Typed

LEMMA ReadPaidInv == ASSUME IInv, NEW w \in Workers, ReadPaid(w) PROVE IInv'
<1>1. CASE Finish(w)
  BY <1>1, FinishInv DEF ReadPaid, order
<1>2. CASE ~Finish(w)
  BY <1>2, ToClaim, RowType DEF ReadPaid
<1> QED
  BY <1>1, <1>2

LEMMA LookupInv == ASSUME IInv, NEW w \in Workers, Lookup(w) PROVE IInv'
<1>1. CASE Finish(w)
  BY <1>1, FinishInv DEF Lookup, order
<1>2. CASE ~Finish(w)
  BY <1>2, ToClaim, RowType, AsPixType DEF Lookup
<1> QED
  BY <1>1, <1>2

LEMMA FetchInv == ASSUME IInv, NEW w \in Workers, Fetch(w) PROVE IInv'
<1>1. {"reopen", "lookup"} \subseteq Pc \ Busy
  BY DEF Pc, Busy
<1>2. Finish(w) \/ Goto(w, "reopen") \/ Goto(w, "lookup")
  BY DEF Fetch
<1>3. UNCHANGED <<row, issued, charges, last, crossed>>
  BY DEF Fetch, order
<1> QED
  BY <1>1, <1>2, <1>3, FinishInv, GotoInv

LEMMA FailInv == ASSUME IInv, NEW w \in Workers, Fail(w) PROVE IInv'
<1>1. crossed \subseteq crossed' /\ crossed' \subseteq Races
  BY Crossing DEF Fail, Races
<1> QED
  BY <1>1, IdleType, GoneInv DEF Fail, Finish, order, Busy

(* Every request is gone. *)
LEMMA RestartInv == ASSUME IInv, Restart PROVE IInv'
<1>1. crossed \subseteq crossed' /\ crossed' \subseteq Races
  BY Crossing DEF Restart, Races
<1>2. work' \in [Workers -> Work] /\ \A v \in Workers : work'[v].pc \notin Busy
  BY IdleType DEF Restart, Busy
<1> QED
  BY <1>1, <1>2, AwayInv DEF Restart, order, IInv, Typed, Statuses

----------------------------------------------------------------------------
(* Confirmations, cancellation, expiry: other steps that write the row *)

(* One request finishes, and what it does to the row leaves its charge      *)
(* alone or confirms it.                                                    *)
LEMMA LeaveInv ==
    ASSUME IInv, NEW w \in Workers, Finish(w), UNCHANGED <<charges, last>>,
           crossed \subseteq crossed', crossed' \subseteq Races,
           row' \in Row, issued' \in BOOLEAN, issued => issued',
           ~issued' => row'.status # "PAID" /\ row'.pay = row.pay /\ row'.total = row.total
    PROVE  IInv'
<1>1. /\ work' \in [Workers -> Work]
      /\ \A v \in Workers : work'[v] = work[v] \/ work'[v].pc \notin Busy
  BY IdleType DEF Finish, Busy, IInv, Typed
<1> QED
  BY <1>1, AwayInv DEF IInv, Typed

LEMMA ClaimedType ==
    ASSUME IInv, NEW w \in Workers
    PROVE  Claimed(w) \in Row
BY DEF Claimed, IInv, Typed, Work, Row

LEMMA UnissuedRow == IInv => row \in Row /\ issued \in BOOLEAN /\ (~issued => row.status # "PAID")
BY DEF IInv, Typed, Statuses

LEMMA ClaimInv == ASSUME IInv, NEW w \in Workers, Claim(w) PROVE IInv'
<1>1. CASE row.status = "PENDING"
  BY <1>1, ClaimedType, Overtaking, LeaveInv DEF Claim
<1>2. CASE row.status # "PENDING"
  BY <1>2, UnissuedRow, Overtaking, LeaveInv DEF Claim
<1> QED
  BY <1>1, <1>2

LEMMA ClaimManualInv == ASSUME IInv, NEW w \in Workers, ClaimManual(w) PROVE IInv'
<1>1. CASE ~manual /\ row.status = "PENDING"
  BY <1>1, ClaimedType, Overtaking, LeaveInv DEF ClaimManual
<1>2. CASE manual \/ row.status # "PENDING"
  BY <1>2, UnissuedRow, Overtaking, LeaveInv DEF ClaimManual
<1> QED
  BY <1>1, <1>2

(* The steps of nobody's request. *)
LEMMA OthersInv == ASSUME IInv, Cancel \/ Lapse \/ Forget PROVE IInv'
<1>1. row' \in Row /\ row'.pay = row.pay /\ row'.total = row.total /\ (~issued => row'.status # "PAID")
  BY UnissuedRow DEF Cancel, Lapse, Forget, order, Row
<1>2. UNCHANGED <<issued, charges, last, work, crossed>>
  BY DEF Cancel, Lapse, Forget, order
<1> QED
  BY <1>1, <1>2, UnissuedRow, AwayInv DEF IInv, Typed

LEMMA ReopenInv == ASSUME IInv, NEW w \in Workers, Reopen(w) PROVE IInv'
<1>1. CASE Finish(w) /\ row' = row
  BY <1>1, UnissuedRow, LeaveInv DEF Reopen, IInv, Typed
<1>2. CASE Goto(w, "lookup") /\ row' = [row EXCEPT !.status = "PENDING"]
  <2> DEFINE r == [Idle EXCEPT !.pc = "lookup", !.charge = work[w].charge]
  <2>1. r \in Work /\ r.pc \notin Busy
    BY IdleType DEF Work, Idle, IInv, Typed, Pc, Busy
  <2>2. work' = [work EXCEPT ![w] = r]
    BY <1>2 DEF Goto
  <2> HIDE DEF r
  <2>3. /\ work' \in [Workers -> Work]
        /\ \A v \in Workers : work'[v] = work[v] \/ work'[v].pc \notin Busy
    BY <2>1, <2>2 DEF IInv, Typed
  <2>4. row' \in Row /\ row'.status # "PAID" /\ row'.pay = row.pay /\ row'.total = row.total
    BY <1>2, UnissuedRow DEF Row
  <2> QED
    BY <2>3, <2>4, UnissuedRow, AwayInv DEF Reopen, IInv, Typed
<1> QED
  BY <1>1, <1>2 DEF Reopen

(* What a save writes is a row; the columns that it leaves keep theirs. *)
LEMMA SavedRow ==
    ASSUME IInv, NEW w \in Workers
    PROVE  /\ Saved(w) \in Row
           /\ \A x \in Columns : Saved(w)[x] = IF x \in work[w].dirty THEN work[w].snap[x] ELSE row[x]
           /\ Saved(w).status \in {work[w].snap.status, row.status}
           /\ Saved(w).pay = IF "pay" \in work[w].dirty THEN work[w].snap.pay ELSE row.pay
           /\ Saved(w).total = IF "total" \in work[w].dirty THEN work[w].snap.total ELSE row.total
<1>1. work[w].snap \in Row /\ row \in Row
  BY DEF IInv, Typed, Work
<1> QED
  BY <1>1 DEF Saved, Row, Columns

LEMMA ExpireInv == ASSUME IInv, NEW w \in Workers, Expire(w) PROVE IInv'
<1>1. InExpiry(w) /\ row' = Saved(w) /\ UNCHANGED <<issued, charges, last>>
      /\ crossed \subseteq crossed' /\ crossed' \subseteq Races
  BY Overtaking DEF Expire, At, InExpiry
<1>2. ~issued => row'.status # "PAID"
  BY <1>1, SavedRow DEF IInv, Statuses
<1>3. Calm /\ ~issued => row'.pay = row.pay /\ row'.total = row.total
  BY <1>1, SavedRow DEF IInv, Expiries
<1>4. /\ work' \in [Workers -> Work]
      /\ \A v \in Workers : work'[v] = work[v] \/ work'[v].pc \notin Busy
  BY IdleType DEF Expire, Finish, Busy, IInv, Typed
<1>5. row' \in Row
  BY <1>1, SavedRow
<1> QED
  BY <1>1, <1>2, <1>3, <1>4, <1>5, AwayInv DEF Calm, IInv, Typed

----------------------------------------------------------------------------
(* Checkouts and the reads of an expiry *)

(* A request goes on to r. *)
LEMMA Moved ==
    ASSUME IInv, NEW w \in Workers, NEW r \in Work, work' = [work EXCEPT ![w] = r]
    PROVE  /\ work' \in [Workers -> Work] /\ work'[w] = r
           /\ \A v \in Workers \ {w} : work'[v] = work[v]
           /\ \A v \in Workers : v # w => (InCheckout(v)' <=> InCheckout(v))
                                         /\ (InExpiry(v)' <=> InExpiry(v))
           /\ InCheckout(w)' <=> r.pc \in {"charge", "save", "update"}
           /\ InExpiry(w)' <=> r.pc \in {"expire", "expiry"}
BY DEF IInv, Typed, InCheckout, InExpiry

LEMMA CheckoutInv == ASSUME IInv, NEW w \in Workers, Checkout(w) PROVE IInv'
<1> DEFINE r == [Idle EXCEPT !.pc = "charge", !.snap = row, !.charge = NoPay]
<1>1. r \in Work /\ r.pc = "charge" /\ r.snap = row
  BY IdleType, Numbers, UnissuedRow DEF Pc, Idle, Work
<1>2. /\ work' = [work EXCEPT ![w] = r] /\ row.status = "PENDING"
      /\ UNCHANGED <<row, issued, charges, last>>
      /\ Cross("checkouts", \E v \in Workers : InCheckout(v))
  BY DEF Checkout, Start, order, Live
<1> HIDE DEF r
<1>3. crossed \subseteq crossed' /\ crossed' \subseteq Races
  BY <1>2, Crossing DEF Races
<1>4. Typed'
  BY <1>1, <1>2, <1>3, Moved DEF IInv, Typed
<1>5. Statuses'
  BY <1>1, <1>2, Moved DEF IInv, Statuses
<1>6. Calm' => Calm /\ \A v \in Workers : ~InCheckout(v)
  BY <1>2 DEF Calm, Cross
<1>7. Calm' => OneCheckout'
  BY <1>1, <1>2, <1>6, Moved DEF OneCheckout
<1>8. ASSUME Calm', ~issued' PROVE Expiries' /\ Checkouts' /\ Kept'
  <2>1. Expiries /\ Checkouts /\ Kept
    BY <1>2, <1>6, <1>8 DEF IInv
  <2> QED
    BY <2>1, <1>1, <1>2, Moved DEF Expiries, Checkouts, Kept, Bills
<1> QED
  BY <1>4, <1>5, <1>7, <1>8 DEF IInv

LEMMA ReadFreshInv == ASSUME IInv, NEW w \in Workers, ReadFresh(w) PROVE IInv'
<1> DEFINE s == [row EXCEPT !.status = "EXPIRED"]
           r == [Idle EXCEPT !.pc = "expire", !.snap = s, !.charge = NoPay]
<1>1. s \in Row /\ s.status = "EXPIRED" /\ s.pay = row.pay /\ s.total = row.total
  BY UnissuedRow DEF Row
<1>2. r \in Work /\ r.pc = "expire" /\ r.snap = s
  BY <1>1, IdleType, Numbers DEF Pc, Idle, Work
<1>3. work' = [work EXCEPT ![w] = r] /\ UNCHANGED <<row, issued, charges, last, crossed>>
  BY DEF ReadFresh, Start, order
<1> HIDE DEF r, s
<1>4. Typed'
  BY <1>2, <1>3, Moved DEF IInv, Typed
<1>5. Statuses'
  BY <1>1, <1>2, <1>3, Moved DEF IInv, Statuses
<1>6. Calm' => Calm
  BY <1>3 DEF Calm
<1>7. Calm' => OneCheckout'
  BY <1>2, <1>3, <1>6, Moved DEF IInv, OneCheckout
<1>8. ASSUME Calm', ~issued' PROVE Expiries' /\ Checkouts' /\ Kept'
  <2>1. Expiries /\ Checkouts /\ Kept
    BY <1>3, <1>6, <1>8 DEF IInv
  <2> QED
    BY <2>1, <1>1, <1>2, <1>3, Moved DEF Expiries, Checkouts, Kept, Bills
<1> QED
  BY <1>4, <1>5, <1>7, <1>8 DEF IInv

LEMMA DiffInv == ASSUME IInv, NEW w \in Workers, Diff(w) PROVE IInv'
<1>1. work[w] \in Work /\ work \in [Workers -> Work] /\ row \in Row
  BY DEF IInv, Typed
<1> DEFINE d == {x \in Columns : work[w].snap[x] # row[x]}
           pc == IF work[w].pc = "save" THEN "update" ELSE "expiry"
           r == [[work[w] EXCEPT !.pc = pc] EXCEPT !.dirty = d]
<1>2. /\ r \in Work /\ r.snap = work[w].snap /\ r.charge = work[w].charge
      /\ r.dirty = d /\ r.pc = pc
  BY <1>1 DEF Work, Pc
<1>3. work' = [work EXCEPT ![w] = r]
  BY <1>1 DEF Diff
<1>4. "pay" \in d \/ row.pay = work[w].snap.pay
  BY DEF Columns
<1>5. "total" \in d \/ row.total = work[w].snap.total
  BY DEF Columns
<1>6. \/ work[w].pc = "save" /\ pc = "update"
      \/ work[w].pc = "expire" /\ pc = "expiry"
  BY DEF Diff, At
<1>7. UNCHANGED <<row, issued, charges, last, crossed>>
  BY DEF Diff, order
<1> HIDE DEF r, d, pc
<1>8. Typed'
  BY <1>2, <1>3, <1>6, <1>7, Moved DEF IInv, Typed
<1>9. Statuses'
  BY <1>2, <1>3, <1>6, <1>7, Moved DEF IInv, Statuses, InCheckout, InExpiry
<1>10. Calm' => Calm
  BY <1>7 DEF Calm
<1>11. Calm' => OneCheckout'
  BY <1>2, <1>3, <1>6, <1>10, Moved DEF IInv, OneCheckout, InCheckout
<1>12. ASSUME Calm', ~issued' PROVE Expiries' /\ Checkouts' /\ Kept'
  <2>1. Expiries /\ Checkouts /\ Kept
    BY <1>7, <1>10, <1>12 DEF IInv
  <2>2. Expiries'
    BY <2>1, <1>2, <1>3, <1>6, <1>7, Moved DEF Expiries, InExpiry
  <2>3. Checkouts'
    BY <2>1, <1>2, <1>3, <1>4, <1>5, <1>6, <1>7, Moved DEF Checkouts, Bills
  <2> QED
    BY <2>1, <2>2, <2>3, <1>7 DEF Kept, Bills
<1> QED
  BY <1>8, <1>9, <1>11, <1>12 DEF IInv

(* A charge is created, or named: the entity takes its number and amount. *)
LEMMA WaitingInv ==
    ASSUME IInv, NEW w \in Workers, At(w, "charge"),
           NEW next \in Row, next.status = work[w].snap.status, Waiting(w, next),
           charges' \in Seq(Charge), Len(charges') <= MaxCharges,
           DOMAIN charges \subseteq DOMAIN charges',
           \A c \in DOMAIN charges : charges'[c] = charges[c],
           next.pay \in {Manual} \cup DOMAIN charges', next.pay \in PayIds,
           next.pay \in DOMAIN charges' => next.total = charges'[next.pay].amount
    PROVE  IInv'
<1>1. work[w] \in Work /\ work \in [Workers -> Work]
  BY DEF IInv, Typed
<1> DEFINE r == [[[work[w] EXCEPT !.pc = "save"] EXCEPT !.snap = next] EXCEPT !.charge = next.pay]
<1>2. r \in Work /\ r.pc = "save" /\ r.snap = next /\ r.charge = next.pay
  BY <1>1 DEF Work, Pc
<1>3. work' = [work EXCEPT ![w] = r] /\ UNCHANGED <<row, issued, last, crossed>>
  BY <1>1 DEF Waiting, order
<1> HIDE DEF r
<1>4. work[w].pc = "charge"
  BY DEF At
<1>5. Typed'
  <2>1. work' \in [Workers -> Work] /\ work'[w] = r /\ \A v \in Workers \ {w} : work'[v] = work[v]
    BY <1>2, <1>3, Moved
  <2>2. ASSUME NEW v \in Workers, work'[v].pc \in {"save", "update"}
        PROVE  work'[v].charge \in {Manual} \cup DOMAIN charges'
    <3>1. CASE v = w
      BY <3>1, <2>1, <1>2
    <3>2. CASE v # w
      BY <3>2, <2>1, <2>2 DEF IInv, Typed
    <3> QED
      BY <3>1, <3>2
  <2>3. last' \in {NoPay, Manual} \cup DOMAIN charges'
    BY <1>3 DEF IInv, Typed
  <2>4. row' \in Row /\ issued' \in BOOLEAN /\ crossed' \subseteq Races
    BY <1>3 DEF IInv, Typed
  <2> QED
    BY <2>1, <2>2, <2>3, <2>4 DEF Typed
<1>6. Statuses'
  BY <1>2, <1>3, <1>4, Moved DEF IInv, Statuses, InCheckout
<1>7. Calm' => Calm
  BY <1>3 DEF Calm
<1>8. Calm' => OneCheckout'
  BY <1>2, <1>3, <1>4, <1>7, Moved DEF IInv, OneCheckout, InCheckout
<1>9. ASSUME Calm', ~issued' PROVE Expiries' /\ Checkouts' /\ Kept'
  <2>1. Expiries /\ Checkouts /\ Kept /\ OneCheckout
    BY <1>3, <1>7, <1>9 DEF IInv
  <2>2. Expiries'
    BY <2>1, <1>2, <1>3, <1>4, Moved DEF Expiries, InExpiry
  <2>3. \A v \in Workers : InCheckout(v)' => v = w
    BY <1>2, <1>8, <1>9, <1>3, Moved DEF OneCheckout
  <2>4. work'[w].pc = "save" /\ work'[w].snap = next /\ work'[w].charge = next.pay
    BY <1>2, <1>3, Moved
  <2>5. Checkouts'
    BY <2>3, <2>4 DEF Checkouts, Bills, InCheckout
  <2>6. last \notin DOMAIN charges' \/ last \in DOMAIN charges
    BY <1>3, Numbers DEF IInv, Typed
  <2> QED
    BY <2>1, <2>2, <2>5, <2>6, <1>3 DEF Kept, Bills
<1> QED
  BY <1>5, <1>6, <1>8, <1>9 DEF IInv

LEMMA ChargedType ==
    ASSUME NEW snap \in Row, NEW c \in PayIds, NEW provider, NEW method \in Methods
    PROVE  LET next == Charged(snap, c, provider, method) IN
           /\ next \in Row /\ next.status = snap.status /\ next.pay = c
           /\ next.total = Total(provider, method)
BY DEF Charged, Total, Row, Amounts

LEMMA CreateChargeInv ==
    ASSUME IInv, NEW w \in Workers, NEW m \in Methods, NEW s \in {"open", "paid"}, CreateCharge(w, m, s)
    PROVE  IInv'
<1> DEFINE c == Len(charges) + 1
           next == Charged(work[w].snap, c, "gateway", m)
<1>1. At(w, "charge") /\ c \in Charges /\ Waiting(w, next)
      /\ charges' = Append(charges, NewCharge(m, s))
  BY DEF CreateCharge
<1>2. work[w].snap \in Row /\ charges \in Seq(Charge) /\ MaxCharges \in Nat
  BY PaymentsAssumption DEF IInv, Typed, Work
<1>3. c \in PayIds /\ c <= MaxCharges
  BY <1>1, <1>2, Numbers DEF Charges
<1>4. next \in Row /\ next.status = work[w].snap.status /\ next.pay = c /\ next.total = m
  BY <1>2, <1>3, ChargedType DEF Total
<1> HIDE DEF next
<1>5. NewCharge(m, s) \in Charge /\ NewCharge(m, s).amount = m
  BY DEF NewCharge, Charge
<1>6. /\ charges' \in Seq(Charge) /\ Len(charges') = c
      /\ DOMAIN charges' = 1..c /\ DOMAIN charges = 1..Len(charges)
      /\ charges'[c] = NewCharge(m, s)
      /\ \A i \in DOMAIN charges : charges'[i] = charges[i]
  BY <1>1, <1>2, <1>5
<1>7. c \in DOMAIN charges' /\ DOMAIN charges \subseteq DOMAIN charges'
  BY <1>2, <1>6
<1> HIDE DEF c
<1> QED
  BY <1>1, <1>3, <1>4, <1>5, <1>6, <1>7, WaitingInv

LEMMA ManualChargeInv == ASSUME IInv, NEW w \in Workers, ManualCharge(w) PROVE IInv'
<1> DEFINE next == Charged(work[w].snap, Manual, "manual", "PIX")
<1>1. At(w, "charge") /\ Waiting(w, next) /\ charges' = charges
  BY DEF ManualCharge
<1>2. work[w].snap \in Row /\ charges \in Seq(Charge) /\ Len(charges) <= MaxCharges
  BY DEF IInv, Typed, Work
<1>3. next \in Row /\ next.status = work[w].snap.status /\ next.pay = Manual
  BY <1>2, Numbers, ChargedType DEF Methods
<1> HIDE DEF next
<1> QED
  BY <1>1, <1>2, <1>3, Numbers, WaitingInv

LEMMA UpdateInv == ASSUME IInv, NEW w \in Workers, Update(w) PROVE IInv'
<1>1. /\ work[w].pc = "update" /\ InCheckout(w) /\ row' = Saved(w) /\ last' = work[w].charge
      /\ Goto(w, "paid") \/ Finish(w)
      /\ Cross("expiry", \E v \in Workers : InExpiry(v)) /\ UNCHANGED <<issued, charges>>
  BY DEF Update, At, InCheckout
<1>2. PICK r \in Work : r.pc \notin Busy /\ r.pc \notin {"save", "update"} /\ work' = [work EXCEPT ![w] = r]
  <2> DEFINE g == [Idle EXCEPT !.pc = "paid", !.charge = work[w].charge]
  <2>1. g \in Work /\ g.pc = "paid"
    BY IdleType DEF Work, Idle, Pc, IInv, Typed
  <2>2. CASE Goto(w, "paid")
    BY <2>1, <2>2 DEF Goto, Busy
  <2>3. CASE Finish(w)
    BY <2>3, IdleType DEF Finish, Busy
  <2> QED
    BY <1>1, <2>2, <2>3
<1>3. crossed \subseteq crossed' /\ crossed' \subseteq Races
  BY <1>1, Crossing DEF Races
<1>4. Typed'
  BY <1>1, <1>2, <1>3, Moved, SavedRow DEF IInv, Typed
<1>5. Statuses'
  BY <1>1, <1>2, Moved, SavedRow DEF IInv, Statuses, Busy
<1>6. Calm' => Calm /\ \A v \in Workers : ~InExpiry(v)
  BY <1>1 DEF Calm, Cross
<1>7. Calm' => OneCheckout'
  BY <1>2, <1>6, Moved DEF IInv, OneCheckout, Busy
<1>8. ASSUME Calm', ~issued' PROVE Expiries' /\ Checkouts' /\ Kept'
  <2>1. Checkouts /\ OneCheckout /\ \A v \in Workers : ~InExpiry(v)
    BY <1>1, <1>6, <1>8 DEF IInv
  <2>2. Expiries'
    BY <2>1, <1>2, Moved DEF Expiries, Busy
  <2>3. \A v \in Workers : ~InCheckout(v)'
    BY <2>1, <1>1, <1>2, Moved DEF OneCheckout, Busy
  <2>4. Checkouts'
    BY <2>3 DEF Checkouts, InCheckout
  <2>5. row'.pay = work[w].charge /\ Bills(work[w].charge, row'.total)
    BY <2>1, <1>1, SavedRow DEF Checkouts
  <2> QED
    BY <2>2, <2>4, <2>5, <1>1 DEF Kept, Bills
<1> QED
  BY <1>4, <1>5, <1>7, <1>8 DEF IInv

----------------------------------------------------------------------------
(* Pages and payments: charges change, their amounts do not *)

LEMMA AmountsInv ==
    ASSUME IInv, UNCHANGED <<row, issued, last, work, crossed>>,
           charges' \in [DOMAIN charges -> Charge],
           \A c \in DOMAIN charges : charges'[c].amount = charges[c].amount
    PROVE  IInv'
<1>1. charges \in Seq(Charge) /\ DOMAIN charges = 1..Len(charges) /\ Len(charges) \in Nat
  BY ChargesType DEF IInv, Typed
<1>2. charges' \in Seq(Charge) /\ Len(charges') = Len(charges) /\ DOMAIN charges' = DOMAIN charges
  BY <1>1, SeqDef
<1>3. Typed' /\ Statuses'
  BY <1>2 DEF IInv, Typed, Statuses, InCheckout, InExpiry
<1>4. (OneCheckout => OneCheckout') /\ (Expiries => Expiries') /\ (Calm' => Calm)
  BY DEF OneCheckout, Expiries, InCheckout, InExpiry, Calm
<1>5. (Checkouts => Checkouts') /\ (Kept => Kept')
  BY <1>2 DEF Checkouts, Kept, Bills
<1> QED
  BY <1>3, <1>4, <1>5 DEF IInv

LEMMA ShowInv == ASSUME IInv, Show PROVE IInv'
<1>1. \A c \in DOMAIN charges : charges[c] \in Charge
  BY ChargesType DEF IInv, Typed
<1>2. ASSUME NEW r \in Charge, NEW b \in BOOLEAN
      PROVE  [r EXCEPT !.shown = b] \in Charge /\ [r EXCEPT !.shown = b].amount = r.amount
  BY DEF Charge
<1>3. ASSUME NEW c \in DOMAIN charges
      PROVE  charges'[c] \in Charge /\ charges'[c].amount = charges[c].amount
  <2> DEFINE b == charges[c].shown \/ c = cache
  <2>1. b \in BOOLEAN
    OBVIOUS
  <2>2. charges'[c] = [charges[c] EXCEPT !.shown = b]
    BY DEF Show
  <2> HIDE DEF b
  <2> QED
    BY <1>1, <1>2, <2>1, <2>2
<1>4. charges' \in [DOMAIN charges -> Charge]
  BY <1>3 DEF Show
<1> QED
  BY <1>3, <1>4, AmountsInv DEF Show, order

LEMMA PayInv == ASSUME IInv, NEW c \in DOMAIN charges, Pay(c) PROVE IInv'
<1>1. charges \in [DOMAIN charges -> Charge] /\ \A i \in DOMAIN charges : charges[i] \in Charge
  BY ChargesType DEF IInv, Typed
<1>2. charges' = [charges EXCEPT ![c] = [charges[c] EXCEPT !.state = "paid"]]
  BY DEF Pay
<1>3. [charges[c] EXCEPT !.state = "paid"] \in Charge
      /\ [charges[c] EXCEPT !.state = "paid"].amount = charges[c].amount
  BY <1>1 DEF Charge
<1>5. /\ charges' \in [DOMAIN charges -> Charge]
      /\ \A i \in DOMAIN charges : charges'[i].amount = charges[i].amount
  BY <1>1, <1>2, <1>3
<1> QED
  BY <1>5, AmountsInv DEF Pay, order

----------------------------------------------------------------------------
LEMMA StutterInv == ASSUME IInv, UNCHANGED vars PROVE IInv'
BY UnissuedRow, AwayInv DEF vars, order, IInv, Typed

LEMMA NextInv == ASSUME IInv, [Next]_vars PROVE IInv'
<1>1. ASSUME NEW w \in Workers,
             \/ Checkout(w) \/ ManualCharge(w) \/ Fail(w)
             \/ \E m \in Methods, s \in {"open", "paid"} : CreateCharge(w, m, s)
             \/ Diff(w) \/ Update(w) \/ ReadPaid(w)
      PROVE  IInv'
  BY <1>1, CheckoutInv, ManualChargeInv, FailInv, CreateChargeInv, DiffInv, UpdateInv, ReadPaidInv
<1>2. ASSUME NEW w \in Workers,
             \/ \E c \in DOMAIN charges : Webhook(w, c)
             \/ Claim(w) \/ Confirm(w) \/ ClaimManual(w)
             \/ ReadFresh(w) \/ Expire(w)
             \/ Candidate(w) \/ Fetch(w) \/ Reopen(w) \/ Lookup(w)
      PROVE  IInv'
  BY <1>2, ReadersInv, ClaimInv, ClaimManualInv, ReadFreshInv, ExpireInv, FetchInv, ReopenInv, LookupInv
<1>3. CASE (\E c \in DOMAIN charges : Pay(c)) \/ Show \/ Cancel \/ Lapse \/ Forget \/ Restart
  BY <1>3, PayInv, ShowInv, OthersInv, RestartInv
<1>4. CASE UNCHANGED vars
  BY <1>4, StutterInv
<1> QED
  BY <1>1, <1>2, <1>3, <1>4 DEF Next

LEMMA Invariant == Spec => []IInv
BY InitInv, NextInv, PTL DEF Spec

(* A payment of the charge whose checkout was saved last is not lost        *)
(* (orders.service.ts, checkout, against the webhook, the script and        *)
(* expireIfStale), for any number of requests and charges: the order was    *)
(* confirmed or cancelled, or the webhook or the script still can confirm   *)
(* it.  The exceptions are those LastChargeIsKept names.                    *)
THEOREM LastCharge == Spec => []LastChargeIsKept
BY Invariant, InvGives, PTL

----------------------------------------------------------------------------
(***************************************************************************)
(* Types, what a waiting order bills, and the QR code in the cache.        *)
(*                                                                         *)
(* While nothing but a save has failed (Undisturbed), the payment of the   *)
(* row, of every entity that is to be saved and of every claim is a whole: *)
(* a payment with its method, and the amount of its charge (Exact).  A     *)
(* save that compares and then updates keeps that because nothing the row  *)
(* names has changed in between: a confirmation and an expiry exclude each *)
(* other by the stock, and the rest is what crossed records.               *)
(***************************************************************************)
Undisturbed == crossed \subseteq {"failure"}
Saving == {"save", "update"}
Names == {"pay", "method", "total"}

Known(c) == c \in {NoPay, Manual} \cup DOMAIN charges
Whole(r) == Known(r.pay) /\ (r.pay = NoPay <=> r.method = None)
ExactRow(r) ==
    /\ Whole(r)
    /\ r.status = "PAID" => r.pay # NoPay
    /\ r.status # "PAID" => Bills(r.pay, r.total)
ExactWork(q, r) ==
    /\ q.pc \in Saving \cup {"expire", "expiry"} => Whole(q.snap) /\ Bills(q.snap.pay, q.snap.total)
    /\ q.pc \in Saving => q.snap.pay # NoPay
    /\ q.pc \in {"update", "expiry"} => \A x \in Names : x \in q.dirty \/ r[x] = q.snap[x]
    /\ q.pc = "expiry" => "status" \in q.dirty \/ r.status # "PAID"
    /\ q.pc \in {"claim", "confirm"} => Whole(q.snap) /\ q.snap.pay # NoPay
Exact == ExactRow(row) /\ \A w \in Workers : ExactWork(work[w], row)

(* Whatever has happened. *)
Shape ==
    /\ lapsed \in BOOLEAN /\ manual \in BOOLEAN /\ Known(cache)
    /\ \A w \in Workers : /\ work[w].pc \in Saving => work[w].snap.pay = work[w].charge
                          /\ work[w].pc \in {"fetch", "reopen", "lookup"} => work[w].charge \in Charges
    /\ \A v, w \in Workers : At(v, "expiry") /\ At(w, "expiry") => v = w
    /\ "checkouts" \notin crossed => OneCheckout

(* Unless two checkouts overlapped or the save of one failed. *)
Uncached == crossed \subseteq {"expiry", "overtaken"}
CacheOf(q) ==
    q.pc \in Saving =>
        /\ cache \in {NoPay, q.snap.pay}
        /\ q.pc = "update" /\ cache # NoPay => "pay" \in q.dirty \/ row.pay = q.snap.pay
Cached ==
    /\ \A w \in Workers : CacheOf(work[w])
    /\ (\A w \in Workers : work[w].pc \notin Saving) /\ cache # NoPay => cache = row.pay

JInv == IInv /\ Shape /\ (Undisturbed => Exact) /\ (Uncached => Cached)

LEMMA JGives == JInv => TypeOK /\ TotalMatchesCharge /\ CacheIsOfTheRow
<1> SUFFICES ASSUME JInv PROVE TypeOK /\ TotalMatchesCharge /\ CacheIsOfTheRow
  OBVIOUS
<1>1. TypeOK
  <2>1. /\ charges \in Seq(Charge) /\ DOMAIN charges = 1..Len(charges) /\ Len(charges) \in Nat
        /\ Len(charges) <= MaxCharges /\ \A c \in DOMAIN charges : charges[c] \in Charge
    BY ChargesType DEF JInv, IInv, Typed
  <2>2. DOMAIN charges \subseteq Charges
    BY <2>1, Numbers
  <2>3. ASSUME Undisturbed, row.status = "PAID" PROVE row.pay # NoPay /\ row.method # None
    BY <2>3 DEF JInv, Exact, ExactRow, Whole
  <2>4. \A w \in Workers : work[w] \in Work
    BY DEF JInv, IInv, Typed
  <2>5. \A w \in Workers : /\ work[w].pc \in Pc /\ work[w].charge \in PayIds
                           /\ work[w].snap \in Row /\ work[w].dirty \subseteq Columns
    BY <2>4 DEF Work
  <2> QED
    BY <2>1, <2>2, <2>3, <2>5 DEF TypeOK, JInv, IInv, Typed, Shape, Known, Charge, Undisturbed, Races
<1>2. TotalMatchesCharge
  BY DEF TotalMatchesCharge, JInv, Undisturbed, Exact, ExactRow, Bills
<1>3. CacheIsOfTheRow
  BY DEF CacheIsOfTheRow, JInv, Uncached, Cached, NoCheckout, InCheckout, Saving
<1> QED
  BY <1>1, <1>2, <1>3

LEMMA InitJ == Init => JInv
<1> SUFFICES ASSUME Init PROVE JInv
  OBVIOUS
<1>1. \A w \in Workers : work[w].pc = "idle"
  BY IdleType DEF Init
<1>2. /\ row = NewRow /\ row.pay = NoPay /\ row.method = None /\ row.status = "PENDING"
      /\ charges = <<>> /\ cache = NoPay /\ lapsed = FALSE /\ manual = FALSE
  BY DEF Init, NewRow
<1>3. Shape
  BY <1>1, <1>2 DEF Shape, Known, Saving, At, OneCheckout, InCheckout
<1>4. Exact
  BY <1>1, <1>2 DEF Exact, ExactRow, ExactWork, Whole, Known, Bills, Saving, NoPay
<1>5. Cached
  BY <1>1, <1>2 DEF Cached, CacheOf, Saving
<1> QED
  BY <1>3, <1>4, <1>5, InitInv DEF JInv

(* Charges may be added; what they bill stays. *)
Grown == /\ DOMAIN charges \subseteq DOMAIN charges'
         /\ \A c \in DOMAIN charges : charges'[c].amount = charges[c].amount
         /\ DOMAIN charges' \subseteq Charges

LEMMA SameCharges == ASSUME IInv, charges' = charges PROVE Grown
BY Numbers DEF Grown, IInv, Typed

LEMMA Outside ==
    NoPay \notin Charges /\ Manual \notin Charges /\ NoPay # Manual
BY PaymentsAssumption DEF NoPay, Manual, Charges

LEMMA StaysKnown ==
    ASSUME Grown, NEW c, Known(c)
    PROVE  Known(c)' /\ \A t : Bills(c, t) => Bills(c, t)'
<1>1. Known(c)'
  BY DEF Grown, Known
<1>2. c \in DOMAIN charges' => c \in DOMAIN charges
  BY Outside DEF Grown, Known
<1> QED
  BY <1>1, <1>2 DEF Grown, Bills

LEMMA WholeStays ==
    ASSUME Grown, NEW r, Whole(r)
    PROVE  Whole(r)' /\ (Bills(r.pay, r.total) => Bills(r.pay, r.total)')
<1>1. Known(r.pay)
  BY DEF Whole
<1>2. Known(r.pay)' /\ (Bills(r.pay, r.total) => Bills(r.pay, r.total)')
  BY <1>1, StaysKnown
<1> QED
  BY <1>2 DEF Whole

LEMMA RowStays == ASSUME Grown, ExactRow(row), UNCHANGED row PROVE ExactRow(row)'
BY WholeStays DEF ExactRow, Whole, Bills, Known

LEMMA OthersStay ==
    ASSUME Grown, NEW q, ExactWork(q, row),
           q.pc \in {"update", "expiry"} => \A x \in Names : row'[x] = row[x],
           q.pc = "expiry" /\ row.status # "PAID" => row'.status # "PAID"
    PROVE  ExactWork(q, row)'
<1>1. Whole(q.snap) => Whole(q.snap)' /\ (Bills(q.snap.pay, q.snap.total) => Bills(q.snap.pay, q.snap.total)')
  BY WholeStays
<1> QED
  BY <1>1 DEF ExactWork

(* What a step has to keep, with the requests of W the ones that move. *)
Moving(W) ==
    /\ W \subseteq Workers /\ \A v \in Workers \ W : work'[v] = work[v]
    /\ crossed \subseteq crossed'
KeepsShape(W) ==
    /\ lapsed' \in BOOLEAN /\ manual' \in BOOLEAN /\ Known(cache)'
    /\ \A v \in W :
         /\ work'[v].pc \in Saving => work'[v].snap.pay = work'[v].charge
         /\ work'[v].pc \in {"fetch", "reopen", "lookup"} => work'[v].charge \in Charges
         /\ \A u \in Workers : work'[v].pc = "expiry" /\ work'[u].pc = "expiry" => u = v
         /\ \A u \in Workers : "checkouts" \notin crossed' /\ InCheckout(v)' /\ InCheckout(u)' => u = v
KeepsExact(W) ==
    /\ Undisturbed' => ExactRow(row)' /\ \A v \in W : \A q : q = work'[v] => ExactWork(q, row)'
    /\ Undisturbed' => \A v \in Workers \ W : work[v].pc \in {"update", "expiry"}
                                                => \A x \in Names : row'[x] = row[x]
    /\ \A v \in Workers \ W : work[v].pc = "expiry" /\ row.status # "PAID" => row'.status # "PAID"

LEMMA StepJ ==
    ASSUME JInv, IInv', Grown, NEW W, Moving(W), KeepsShape(W), KeepsExact(W), Uncached' => Cached'
    PROVE  JInv'
<1> USE DEF Moving, KeepsShape, KeepsExact
<1>1. Shape'
  <2>1. \A v, w \in Workers : At(v, "expiry")' /\ At(w, "expiry")' => v = w
    BY DEF JInv, Shape, At
  <2>2. "checkouts" \notin crossed' => OneCheckout'
    BY DEF JInv, Shape, OneCheckout, InCheckout
  <2>3. \A v \in Workers : /\ work'[v].pc \in Saving => work'[v].snap.pay = work'[v].charge
                           /\ work'[v].pc \in {"fetch", "reopen", "lookup"} => work'[v].charge \in Charges
    BY DEF JInv, Shape
  <2> QED
    BY <2>1, <2>2, <2>3 DEF Shape
<1>2. ASSUME Undisturbed' PROVE Exact'
  <2>1. Undisturbed /\ Exact
    BY <1>2 DEF Undisturbed, JInv
  <2>2. ASSUME NEW v \in Workers \ W PROVE ExactWork(work[v], row)'
    <3>1. \A q : q = work[v] => ExactWork(q, row)
      BY <2>1 DEF Exact
    <3>2. \A q : q = work[v] => ExactWork(q, row)'
      BY <3>1, <1>2, OthersStay
    <3> QED
      BY <3>2 DEF ExactWork, Whole, Known, Bills
  <2>3. ASSUME NEW v \in W PROVE ExactWork(work[v], row)'
    <3>1. \A q : q = work'[v] => ExactWork(q, row)'
      BY <1>2
    <3> QED
      BY <3>1 DEF ExactWork, Whole, Known, Bills
  <2> QED
    BY <1>2, <2>2, <2>3 DEF Exact
<1> QED
  BY <1>1, <1>2 DEF JInv

LEMMA Quiet ==
    ASSUME JInv, IInv', Uncached',
           \A v \in Workers : work'[v] = work[v] \/ (work[v].pc \notin Saving /\ work'[v].pc \notin Saving),
           crossed \subseteq crossed',
           (cache' = cache /\ row'.pay = row.pay) \/ cache' = NoPay
    PROVE  Cached'
<1>1. Cached
  BY DEF JInv, Uncached
<1>2. CASE cache' = cache /\ row'.pay = row.pay
  BY <1>1, <1>2 DEF Cached, CacheOf
<1>3. CASE cache' = NoPay
  BY <1>3 DEF Cached, CacheOf
<1> QED
  BY <1>2, <1>3

(* One request goes on to r, and neither the row nor the cache changes. *)
LEMMA TurnJ ==
    ASSUME JInv, IInv', NEW w \in Workers, NEW r \in Work, work' = [work EXCEPT ![w] = r],
           UNCHANGED <<order, charges, cache>>, crossed \subseteq crossed',
           r.pc \notin Saving \cup {"expiry"},
           r.pc \in {"fetch", "reopen", "lookup"} => r.charge \in Charges,
           r.pc = "charge" /\ "checkouts" \notin crossed' => \A v \in Workers : ~InCheckout(v),
           r.pc \in {"expire", "claim", "confirm"} => (Exact => ExactWork(r, row)),
           work[w].pc \in Saving => ~Uncached'
    PROVE  JInv'
<1>1. /\ work'[w] = r /\ \A v \in Workers \ {w} : work'[v] = work[v]
      /\ InCheckout(w)' <=> r.pc = "charge"
      /\ \A v \in Workers : v # w => (InCheckout(v)' <=> InCheckout(v))
  BY Moved DEF JInv, InCheckout, Saving
<1>2. Grown /\ UNCHANGED <<row, lapsed, manual>>
  BY SameCharges DEF JInv, order
<1>3. lapsed' \in BOOLEAN /\ manual' \in BOOLEAN /\ Known(cache)'
  BY <1>2 DEF JInv, Shape, Known
<1>4. Undisturbed' => Undisturbed /\ Exact
  BY DEF Undisturbed, JInv
<1>5. Undisturbed' => ExactRow(row)'
  BY <1>2, <1>4, RowStays DEF Exact
<1>6. Undisturbed' => ExactWork(r, row)'
  <2>1. CASE r.pc \in {"expire", "claim", "confirm"}
    BY <1>2, <1>4, <2>1 DEF ExactWork, Whole, Known, Bills
  <2>2. CASE r.pc \notin {"expire", "claim", "confirm"}
    BY <2>2 DEF ExactWork, Saving
  <2> QED
    BY <2>1, <2>2
<1>7. Uncached' => Cached'
  BY <1>1, <1>2, Quiet DEF Saving
<1>8. Moving({w})
  BY <1>1 DEF Moving
<1>9. KeepsShape({w})
  BY <1>1, <1>3 DEF KeepsShape
<1>10. KeepsExact({w})
  BY <1>1, <1>2, <1>5, <1>6 DEF KeepsExact
<1> QED
  BY <1>2, <1>7, <1>8, <1>9, <1>10, StepJ

LEMMA StartJ ==
    ASSUME JInv, IInv', NEW w \in Workers, NEW pc \in Pc \ (Saving \cup {"expiry"}),
           NEW snap \in Row, NEW c \in PayIds, Start(w, pc, snap, c),
           UNCHANGED <<order, charges, cache>>, crossed \subseteq crossed',
           pc \in {"fetch", "reopen", "lookup"} => c \in Charges,
           pc = "charge" /\ "checkouts" \notin crossed' => \A v \in Workers : ~InCheckout(v),
           pc = "expire" /\ Exact => Whole(snap) /\ Bills(snap.pay, snap.total),
           pc \in {"claim", "confirm"} /\ Exact => Whole(snap) /\ snap.pay # NoPay
    PROVE  JInv'
<1> DEFINE r == [Idle EXCEPT !.pc = pc, !.snap = snap, !.charge = c]
<1>1. r \in Work /\ r.pc = pc /\ r.snap = snap /\ r.charge = c
  BY IdleType DEF Idle, Work
<1>2. work' = [work EXCEPT ![w] = r] /\ work[w].pc = "idle"
  BY DEF Start, At
<1> HIDE DEF r
<1>3. pc \in {"expire", "claim", "confirm"} => (Exact => ExactWork(r, row))
  BY <1>1 DEF ExactWork, Saving
<1> QED
  BY <1>1, <1>2, <1>3, TurnJ DEF Saving

LEMMA GotoJ ==
    ASSUME JInv, IInv', NEW w \in Workers, NEW pc \in {"reopen", "lookup"}, Goto(w, pc),
           work[w].charge \in Charges, work[w].pc \notin Saving,
           UNCHANGED <<order, charges, cache, crossed>>
    PROVE  JInv'
<1> DEFINE r == [Idle EXCEPT !.pc = pc, !.charge = work[w].charge]
<1>1. r \in Work /\ r.pc = pc /\ r.charge = work[w].charge
  BY IdleType DEF Work, Idle, Pc, JInv, IInv, Typed
<1>2. work' = [work EXCEPT ![w] = r]
  BY DEF Goto
<1> HIDE DEF r
<1> QED
  BY <1>1, <1>2, TurnJ DEF Saving

LEMMA FinishJ ==
    ASSUME JInv, IInv', NEW w \in Workers, Finish(w), crossed \subseteq crossed',
           work[w].pc \in Saving => ~Uncached',
           UNCHANGED <<order, charges, cache>>
    PROVE  JInv'
BY IdleType, TurnJ DEF Finish, Saving

(* Payments by which a claim is made. *)
LEMMA PaymentsWhole ==
    ASSUME JInv, Exact
    PROVE  /\ row.pay # NoPay => Whole(AsPix(row)) /\ AsPix(row).pay # NoPay
           /\ row.pay \notin Charges => Whole(ManuallyPaid(row)) /\ ManuallyPaid(row).pay # NoPay
<1>1. row \in Row /\ Whole(row)
  BY DEF JInv, IInv, Typed, Exact, ExactRow
<1>2. None # "PIX" /\ Manual # NoPay
  BY Outside DEF None
<1> QED
  BY <1>1, <1>2 DEF AsPix, ManuallyPaid, Whole, Known, Row

LEMMA ReadersJ ==
    ASSUME JInv, IInv', NEW w \in Workers,
           \/ \E c \in DOMAIN charges : Webhook(w, c)
           \/ Confirm(w) \/ Candidate(w)
    PROVE  JInv'
<1>1. AsPix(row) \in Row /\ ManuallyPaid(row) \in Row /\ row \in Row /\ row.pay \in PayIds
  BY AsPixType, RowType DEF JInv, Row
<1>2. NoPay \in PayIds /\ {"claim", "confirm", "fetch"} \subseteq Pc \ (Saving \cup {"expiry"})
  BY Numbers DEF Pc, Saving
<1>3. CASE \E c \in DOMAIN charges : Webhook(w, c)
  <2>1. row.pay # NoPay
    BY <1>3, Numbers DEF Webhook, Payable, JInv, IInv, Typed
  <2> QED
    BY <1>1, <1>2, <1>3, <2>1, PaymentsWhole, StartJ DEF Webhook
<1>4. CASE Confirm(w)
  BY <1>1, <1>2, <1>4, PaymentsWhole, StartJ DEF Confirm
<1>5. CASE Candidate(w)
  BY <1>1, <1>2, <1>5, StartJ DEF Candidate
<1> QED
  BY <1>3, <1>4, <1>5

LEMMA CheckoutJ == ASSUME JInv, IInv', NEW w \in Workers, Checkout(w) PROVE JInv'
<1>1. row \in Row /\ NoPay \in PayIds /\ "charge" \in Pc \ (Saving \cup {"expiry"})
  BY Numbers, RowType DEF JInv, Pc, Saving
<1>2. /\ crossed \subseteq crossed'
      /\ "checkouts" \notin crossed' => \A v \in Workers : ~InCheckout(v)
  BY DEF Checkout, Cross
<1> QED
  BY <1>1, <1>2, StartJ DEF Checkout

LEMMA ReadFreshJ == ASSUME JInv, IInv', NEW w \in Workers, ReadFresh(w) PROVE JInv'
<1> DEFINE s == [row EXCEPT !.status = "EXPIRED"]
<1>1. row \in Row /\ NoPay \in PayIds /\ "expire" \in Pc \ (Saving \cup {"expiry"})
  BY Numbers, RowType DEF JInv, Pc, Saving
<1>2. s \in Row /\ s.pay = row.pay /\ s.total = row.total /\ s.method = row.method
  BY <1>1 DEF Row
<1>3. Start(w, "expire", s, NoPay) /\ UNCHANGED <<order, charges, cache, crossed>>
      /\ row.status # "PAID"
  BY DEF ReadFresh
<1> HIDE DEF s
<1>4. Exact => Whole(s) /\ Bills(s.pay, s.total)
  BY <1>2, <1>3 DEF Exact, ExactRow, Whole
<1> QED
  BY <1>1, <1>2, <1>3, <1>4, StartJ

Claiming(q, snap) == [[[q EXCEPT !.pc = "claim"] EXCEPT !.snap = snap] EXCEPT !.charge = NoPay]

LEMMA ToClaimJ ==
    ASSUME JInv, IInv', NEW w \in Workers, NEW snap \in Row, work[w].pc \notin Saving,
           work' = [work EXCEPT ![w] = Claiming(work[w], snap)],
           Exact => Whole(snap) /\ snap.pay # NoPay,
           UNCHANGED <<order, charges, cache, crossed>>
    PROVE  JInv'
<1>1. work[w] \in Work /\ work \in [Workers -> Work]
  BY DEF JInv, IInv, Typed
<1> DEFINE r == Claiming(work[w], snap)
<1>2. r \in Work /\ r.pc = "claim" /\ r.snap = snap
  BY <1>1, Numbers DEF Work, Pc, Claiming
<1>3. work' = [work EXCEPT ![w] = r]
  OBVIOUS
<1> HIDE DEF r
<1>4. Exact => ExactWork(r, row)
  BY <1>2 DEF ExactWork, Saving
<1> QED
  BY <1>2, <1>3, <1>4, TurnJ DEF Saving

LEMMA ReadPaidJ == ASSUME JInv, IInv', NEW w \in Workers, ReadPaid(w) PROVE JInv'
<1>1. work[w].pc = "paid" /\ work[w].pc \notin Saving /\ UNCHANGED <<order, charges, cache, crossed>>
  BY DEF ReadPaid, At, Saving
<1>2. CASE Finish(w)
  BY <1>1, <1>2, FinishJ
<1>3. CASE ~Finish(w)
  <2>1. row.method # None /\ row \in Row
    BY <1>3, RowType DEF ReadPaid, JInv
  <2>2. Exact => Whole(row) /\ row.pay # NoPay
    BY <2>1 DEF Exact, ExactRow, Whole
  <2>3. work' = [work EXCEPT ![w].pc = "claim", ![w].snap = row, ![w].charge = NoPay]
    BY <1>3 DEF ReadPaid
  <2>5. work' = [work EXCEPT ![w] = Claiming(work[w], row)]
    BY <2>3 DEF JInv, IInv, Typed, Claiming
  <2> QED
    BY <1>1, <2>1, <2>2, <2>5, ToClaimJ
<1> QED
  BY <1>2, <1>3

LEMMA LookupJ == ASSUME JInv, IInv', NEW w \in Workers, Lookup(w) PROVE JInv'
<1>1. work[w].pc = "lookup" /\ work[w].pc \notin Saving /\ UNCHANGED <<order, charges, cache, crossed>>
  BY DEF Lookup, At, Saving
<1>2. CASE Finish(w)
  BY <1>1, <1>2, FinishJ
<1>3. CASE ~Finish(w)
  <2>1. row.pay = work[w].charge /\ work[w].charge \in Charges
    BY <1>1, <1>3 DEF Lookup, Payable, JInv, Shape
  <2>2. row.pay # NoPay /\ AsPix(row) \in Row
    BY <2>1, Outside, AsPixType, RowType DEF JInv
  <2>3. work' = [work EXCEPT ![w].pc = "claim", ![w].snap = AsPix(row), ![w].charge = NoPay]
    BY <1>3 DEF Lookup
  <2>5. work' = [work EXCEPT ![w] = Claiming(work[w], AsPix(row))]
    BY <2>3 DEF JInv, IInv, Typed, Claiming
  <2>4. Exact => Whole(AsPix(row)) /\ AsPix(row).pay # NoPay
    BY <2>2, PaymentsWhole
  <2> QED
    BY <1>1, <2>2, <2>4, <2>5, ToClaimJ
<1> QED
  BY <1>2, <1>3

LEMMA FetchJ == ASSUME JInv, IInv', NEW w \in Workers, Fetch(w) PROVE JInv'
<1>1. /\ work[w].pc = "fetch" /\ work[w].pc \notin Saving /\ UNCHANGED <<order, charges, cache, crossed>>
      /\ Finish(w) \/ Goto(w, "reopen") \/ Goto(w, "lookup")
  BY DEF Fetch, At, Saving
<1>2. work[w].charge \in Charges
  BY <1>1 DEF JInv, Shape
<1> QED
  BY <1>1, <1>2, FinishJ, GotoJ

LEMMA FailJ == ASSUME JInv, IInv', NEW w \in Workers, Fail(w) PROVE JInv'
<1>1. /\ crossed \subseteq crossed' /\ Finish(w) /\ UNCHANGED <<order, charges, cache>>
      /\ work[w].pc \in Saving => "failure" \in crossed'
  BY DEF Fail, Cross, Saving
<1> QED
  BY <1>1, FinishJ DEF Uncached

----------------------------------------------------------------------------
(* Saves: charges are created, compared and written *)

LEMMA WaitingJ ==
    ASSUME JInv, IInv', NEW w \in Workers, At(w, "charge"), Grown,
           NEW next \in Row, Waiting(w, next), next.pay # NoPay, next.method # None,
           next.pay \in {Manual} \cup DOMAIN charges',
           next.pay \in DOMAIN charges' => next.total = charges'[next.pay].amount
    PROVE  JInv'
<1>1. work[w] \in Work /\ work \in [Workers -> Work] /\ next.pay \in PayIds
  BY DEF JInv, IInv, Typed, Row
<1> DEFINE r == [[[work[w] EXCEPT !.pc = "save"] EXCEPT !.snap = next] EXCEPT !.charge = next.pay]
<1>2. r \in Work /\ r.pc = "save" /\ r.snap = next /\ r.charge = next.pay
  BY <1>1 DEF Work, Pc
<1>3. /\ work' = [work EXCEPT ![w] = r] /\ cache' = next.pay
      /\ UNCHANGED <<row, lapsed, manual, crossed>>
  BY <1>1 DEF Waiting, order
<1> HIDE DEF r
<1>4. /\ work'[w] = r /\ \A v \in Workers \ {w} : work'[v] = work[v]
      /\ InCheckout(w) /\ \A v \in Workers : InCheckout(v)' <=> InCheckout(v)
  BY <1>2, <1>3, Moved DEF JInv, InCheckout, At
<1>5. "checkouts" \notin crossed => \A v \in Workers \ {w} : work[v].pc \notin Saving
  BY <1>4 DEF JInv, Shape, OneCheckout, InCheckout, Saving
<1>6. Undisturbed' => ExactRow(row)' /\ \A q : q = work'[w] => ExactWork(q, row)'
  <2>1. Undisturbed' => ExactRow(row)'
    BY <1>3, RowStays DEF JInv, Undisturbed, Exact
  <2>2. \A q : q = work'[w] => ExactWork(q, row)'
    BY <1>2, <1>4 DEF ExactWork, Whole, Bills, Known, Saving
  <2> QED
    BY <2>1, <2>2
<1>7. Uncached' => Cached'
  <2>1. Uncached' => \A v \in Workers \ {w} : work'[v].pc \notin Saving
    BY <1>3, <1>4, <1>5 DEF Uncached
  <2> QED
    BY <1>2, <1>3, <1>4, <2>1 DEF Cached, CacheOf, Saving
<1>8. Moving({w})
  BY <1>3, <1>4 DEF Moving
<1>9. KeepsShape({w})
  BY <1>2, <1>3, <1>4 DEF KeepsShape, JInv, Shape, OneCheckout, Known
<1>10. KeepsExact({w})
  BY <1>3, <1>4, <1>6 DEF KeepsExact
<1> QED
  BY <1>7, <1>8, <1>9, <1>10, StepJ

LEMMA CreateChargeJ ==
    ASSUME JInv, IInv', NEW w \in Workers, NEW m \in Methods, NEW s \in {"open", "paid"}, CreateCharge(w, m, s)
    PROVE  JInv'
<1> DEFINE c == Len(charges) + 1
           next == Charged(work[w].snap, c, "gateway", m)
<1>1. At(w, "charge") /\ c \in Charges /\ Waiting(w, next)
      /\ charges' = Append(charges, NewCharge(m, s))
  BY DEF CreateCharge
<1>2. work[w].snap \in Row /\ charges \in Seq(Charge) /\ MaxCharges \in Nat
  BY PaymentsAssumption DEF JInv, IInv, Typed, Work
<1>3. c \in PayIds /\ c # NoPay /\ c <= MaxCharges
  BY <1>1, <1>2, Numbers, Outside DEF Charges
<1>4. next \in Row /\ next.pay = c /\ next.total = m /\ next.method = m
  <2>1. next \in Row /\ next.pay = c /\ next.total = m
    BY <1>2, <1>3, ChargedType DEF Total
  <2> QED
    BY <1>2, <2>1 DEF Charged, Row
<1> HIDE DEF next
<1>5. NewCharge(m, s).amount = m /\ m # None /\ NewCharge(m, s) \in Charge
  BY DEF NewCharge, Charge, Methods, None
<1>6. /\ Len(charges') = c /\ DOMAIN charges' = 1..c /\ DOMAIN charges = 1..Len(charges)
      /\ Len(charges) \in Nat /\ charges'[c] = NewCharge(m, s)
      /\ \A i \in DOMAIN charges : charges'[i] = charges[i]
  BY <1>1, <1>2, <1>5
<1>7. c \in DOMAIN charges' /\ DOMAIN charges \subseteq DOMAIN charges'
  BY <1>6
<1> HIDE DEF c
<1>8. DOMAIN charges' \subseteq Charges
  BY Numbers DEF IInv, Typed
<1>9. Grown
  BY <1>6, <1>7, <1>8 DEF Grown
<1>10. next.pay \in DOMAIN charges' /\ next.total = charges'[next.pay].amount
  BY <1>4, <1>5, <1>6, <1>7
<1> QED
  BY <1>1, <1>3, <1>4, <1>5, <1>9, <1>10, WaitingJ

LEMMA ManualChargeJ == ASSUME JInv, IInv', NEW w \in Workers, ManualCharge(w) PROVE JInv'
<1> DEFINE next == Charged(work[w].snap, Manual, "manual", "PIX")
<1>1. At(w, "charge") /\ Waiting(w, next) /\ charges' = charges
  BY DEF ManualCharge
<1>2. work[w].snap \in Row
  BY DEF JInv, IInv, Typed, Work
<1>3. next \in Row /\ next.pay = Manual /\ next.method = "PIX"
  <2>1. next \in Row /\ next.pay = Manual
    BY <1>2, Numbers, ChargedType DEF Methods
  <2> QED
    BY <1>2, <2>1 DEF Charged, Row
<1> HIDE DEF next
<1>4. Grown /\ Manual \notin DOMAIN charges'
  BY <1>1, SameCharges, Outside DEF JInv, Grown
<1>5. next.pay \notin DOMAIN charges' /\ next.pay # NoPay /\ next.method # None
  BY <1>3, <1>4, Outside DEF None
<1> QED
  BY <1>1, <1>3, <1>4, <1>5, WaitingJ

LEMMA DiffJ == ASSUME JInv, IInv', NEW w \in Workers, Diff(w) PROVE JInv'
<1>1. work[w] \in Work /\ work \in [Workers -> Work] /\ row \in Row
  BY DEF JInv, IInv, Typed
<1> DEFINE d == {x \in Columns : work[w].snap[x] # row[x]}
           pc == IF work[w].pc = "save" THEN "update" ELSE "expiry"
           r == [[work[w] EXCEPT !.pc = pc] EXCEPT !.dirty = d]
<1>2. /\ r \in Work /\ r.snap = work[w].snap /\ r.charge = work[w].charge
      /\ r.dirty = d /\ r.pc = pc
  BY <1>1 DEF Work, Pc
<1>3. work' = [work EXCEPT ![w] = r]
  BY <1>1 DEF Diff
<1>4. \A x \in Names \cup {"status"} : x \in d \/ row[x] = work[w].snap[x]
  BY DEF Columns, Names
<1>5. \/ work[w].pc = "save" /\ pc = "update"
      \/ work[w].pc = "expire" /\ pc = "expiry" /\ StockIsFree
  BY DEF Diff, At
<1>6. UNCHANGED <<row, lapsed, manual, charges, cache, crossed>>
  BY DEF Diff, order
<1> HIDE DEF r, d, pc
<1>7. /\ work'[w] = r /\ \A v \in Workers \ {w} : work'[v] = work[v]
      /\ \A v \in Workers : InCheckout(v)' <=> InCheckout(v)
  <2>1. /\ work'[w] = r /\ \A v \in Workers \ {w} : work'[v] = work[v]
        /\ \A v \in Workers : v # w => (InCheckout(v)' <=> InCheckout(v))
        /\ InCheckout(w)' <=> r.pc \in {"charge", "save", "update"}
    BY <1>2, <1>3, Moved DEF JInv
  <2>2. InCheckout(w)' <=> InCheckout(w)
    BY <1>2, <1>5, <2>1 DEF InCheckout
  <2> QED
    BY <2>1, <2>2
<1>8. Grown
  BY <1>6, SameCharges DEF JInv
<1>9. Undisturbed' => ExactRow(row)' /\ \A q : q = work'[w] => ExactWork(q, row)'
  <2> SUFFICES ASSUME Undisturbed' PROVE ExactRow(row)' /\ \A q : q = work'[w] => ExactWork(q, row)'
    OBVIOUS
  <2>1. ExactRow(row) /\ ExactWork(work[w], row)
    BY <1>6 DEF JInv, Undisturbed, Exact
  <2>2. work[w].pc = "expire" => work[w].snap.status # "PAID"
    BY DEF JInv, IInv, Statuses, InExpiry
  <2>3. Whole(r.snap) /\ Bills(r.snap.pay, r.snap.total) /\ (r.pc \in Saving => r.snap.pay # NoPay)
    BY <1>2, <1>5, <2>1 DEF ExactWork, Saving
  <2>4. ExactWork(r, row)
    BY <1>2, <1>4, <1>5, <2>2, <2>3 DEF ExactWork
  <2>5. \A q : q = work'[w] => ExactWork(q, row)
    BY <1>7, <2>4
  <2> QED
    BY <1>6, <2>1, <2>5, <1>8, RowStays DEF ExactWork, Whole, Known, Bills
<1>10. Uncached' => Cached'
  <2> SUFFICES ASSUME Uncached' PROVE Cached'
    OBVIOUS
  <2>1. Cached
    BY <1>6 DEF JInv, Uncached
  <2>2. CacheOf(r)
    BY <1>2, <1>4, <1>5, <2>1 DEF Cached, CacheOf, Saving, Names
  <2>3. \A v \in Workers : work'[v].pc \in Saving <=> work[v].pc \in Saving
    BY <1>2, <1>5, <1>7 DEF Saving
  <2> QED
    BY <1>6, <1>7, <2>1, <2>2, <2>3 DEF Cached, CacheOf
<1>11. Moving({w})
  BY <1>6, <1>7 DEF Moving
<1>12. KeepsShape({w})
  BY <1>2, <1>5, <1>6, <1>7 DEF KeepsShape, JInv, Shape, OneCheckout, StockIsFree, At, Saving, Known
<1>13. KeepsExact({w})
  BY <1>6, <1>7, <1>9 DEF KeepsExact
<1> QED
  BY <1>8, <1>10, <1>11, <1>12, <1>13, StepJ

(* Afterwards the request is idle or has only the number of its charge. *)
Resting(q) == q.pc \in {"idle", "paid", "lookup"} /\ (q.pc = "lookup" => q.charge \in Charges)

LEMMA GoneJ ==
    ASSUME IInv, NEW w \in Workers,
           Finish(w) \/ Goto(w, "paid") \/ (Goto(w, "lookup") /\ work[w].charge \in Charges)
    PROVE  \E r \in Work : Resting(r) /\ work' = [work EXCEPT ![w] = r]
<1>1. CASE Finish(w)
  BY <1>1, IdleType DEF Finish, Resting
<1>2. ASSUME NEW pc \in {"paid", "lookup"}, Goto(w, pc), pc = "lookup" => work[w].charge \in Charges
      PROVE  \E r \in Work : Resting(r) /\ work' = [work EXCEPT ![w] = r]
  <2> DEFINE r == [Idle EXCEPT !.pc = pc, !.charge = work[w].charge]
  <2>1. r \in Work /\ r.pc = pc /\ r.charge = work[w].charge
    BY IdleType DEF Work, Idle, Pc, IInv, Typed
  <2>2. work' = [work EXCEPT ![w] = r] /\ Resting(r)
    BY <1>2, <2>1 DEF Goto, Resting
  <2> QED
    BY <2>1, <2>2
<1> QED
  BY <1>1, <1>2

(* The last step of a request that may write the row. *)
LEMMA EndJ ==
    ASSUME JInv, IInv', NEW w \in Workers,
           Finish(w) \/ Goto(w, "paid") \/ (Goto(w, "lookup") /\ work[w].charge \in Charges),
           UNCHANGED charges, lapsed' \in BOOLEAN, manual' \in BOOLEAN, Known(cache)',
           crossed \subseteq crossed',
           Undisturbed' => ExactRow(row)',
           Undisturbed' => \A v \in Workers \ {w} : work[v].pc \in {"update", "expiry"}
                                                => \A x \in Names : row'[x] = row[x],
           \A v \in Workers \ {w} : work[v].pc = "expiry" /\ row.status # "PAID" => row'.status # "PAID",
           \/ work[w].pc \notin Saving /\ (cache' = NoPay \/ (cache' = cache /\ row'.pay = row.pay))
           \/ Uncached' => Cached'
    PROVE  JInv'
<1>1. PICK r \in Work : Resting(r) /\ work' = [work EXCEPT ![w] = r]
  BY GoneJ DEF JInv
<1>2. /\ work'[w] = r /\ \A v \in Workers \ {w} : work'[v] = work[v] /\ ~InCheckout(w)'
  BY <1>1, Moved DEF JInv, InCheckout, Resting
<1>3. Grown
  BY SameCharges DEF JInv
<1>4. Moving({w})
  BY <1>2 DEF Moving
<1>5. KeepsShape({w})
  <2>1. r.pc \notin Saving \cup {"charge", "expiry", "fetch", "reopen"}
        /\ (r.pc = "lookup" => r.charge \in Charges)
    BY <1>1 DEF Resting, Saving
  <2> QED
    BY <1>2, <2>1 DEF KeepsShape, InCheckout, Saving
<1>6. \A q : q = work'[w] => ExactWork(q, row)'
  BY <1>1, <1>2 DEF ExactWork, Resting, Saving
<1>7. KeepsExact({w})
  BY <1>6 DEF KeepsExact
<1>8. Uncached' => Cached'
  <2> SUFFICES ASSUME work[w].pc \notin Saving, Uncached',
                      cache' = NoPay \/ (cache' = cache /\ row'.pay = row.pay)
               PROVE  Cached'
    OBVIOUS
  <2>1. work'[w].pc \notin Saving
    BY <1>1, <1>2 DEF Resting, Saving
  <2> QED
    BY <1>2, <2>1, Quiet
<1> QED
  BY <1>3, <1>4, <1>5, <1>7, <1>8, StepJ

LEMMA TypesJ ==
    ASSUME JInv
    PROVE  /\ lapsed \in BOOLEAN /\ manual \in BOOLEAN /\ Known(cache) /\ Known(NoPay)
           /\ row \in Row /\ (UNCHANGED charges => (Known(cache) <=> cache \in {NoPay, Manual} \cup DOMAIN charges'))
           /\ \A v, u \in Workers : At(v, "expiry") /\ At(u, "expiry") => v = u
BY DEF JInv, IInv, Typed, Shape, Known

(* A commit of a confirmation or of an expiry either leaves what the row    *)
(* names alone, or is noticed when a checkout has compared already.         *)
LEMMA OvertakeJ ==
    ASSUME Overtake, Undisturbed', NEW v \in Workers, work[v].pc = "update"
    PROVE  \A x \in Names : row'[x] = row[x]
BY DEF Overtake, Cross, Undisturbed, At, Columns, Names

(* The row of a claim is paid, and names what the claim has read. *)
LEMMA ClaimedJ ==
    ASSUME JInv, NEW w \in Workers, row' = Claimed(w), UNCHANGED charges,
           work[w].pc \in {"claim", "confirm"}, Undisturbed
    PROVE  ExactRow(row)'
<1>1. work[w].snap \in Row /\ row \in Row
  BY DEF JInv, IInv, Typed, Work
<1>2. row'.status = "PAID" /\ row'.pay = work[w].snap.pay /\ row'.method = work[w].snap.method
  BY <1>1 DEF Claimed, Row
<1>3. Whole(work[w].snap) /\ work[w].snap.pay # NoPay
  BY DEF JInv, Exact, ExactWork
<1> QED
  BY <1>2, <1>3 DEF ExactRow, Whole, Known

LEMMA ClaimersJ == ASSUME JInv, IInv', NEW w \in Workers, Claim(w) \/ ClaimManual(w) PROVE JInv'
<1>1. /\ Finish(w) /\ UNCHANGED <<charges, lapsed>> /\ work[w].pc \in {"claim", "confirm"}
      /\ work[w].pc \notin Saving /\ StockIsFree /\ Overtake
      /\ (row' = Claimed(w) /\ cache' = NoPay) \/ UNCHANGED <<row, cache>>
  BY DEF Claim, ClaimManual, CacheAfterEnd, At, Saving
<1>2. manual' \in BOOLEAN
  BY TypesJ DEF Claim, ClaimManual
<1>3. lapsed' \in BOOLEAN /\ Known(cache)'
  BY <1>1, TypesJ DEF Known
<1>4. crossed \subseteq crossed' /\ (Undisturbed' => Undisturbed)
  BY <1>1, Overtaking DEF JInv, Undisturbed
<1>5. ASSUME Undisturbed' PROVE ExactRow(row)'
  <2>1. CASE row' = Claimed(w)
    BY <1>1, <1>4, <1>5, <2>1, ClaimedJ
  <2>2. CASE UNCHANGED row
    BY <1>1, <1>4, <1>5, <2>2, SameCharges, RowStays DEF JInv, Exact
  <2> QED
    BY <1>1, <2>1, <2>2
<1>6. \A v \in Workers : work[v].pc # "expiry"
  BY <1>1 DEF StockIsFree, At
<1>7. Undisturbed' => \A v \in Workers \ {w} : work[v].pc \in {"update", "expiry"}
                                                => \A x \in Names : row'[x] = row[x]
  BY <1>1, <1>6, OvertakeJ
<1>8. cache' = NoPay \/ (cache' = cache /\ row'.pay = row.pay)
  BY <1>1
<1> QED
  BY <1>1, <1>2, <1>3, <1>4, <1>5, <1>6, <1>7, <1>8, EndJ

(* The names that a save writes are its entity's. *)
LEMMA SavedJ ==
    ASSUME JInv, NEW w \in Workers, work[w].pc \in {"update", "expiry"}, Undisturbed
    PROVE  \A x \in Names : Saved(w)[x] = work[w].snap[x]
<1>1. \A x \in Names : x \in work[w].dirty \/ row[x] = work[w].snap[x]
  BY DEF JInv, Exact, ExactWork
<1> QED
  BY <1>1, SavedRow DEF JInv, Names, Columns

LEMMA ExpireJ == ASSUME JInv, IInv', NEW w \in Workers, Expire(w) PROVE JInv'
<1>1. /\ Finish(w) /\ UNCHANGED <<charges, lapsed, manual>> /\ work[w].pc = "expiry" /\ At(w, "expiry")
      /\ work[w].pc \notin Saving /\ Overtake /\ row' = Saved(w) /\ cache' = NoPay
  BY DEF Expire, CacheAfterEnd, At, Saving
<1>2. lapsed' \in BOOLEAN /\ manual' \in BOOLEAN /\ Known(cache)'
  BY <1>1, TypesJ DEF Known
<1>3. crossed \subseteq crossed' /\ (Undisturbed' => Undisturbed)
  BY <1>1, Overtaking DEF JInv, Undisturbed
<1>4. \A v \in Workers \ {w} : work[v].pc # "expiry"
  BY <1>1, TypesJ DEF At
<1>5. ASSUME Undisturbed' PROVE ExactRow(row)'
  <2>1. /\ row'.pay = work[w].snap.pay /\ row'.method = work[w].snap.method
        /\ row'.total = work[w].snap.total
    BY <1>1, <1>3, <1>5, SavedJ DEF Names
  <2>2. Whole(work[w].snap) /\ Bills(work[w].snap.pay, work[w].snap.total)
        /\ ("status" \in work[w].dirty \/ row.status # "PAID")
    BY <1>1, <1>3, <1>5 DEF JInv, Exact, ExactWork
  <2>3. work[w].snap.status = "EXPIRED"
    BY <1>1 DEF JInv, IInv, Statuses, InExpiry
  <2>4. Saved(w).status = IF "status" \in work[w].dirty THEN work[w].snap.status ELSE row.status
    BY SavedRow DEF JInv, Columns
  <2>5. row'.status # "PAID"
    BY <1>1, <2>2, <2>3, <2>4
  <2> QED
    BY <1>1, <2>1, <2>2, <2>5 DEF ExactRow, Whole, Known, Bills
<1>6. Undisturbed' => \A v \in Workers \ {w} : work[v].pc \in {"update", "expiry"}
                                                => \A x \in Names : row'[x] = row[x]
  BY <1>1, <1>4, OvertakeJ
<1> QED
  BY <1>1, <1>2, <1>3, <1>4, <1>5, <1>6, EndJ

LEMMA UpdateJ == ASSUME JInv, IInv', NEW w \in Workers, Update(w) PROVE JInv'
<1>1. /\ Finish(w) \/ Goto(w, "paid")
      /\ UNCHANGED <<charges, lapsed, manual, cache>> /\ work[w].pc = "update" /\ InCheckout(w)
      /\ row' = Saved(w) /\ Cross("expiry", \E v \in Workers : InExpiry(v))
  BY DEF Update, At, InCheckout
<1>2. lapsed' \in BOOLEAN /\ manual' \in BOOLEAN /\ Known(cache)'
  BY <1>1, TypesJ DEF Known
<1>3. crossed \subseteq crossed' /\ (Undisturbed' => Undisturbed)
  BY <1>1, Crossing DEF JInv, Undisturbed, Races
<1>4. "checkouts" \notin crossed => \A v \in Workers \ {w} : ~InCheckout(v)
  BY <1>1 DEF JInv, Shape, OneCheckout
<1>5. ASSUME Undisturbed' PROVE ExactRow(row)'
  <2>1. /\ row'.pay = work[w].snap.pay /\ row'.method = work[w].snap.method
        /\ row'.total = work[w].snap.total
    BY <1>1, <1>3, <1>5, SavedJ DEF Names
  <2>2. Whole(work[w].snap) /\ Bills(work[w].snap.pay, work[w].snap.total) /\ work[w].snap.pay # NoPay
    BY <1>1, <1>3, <1>5 DEF JInv, Exact, ExactWork, Saving
  <2> QED
    BY <1>1, <2>1, <2>2 DEF ExactRow, Whole, Known, Bills
<1>6. ASSUME Undisturbed', NEW v \in Workers \ {w} PROVE work[v].pc \notin {"update", "expiry"}
  <2>1. ~InExpiry(v)
    BY <1>1, <1>6 DEF Undisturbed, Cross
  <2>2. ~InCheckout(v)
    BY <1>3, <1>4, <1>6 DEF Undisturbed
  <2> QED
    BY <2>1, <2>2 DEF InExpiry, InCheckout
<1>7. row.status # "PAID" => row'.status # "PAID"
  <2>1. work[w].snap.status = "PENDING"
    BY <1>1 DEF JInv, IInv, Statuses
  <2> QED
    BY <1>1, <2>1, SavedRow DEF JInv
<1>8. ASSUME Uncached' PROVE Cached'
  <2>1. Uncached /\ Cached /\ CacheOf(work[w])
    BY <1>3, <1>8 DEF Uncached, JInv, Cached
  <2>2. cache # NoPay => cache = work[w].snap.pay /\ ("pay" \in work[w].dirty \/ row.pay = work[w].snap.pay)
    BY <1>1, <2>1 DEF CacheOf, Saving
  <2>3. cache # NoPay => cache = row'.pay
    BY <1>1, <2>2, SavedRow DEF JInv
  <2>4. \A v \in Workers : work'[v].pc \notin Saving
    <3>1. PICK r \in Work : Resting(r) /\ work' = [work EXCEPT ![w] = r]
      BY <1>1, GoneJ DEF JInv
    <3>2. work'[w] = r /\ \A v \in Workers \ {w} : work'[v] = work[v]
      BY <3>1, Moved DEF JInv
    <3> QED
      BY <1>4, <2>1, <3>1, <3>2 DEF Uncached, Resting, Saving, InCheckout
  <2> QED
    BY <1>1, <2>3, <2>4 DEF Cached, CacheOf
<1> QED
  BY <1>1, <1>2, <1>3, <1>5, <1>6, <1>7, <1>8, EndJ

LEMMA ReopenJ == ASSUME JInv, IInv', NEW w \in Workers, Reopen(w) PROVE JInv'
<1>1. /\ Finish(w) \/ Goto(w, "lookup")
      /\ charges' = charges /\ UNCHANGED <<manual, cache, crossed>>
      /\ work[w].pc = "reopen" /\ work[w].pc \notin Saving
      /\ row' = row \/ (row.status = "EXPIRED" /\ row' = [row EXCEPT !.status = "PENDING"])
      /\ lapsed' \in {lapsed, FALSE}
  BY DEF Reopen, At, Saving
<1>2. /\ row'.pay = row.pay /\ row'.total = row.total /\ row'.method = row.method
      /\ row'.status = row.status \/ (row.status = "EXPIRED" /\ row'.status = "PENDING")
  BY <1>1, TypesJ DEF Row
<1>3. /\ lapsed' \in BOOLEAN /\ manual' \in BOOLEAN /\ Known(cache)'
      /\ Goto(w, "lookup") => work[w].charge \in Charges
  BY <1>1, TypesJ DEF Known, JInv, Shape
<1>4. Undisturbed' => ExactRow(row)'
  BY <1>1, <1>2 DEF JInv, Undisturbed, Exact, ExactRow, Whole, Known, Bills
<1>5. /\ \A x \in Names : row'[x] = row[x]
      /\ row.status # "PAID" => row'.status # "PAID"
  BY <1>2 DEF Names
<1> QED
  BY <1>1, <1>2, <1>3, <1>4, <1>5, EndJ

(* No request moves. *)
LEMMA StillJ ==
    ASSUME JInv, IInv', UNCHANGED <<work, crossed>>, Grown,
           lapsed' \in BOOLEAN, manual' \in BOOLEAN,
           row'.pay = row.pay, row'.total = row.total, row'.method = row.method,
           row'.status = row.status \/ (StockIsFree /\ row.status # "PAID" /\ row'.status # "PAID"),
           cache' \in {NoPay, cache}
    PROVE  JInv'
<1>1. Known(cache)' /\ \A v \in Workers : work'[v] = work[v]
  <2>1. Known(NoPay)' /\ Known(cache)
    BY DEF Known, JInv, Shape
  <2> QED
    BY <2>1 DEF Known, Grown
<1>2. Undisturbed' => ExactRow(row)'
  <2> SUFFICES ASSUME Undisturbed PROVE ExactRow(row)'
    BY DEF Undisturbed
  <2>1. ExactRow(row) /\ Whole(row)
    BY DEF JInv, Exact, ExactRow
  <2>2. Whole(row)' /\ (Bills(row.pay, row.total) => Bills(row.pay, row.total)')
    <3>1. \A r : r = row => Whole(r)' /\ (Bills(r.pay, r.total) => Bills(r.pay, r.total)')
      BY <2>1, WholeStays
    <3> QED
      BY <3>1 DEF Whole, Known, Bills
  <2> QED
    BY <2>1, <2>2 DEF ExactRow, Bills
<1>3. Uncached' => Cached'
  BY <1>1, Quiet
<1>4. Moving({}) /\ KeepsShape({})
  BY <1>1 DEF Moving, KeepsShape
<1>5. KeepsExact({})
  BY <1>2 DEF KeepsExact, Names, StockIsFree, At
<1> QED
  BY <1>3, <1>4, <1>5, StepJ

LEMMA OthersJ == ASSUME JInv, IInv', Cancel \/ Lapse \/ Forget PROVE JInv'
<1>1. /\ UNCHANGED <<work, crossed>> /\ charges' = charges
      /\ lapsed' \in {lapsed, TRUE} /\ manual' = manual /\ cache' \in {NoPay, cache}
      /\ row' = row \/ (StockIsFree /\ row.status = "PENDING" /\ row' = [row EXCEPT !.status = "CANCELLED"])
  BY DEF Cancel, Lapse, Forget, order
<1>2. /\ row'.pay = row.pay /\ row'.total = row.total /\ row'.method = row.method
      /\ row'.status = row.status \/ (StockIsFree /\ row.status = "PENDING" /\ row'.status = "CANCELLED")
  BY <1>1, TypesJ DEF Row
<1>3. Grown /\ lapsed' \in BOOLEAN /\ manual' \in BOOLEAN
  BY <1>1, SameCharges, TypesJ DEF JInv
<1> QED
  BY <1>1, <1>2, <1>3, StillJ

LEMMA PaysJ ==
    ASSUME JInv, IInv', Show \/ \E c \in DOMAIN charges : Pay(c) PROVE JInv'
<1>1. DOMAIN charges' = DOMAIN charges /\ \A c \in DOMAIN charges : charges'[c].amount = charges[c].amount
  <2>1. charges \in [DOMAIN charges -> Charge] /\ \A i \in DOMAIN charges : charges[i] \in Charge
    BY ChargesType DEF JInv, IInv, Typed
  <2>2. ASSUME NEW r \in Charge, NEW b
        PROVE  [r EXCEPT !.shown = b].amount = r.amount /\ [r EXCEPT !.state = b].amount = r.amount
    BY DEF Charge
  <2>3. CASE Show
    <3>1. ASSUME NEW c \in DOMAIN charges PROVE charges'[c].amount = charges[c].amount
      <4> DEFINE b == charges[c].shown \/ c = cache
      <4>1. charges'[c] = [charges[c] EXCEPT !.shown = b]
        BY <2>3 DEF Show
      <4> HIDE DEF b
      <4> QED
        BY <2>1, <2>2, <4>1
    <3> QED
      BY <2>3, <3>1 DEF Show
  <2>4. ASSUME NEW c \in DOMAIN charges, Pay(c)
        PROVE  DOMAIN charges' = DOMAIN charges /\ \A i \in DOMAIN charges : charges'[i].amount = charges[i].amount
    <3>1. charges' = [charges EXCEPT ![c] = [charges[c] EXCEPT !.state = "paid"]]
      BY <2>4 DEF Pay
    <3> QED
      BY <2>1, <2>2, <3>1
  <2> QED
    BY <2>3, <2>4
<1>2. UNCHANGED <<work, crossed, row, lapsed, manual, cache>>
  BY DEF Show, Pay, order
<1>3. Grown /\ lapsed' \in BOOLEAN /\ manual' \in BOOLEAN
  BY <1>1, <1>2, TypesJ, Numbers DEF Grown, IInv, Typed
<1> QED
  BY <1>2, <1>3, StillJ

LEMMA RestartJ == ASSUME JInv, IInv', Restart PROVE JInv'
<1>1. /\ \A v \in Workers : work'[v].pc = "idle"
      /\ cache' = NoPay /\ UNCHANGED <<row, lapsed, manual>> /\ charges' = charges
  BY IdleType DEF Restart, order
<1>2. crossed \subseteq crossed' /\ (Undisturbed' => Undisturbed)
  BY Crossing DEF Restart, JInv, Undisturbed, Races
<1>3. Undisturbed' => ExactRow(row)'
  BY <1>1, <1>2, SameCharges, RowStays DEF JInv, Exact
<1>4. Moving(Workers)
  BY <1>2 DEF Moving
<1>5. KeepsShape(Workers)
  BY <1>1, TypesJ DEF KeepsShape, InCheckout, Known, Saving
<1>6. \A v \in Workers : \A q : q = work'[v] => ExactWork(q, row)'
  BY <1>1 DEF ExactWork, Saving
<1>7. KeepsExact(Workers)
  BY <1>3, <1>6 DEF KeepsExact
<1>8. Uncached' => Cached'
  BY <1>1 DEF Cached, CacheOf, Saving
<1>9. Grown
  BY <1>1, SameCharges DEF JInv
<1> QED
  BY <1>4, <1>5, <1>7, <1>8, <1>9, StepJ

LEMMA StutterJ == ASSUME JInv, IInv', UNCHANGED vars PROVE JInv'
<1>1. UNCHANGED <<work, crossed, row, lapsed, manual, cache>> /\ charges' = charges
  BY DEF vars, order
<1>2. Grown /\ lapsed' \in BOOLEAN /\ manual' \in BOOLEAN
  BY <1>1, SameCharges, TypesJ DEF JInv
<1> QED
  BY <1>1, <1>2, StillJ

LEMMA NextJ == ASSUME JInv, [Next]_vars PROVE JInv'
<1>0. IInv'
  BY NextInv DEF JInv
<1>1. ASSUME NEW w \in Workers,
             \/ Checkout(w) \/ ManualCharge(w) \/ Fail(w)
             \/ \E m \in Methods, s \in {"open", "paid"} : CreateCharge(w, m, s)
             \/ Diff(w) \/ Update(w) \/ ReadPaid(w)
      PROVE  JInv'
  BY <1>0, <1>1, CheckoutJ, ManualChargeJ, FailJ, CreateChargeJ, DiffJ, UpdateJ, ReadPaidJ
<1>2. ASSUME NEW w \in Workers,
             \/ \E c \in DOMAIN charges : Webhook(w, c)
             \/ Claim(w) \/ Confirm(w) \/ ClaimManual(w)
             \/ ReadFresh(w) \/ Expire(w)
             \/ Candidate(w) \/ Fetch(w) \/ Reopen(w) \/ Lookup(w)
      PROVE  JInv'
  BY <1>0, <1>2, ReadersJ, ClaimersJ, ReadFreshJ, ExpireJ, FetchJ, ReopenJ, LookupJ
<1>3. CASE (\E c \in DOMAIN charges : Pay(c)) \/ Show \/ Cancel \/ Lapse \/ Forget \/ Restart
  BY <1>0, <1>3, PaysJ, OthersJ, RestartJ
<1>4. CASE UNCHANGED vars
  BY <1>0, <1>4, StutterJ
<1> QED
  BY <1>1, <1>2, <1>3, <1>4 DEF Next

LEMMA InvariantJ == Spec => []JInv
BY InitJ, NextJ, PTL DEF Spec

(* The order, its charges, the cache and the requests have their types, and *)
(* a PAID order names a payment and a method unless two checkouts, a        *)
(* checkout and an expiry, or a save and a confirmation crossed             *)
(* (orders.service.ts, checkout, markOrderPaid, expireIfStale).             *)
THEOREM TypeCorrect == Spec => []TypeOK
BY InvariantJ, JGives, PTL

(* An order that waits for a payment bills what the charge it names bills   *)
(* (checkout against markPaidByPaymentId), with the exceptions that         *)
(* TotalMatchesCharge names, for any number of requests and charges.        *)
THEOREM TotalsMatch == Spec => []TotalMatchesCharge
BY InvariantJ, JGives, PTL

(* The QR code in paymentCache is the one of the charge the order names     *)
(* when no checkout is under way (checkout, markOrderPaid, expireIfStale),  *)
(* with the exceptions that CacheIsOfTheRow names.                          *)
THEOREM CacheFollows == Spec => []CacheIsOfTheRow
BY InvariantJ, JGives, PTL
=============================================================================
