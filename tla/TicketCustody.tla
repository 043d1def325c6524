---------------------------- MODULE TicketCustody ----------------------------
(***************************************************************************)
(* Who holds a seat's ticket, who has its codes, and who has entered with  *)
(* it: transfer in tickets.service.ts; validateTicket, portariaManifest    *)
(* and the offline batch of producer.service.ts; the mails, the pages and  *)
(* the WhatsApp messages that carry a QR code or the short code, either of *)
(* which the gate accepts.  A transfer or a validation is one transaction  *)
(* that takes the ticket row FOR UPDATE, decides on what it then reads,    *)
(* writes, and commits or rolls back; concurrent ones wait for the row.    *)
(*                                                                         *)
(* The gate application is a client outside this repository.  It is        *)
(* modelled from the endpoints it is given: it downloads the manifest,     *)
(* accepts tickets of it while offline, and sends its scans until a batch  *)
(* answer reaches it, so a scan may be sent again after a lost answer.     *)
(***************************************************************************)
EXTENDS Integers

CONSTANTS
    Seats,      \* what markOrderPaid issued one ticket each for
    Tickets,    \* ticket ids: the issued ones and ids for transferred copies
    Issued,     \* [Seats -> Tickets], the ticket issued for the seat
    Users, Workers, Gates, Events,
    EventOf,    \* [Seats -> Events]
    GateEvent,  \* [Gates -> Events], the event a gate works for
    MayAdmit,   \* [Gates -> SUBSET Events], those of its user's producer, or all
    Buyer,      \* [Seats -> Users], the user of the seat's order
    Attendee,   \* [Seats -> Users], whom the order names for the seat, or NoOne
    NoOne, NoTicket, NoSeat

ASSUME IssuedAssumption ==
    /\ Issued \in [Seats -> Tickets]
    /\ \A s, r \in Seats : s # r => Issued[s] # Issued[r]
    /\ EventOf \in [Seats -> Events] /\ GateEvent \in [Gates -> Events]
    /\ MayAdmit \in [Gates -> SUBSET Events]
    /\ Buyer \in [Seats -> Users]
    /\ Attendee \in [Seats -> Users \cup {NoOne}]
ASSUME NamesAssumption ==
    /\ NoSeat \notin Seats /\ NoTicket \notin Tickets
    /\ NoOne \notin Users /\ NoOne \notin Workers

Status == {"NONE", "VALID", "USED", "TRANSFERRED"}
UsedAt == {"none", "now", "past"}      \* set by the server or by the device
Marks  == {"past", "future"}           \* the device's clock against the server's
(* A person is also the address of that person's mail.                      *)
Row == [status: Status, owner: Users \cup {NoOne}, named: Users \cup {NoOne},
        seat: Seats \cup {NoSeat}, usedAt: UsedAt]
Tx  == [pc: {"idle", "lock", "commit"}, op: {"none", "transfer", "validate", "sync"},
        id: Tickets \cup {NoTicket}, copy: Tickets \cup {NoTicket},
        from: Users \cup {NoOne}, to: Users \cup {NoOne},
        mark: Marks, events: SUBSET Events]

VARIABLES
    ticket,     \* committed rows
    shown,      \* who has the codes of a ticket that is still VALID (history)
    texted,     \* VALID tickets given away whose code the buyer got again (history)
    holder,     \* the worker that holds a ticket row FOR UPDATE
    tx,         \* what each worker is doing
    accepted,   \* ok answers given for a ticket (history)
    manifest,   \* per gate: the tickets VALID when it downloaded the manifest
    scans       \* per gate: scans to report

vars == <<ticket, shown, texted, holder, tx, accepted, manifest, scans>>

Idle == [pc |-> "idle", op |-> "none", id |-> NoTicket, from |-> NoOne, to |-> NoOne,
         copy |-> NoTicket, mark |-> "past", events |-> {}]
Unissued == [status |-> "NONE", owner |-> NoOne, named |-> NoOne, seat |-> NoSeat,
             usedAt |-> "none"]

TypeOK ==
    /\ ticket \in [Tickets -> Row]
    /\ shown \in [Tickets -> SUBSET Users]
    /\ texted \in SUBSET Tickets
    /\ holder \in [Tickets -> Workers \cup {NoOne}]
    /\ tx \in [Workers -> Tx]
    /\ accepted \in [Tickets -> Nat]
    /\ manifest \in [Gates -> SUBSET Tickets]
    /\ scans \in [Gates -> SUBSET (Tickets \X Marks)]

SeatOf(t) == CHOOSE s \in Seats : Issued[s] = t
Valid(s, u, n) == [status |-> "VALID", owner |-> u, named |-> n, seat |-> s, usedAt |-> "none"]

Init ==
    /\ ticket = [t \in Tickets |-> IF \E s \in Seats : Issued[s] = t
                                   THEN Valid(SeatOf(t), Buyer[SeatOf(t)], Attendee[SeatOf(t)])
                                   ELSE Unissued]
    /\ shown = [t \in Tickets |-> {}]
    /\ texted = {}
    /\ holder = [t \in Tickets |-> NoOne]
    /\ tx = [w \in Workers |-> Idle]
    /\ accepted = [t \in Tickets |-> 0]
    /\ manifest = [g \in Gates |-> {}]
    /\ scans = [g \in Gates |-> {}]

----------------------------------------------------------------------------
(* The request arrives *)

Start(w, t) ==
    /\ tx[w].pc = "idle"
    /\ tx' = [tx EXCEPT ![w] = t]
    /\ UNCHANGED <<ticket, shown, texted, holder, accepted, manifest, scans>>

BeginTransfer(w, u, id, v) ==
    /\ v # u
    /\ Start(w, [Idle EXCEPT !.pc = "lock", !.op = "transfer", !.id = id,
                             !.from = u, !.to = v])
BeginValidate(w, g, id) ==
    Start(w, [Idle EXCEPT !.pc = "lock", !.op = "validate", !.id = id, !.events = MayAdmit[g]])
BeginSync(w, g, id, mark) ==
    /\ <<id, mark>> \in scans[g]
    /\ Start(w, [Idle EXCEPT !.pc = "lock", !.op = "sync", !.id = id, !.mark = mark,
                             !.events = {GateEvent[g]}])

(* What the locked row must say. *)
TransferableOwn(t, row) == row.owner = t.from   \* variant: without the status
Transferable(t, row) == row.owner = t.from /\ row.status = "VALID"
AdmissibleAgain(t, row) ==   \* variant: no test for USED
    EventOf[row.seat] \in t.events /\ row.status \in {"VALID", "USED"}
Admissible(t, row) == EventOf[row.seat] \in t.events /\ row.status = "VALID"
Eligible(t, row) ==
    /\ row.status # "NONE"
    /\ IF t.op = "transfer" THEN Transferable(t, row) ELSE Admissible(t, row)

(* A new id, which no row and no open transaction has.                      *)
Fresh(id) == ticket[id].status = "NONE" /\ \A v \in Workers : tx[v].copy # id

UnlockedAlways(id) == holder[id] \in Workers \cup {NoOne}   \* variant: no FOR UPDATE
Unlocked(id) == holder[id] = NoOne

(* SELECT ... FOR UPDATE, then the checks; a refusal ends the transaction.  *)
LockTicket(w) ==
    LET t == tx[w] IN
    /\ t.pc = "lock" /\ Unlocked(t.id)
    /\ IF Eligible(t, ticket[t.id])
       THEN /\ holder' = [holder EXCEPT ![t.id] = w]
            /\ IF t.op = "transfer"
               THEN \E id \in Tickets : /\ Fresh(id)
                                        /\ tx' = [tx EXCEPT ![w].pc = "commit", ![w].copy = id]
               ELSE tx' = [tx EXCEPT ![w].pc = "commit"]
       ELSE tx' = [tx EXCEPT ![w] = Idle] /\ UNCHANGED holder
    /\ UNCHANGED <<ticket, shown, texted, accepted, manifest, scans>>

ClampedAsSent(mark) == mark   \* variant: the device's clock is trusted
(* clampValidatedAt: a future device clock becomes the server's.            *)
Clamped(mark) == IF mark = "future" THEN "now" ELSE mark

(* The rows an operation writes. *)
Moved(t) ==
    [ticket EXCEPT ![t.id].status = "TRANSFERRED",
                   ![t.copy] = Valid(ticket[t.id].seat, t.to, t.to)]
Used(t) ==
    [ticket EXCEPT ![t.id].status = "USED",
                   ![t.id].usedAt = IF t.op = "sync" THEN Clamped(t.mark) ELSE "now"]

Commit(w) ==
    LET t == tx[w] IN
    /\ t.pc = "commit"
    /\ ticket' = IF t.op = "transfer" THEN Moved(t) ELSE Used(t)
    /\ accepted' = IF t.op = "transfer" THEN accepted ELSE [accepted EXCEPT ![t.id] = @ + 1]
    /\ shown' = [shown EXCEPT ![t.id] = {}]   \* its codes open nothing any more
    /\ texted' = texted \ {t.id}
    /\ holder' = [holder EXCEPT ![t.id] = NoOne]
    /\ tx' = [tx EXCEPT ![w] = Idle]
    /\ UNCHANGED <<manifest, scans>>

(* An exception, a lost connection or a crash before the commit.            *)
Rollback(w) ==
    LET t == tx[w] IN
    /\ t.pc # "idle"
    /\ holder' = IF t.pc = "commit" THEN [holder EXCEPT ![t.id] = NoOne] ELSE holder
    /\ tx' = [tx EXCEPT ![w] = Idle]
    /\ UNCHANGED <<ticket, shown, texted, accepted, manifest, scans>>

----------------------------------------------------------------------------
(* The codes reach people *)

(* Who gets the codes of which ticket; one that opens nothing is not kept.  *)
WithShown(gets) ==
    [t \in Tickets |-> IF ticket[t].status = "VALID" THEN shown[t] \cup gets[t] ELSE shown[t]]
Show(gets) ==
    /\ shown' = WithShown(gets)
    /\ UNCHANGED <<ticket, holder, tx, accepted, manifest, scans>>

DestinationBuyer(t) == Buyer[ticket[t].seat]   \* variant: the order's tickets to its buyer
(* The named holder, if that is somebody else than the buyer of the order.  *)
Destination(t) ==
    IF ticket[t].named \notin {NoOne, Buyer[ticket[t].seat]}
    THEN ticket[t].named ELSE Buyer[ticket[t].seat]

(* The tickets are mailed with their QR codes, one mail per destination,    *)
(* and their short codes and links are sent to the buyer on WhatsApp, if    *)
(* there is a phone.  Any of these may fail.  What a message says does not  *)
(* change after it was read, so one that leaves late is sent at once.       *)
Deliver(tickets, mailed, phoned) ==
    Show([t \in Tickets |->
            IF t \in tickets
            THEN ({Destination(t)} \cap mailed) \cup (IF phoned THEN {Buyer[ticket[t].seat]} ELSE {})
            ELSE {}])
Destinations(tickets) == {Destination(t) : t \in tickets}
DistributeTicketEmails(tickets) ==
    \E mailed \in SUBSET Destinations(tickets) :
        Deliver(tickets, mailed, FALSE) /\ UNCHANGED texted

TicketsOf(s) == {t \in Tickets : ticket[t].status # "NONE" /\ ticket[t].seat = s}

(* What the order's buyer gave away and opens the gate for somebody else.   *)
Given(t) == ticket[t].status = "VALID" /\ ticket[t].owner # Buyer[ticket[t].seat]

(* The tickets a payment has issued.                                        *)
RunPaidSideEffects(s) ==
    \E mailed \in SUBSET Destinations({Issued[s]}), phoned \in BOOLEAN :
        Deliver({Issued[s]}, mailed, phoned) /\ UNCHANGED texted
(* sell groups what it has issued by destination in code of its own.        *)
SendSoldTickets(s) == DistributeTicketEmails({Issued[s]})
(* All tickets of the order, whatever became of them: the mails go to the   *)
(* holders, the WhatsApp to the buyer.                                      *)
ResendTicketsForOrder(s) ==
    \E mailed \in SUBSET Destinations(TicketsOf(s)), phoned \in BOOLEAN :
        /\ Deliver(TicketsOf(s), mailed, phoned)
        /\ texted' = IF phoned THEN texted \cup {t \in TicketsOf(s) : Given(t)} ELSE texted
(* The script for a buyer: one of the paid orders, here any; mails only.    *)
ResendToBuyer(u) == \E s \in Seats : Buyer[s] = u /\ DistributeTicketEmails(TicketsOf(s))

(* The recipient of a transfer is told after its commit, if nothing fails.  *)
NotifyRecipient(t) ==
    /\ ticket[t].status # "NONE" /\ \A s \in Seats : Issued[s] # t
    /\ Show([r \in Tickets |-> IF r = t THEN {ticket[t].named} ELSE {}])
    /\ UNCHANGED texted

(* My tickets, of one status or of all but TRANSFERRED.                     *)
ListTickets(u, filter) ==
    Show([t \in Tickets |->
            IF /\ ticket[t].owner = u
               /\ IF filter = "NONE" THEN ticket[t].status # "TRANSFERRED"
                                     ELSE ticket[t].status = filter
            THEN {u} ELSE {}])
    /\ UNCHANGED texted
FindTicket(u, t) ==
    /\ ticket[t].owner = u
    /\ Show([r \in Tickets |-> IF r = t THEN {u} ELSE {}])
    /\ UNCHANGED texted

----------------------------------------------------------------------------
(* The gate application *)

LoadManifest(g) ==
    /\ manifest' = [manifest EXCEPT ![g] =
         {t \in Tickets : ticket[t].status = "VALID" /\ EventOf[ticket[t].seat] = GateEvent[g]}]
    /\ UNCHANGED <<ticket, shown, texted, holder, tx, accepted, scans>>
ScanOffline(g, t, mark) ==
    /\ t \in manifest[g]
    /\ \A m \in Marks : <<t, m>> \notin scans[g]
    /\ scans' = [scans EXCEPT ![g] = @ \cup {<<t, mark>>}]
    /\ UNCHANGED <<ticket, shown, texted, holder, tx, accepted, manifest>>
(* A batch answer arrived: the gate keeps neither the scan nor the ticket.  *)
Acknowledge(g, t, mark) ==
    /\ <<t, mark>> \in scans[g] /\ ticket[t].status # "VALID"
    /\ scans' = [scans EXCEPT ![g] = @ \ {<<t, mark>>}]
    /\ manifest' = [manifest EXCEPT ![g] = @ \ {t}]
    /\ UNCHANGED <<ticket, shown, texted, holder, tx, accepted>>

Next ==
    \/ \E w \in Workers :
          \/ LockTicket(w) \/ Commit(w) \/ Rollback(w)
          \/ \E id \in Tickets :
                \/ \E u, v \in Users : BeginTransfer(w, u, id, v)
                \/ \E g \in Gates : \/ BeginValidate(w, g, id)
                                    \/ \E m \in Marks : BeginSync(w, g, id, m)
    \/ \E s \in Seats : RunPaidSideEffects(s) \/ SendSoldTickets(s) \/ ResendTicketsForOrder(s)
    \/ \E t \in Tickets : NotifyRecipient(t)
    \/ \E u \in Users :
          \/ ResendToBuyer(u)
          \/ \E filter \in Status : ListTickets(u, filter)
          \/ \E t \in Tickets : FindTicket(u, t)
    \/ \E g \in Gates :
          \/ LoadManifest(g)
          \/ \E t \in Tickets, m \in Marks : ScanOffline(g, t, m) \/ Acknowledge(g, t, m)

Spec == Init /\ [][Next]_vars

----------------------------------------------------------------------------
(* Properties *)

Live(t) == ticket[t].status \in {"VALID", "USED"}

(* A seat has exactly one ticket that opens the gate or has opened it: a    *)
(* transfer never leaves two, nor none, whatever runs beside it or fails.   *)
OneTicketPerSeat ==
    \A s \in Seats :
        /\ \E t \in Tickets : Live(t) /\ ticket[t].seat = s
        /\ \A t, u \in Tickets : Live(t) /\ Live(u) /\ ticket[t].seat = s /\ ticket[u].seat = s
                                    => t = u

(* The server answers ok at most once for a seat, over all gates, transfers *)
(* and repeated batches.                                                    *)
SeatEnteredOnce ==
    \A t, u \in Tickets :
        accepted[t] > 0 /\ accepted[u] > 0 /\ ticket[t].seat = ticket[u].seat
            => t = u /\ accepted[t] = 1

(* A used or transferred ticket keeps its status, owner and usedAt: a batch *)
(* sent again or a late transfer does not rewrite the record of the entry.  *)
SpentIsFinal ==
    [][\A t \in Tickets : ticket[t].status \in {"USED", "TRANSFERRED"}
                             => ticket'[t] = ticket[t]]_vars

Holders(t) == {ticket[t].owner} \cup {Attendee[s] : s \in {r \in Seats : Issued[r] = t}}

(* What opens the gate for a ticket is with its owner, for a ticket nobody  *)
(* transferred also with the attendee its order names, and with one more:   *)
(* the buyer of the order, once a WhatsApp sent again listed this very      *)
(* ticket.  So who gave a ticket away has no code that opens, not by any    *)
(* mail, page or later resend, until the order's tickets, of which the copy *)
(* is one, are sent again to a buyer with a phone.                          *)
CodesStayWithHolder ==
    \A t \in Tickets :
        ticket[t].status = "VALID"
            => shown[t] \subseteq Holders(t) \cup
                    (IF t \in texted THEN {Buyer[ticket[t].seat]} ELSE {})
=============================================================================
