------------------------ MODULE TicketCustodyProofs ------------------------
(***************************************************************************)
(* One ticket per seat and one entry per seat, for any number of seats,    *)
(* transfers, gates and concurrent requests.  The argument is the row      *)
(* lock: whoever is about to commit holds its ticket, so what it read is   *)
(* still true when its writes are published.  That the codes stay with the *)
(* holder rests on who a row says the holder is: of an issued ticket the   *)
(* buyer and the attendee, of a copy its owner.                            *)
(***************************************************************************)
EXTENDS TicketCustody, TLAPS

Committing(w) == tx[w].pc = "commit"

(* A row is locked by the worker about to commit a change of it, and by it. *)
LockInv ==
    \A w \in Workers :
        Committing(w) => /\ tx[w].id \in Tickets /\ holder[tx[w].id] = w
                         /\ ticket[tx[w].id].status = "VALID"
                         /\ tx[w].op \in {"transfer", "validate", "sync"}

(* The copy a transfer is about to insert is new, and only its own.         *)
CopyInv ==
    \A w \in Workers :
        Committing(w) /\ tx[w].op = "transfer"
            => /\ tx[w].copy \in Tickets /\ ticket[tx[w].copy].status = "NONE"
               /\ tx[w].to \in Users
               /\ \A v \in Workers : Committing(v) /\ tx[v].copy = tx[w].copy => v = w

(* A worker that holds nothing yet has no copy, and a started one a ticket. *)
StartedInv ==
    \A w \in Workers :
        /\ tx[w].pc = "lock" => /\ tx[w].id \in Tickets /\ tx[w].copy = NoTicket
                                /\ tx[w].op \in {"transfer", "validate", "sync"}
                                /\ tx[w].op = "transfer" => tx[w].to \in Users
        /\ Committing(w) /\ tx[w].op # "transfer" => tx[w].copy = NoTicket

(* Rows that exist belong to a seat.                                        *)
SeatInv == \A t \in Tickets : ticket[t].status # "NONE" => ticket[t].seat \in Seats

(* An ok answer was given for exactly the used tickets, once.               *)
AnswerInv ==
    \A t \in Tickets : accepted[t] = IF ticket[t].status = "USED" THEN 1 ELSE 0

(* Whose ticket it is: an issued one is the order's, a copy its owner's.    *)
IsCopy(t) == \A s \in Seats : Issued[s] # t
HeldInv ==
    /\ \A s \in Seats : LET row == ticket[Issued[s]]
                       IN  /\ row.status # "NONE" /\ row.seat = s
                           /\ row.owner = Buyer[s] /\ row.named = Attendee[s]
    /\ \A t \in Tickets : ticket[t].status # "NONE" /\ IsCopy(t)
                             => ticket[t].named = ticket[t].owner /\ ticket[t].owner \in Users

(* The codes of a ticket that does not exist yet are with nobody.           *)
ShownInv ==
    /\ \A t \in Tickets : ticket[t].status = "NONE" => shown[t] = {}
    /\ CodesStayWithHolder

Inv == /\ TypeOK /\ LockInv /\ CopyInv /\ StartedInv
       /\ SeatInv /\ AnswerInv /\ OneTicketPerSeat
       /\ HeldInv /\ ShownInv

-----------------------------------------------------------------------------
LEMMA InitInv == Init => Inv
  <1> SUFFICES ASSUME Init PROVE Inv
    OBVIOUS
  <1>1. ticket = [t \in Tickets |-> IF \E s \in Seats : Issued[s] = t
                                    THEN Valid(SeatOf(t), Buyer[SeatOf(t)], Attendee[SeatOf(t)])
                                    ELSE Unissued]
    BY DEF Init
  <1>2. ASSUME NEW s \in Seats
        PROVE  /\ Issued[s] \in Tickets /\ ticket[Issued[s]] \in Row
               /\ ticket[Issued[s]].status = "VALID" /\ ticket[Issued[s]].seat = s
               /\ ticket[Issued[s]].owner = Buyer[s] /\ ticket[Issued[s]].named = Attendee[s]
    <2>1. Issued[s] \in Tickets
      BY IssuedAssumption
    <2>2. SeatOf(Issued[s]) = s
      <3>1. \E r \in Seats : Issued[r] = Issued[s]
        OBVIOUS
      <3>2. SeatOf(Issued[s]) \in Seats /\ Issued[SeatOf(Issued[s])] = Issued[s]
        BY <3>1 DEF SeatOf
      <3> QED
        BY <3>2, IssuedAssumption
    <2> DEFINE new == Valid(s, Buyer[s], Attendee[s])
    <2>3. ticket[Issued[s]] = new
      BY <1>1, <2>1, <2>2
    <2>4. /\ new \in Row /\ new.status = "VALID" /\ new.seat = s
          /\ new.owner = Buyer[s] /\ new.named = Attendee[s]
      BY IssuedAssumption DEF Valid, Row, Status, UsedAt
    <2> QED
      BY <2>1, <2>3, <2>4
  <1>3. ASSUME NEW t \in Tickets, \A s \in Seats : Issued[s] # t
        PROVE  ticket[t] = Unissued
    BY <1>1, <1>3
  <1>4. \A t \in Tickets : ticket[t] \in Row
    <2> SUFFICES ASSUME NEW t \in Tickets PROVE ticket[t] \in Row
      OBVIOUS
    <2>1. CASE \E s \in Seats : Issued[s] = t
      BY <1>2, <2>1
    <2>2. CASE \A s \in Seats : Issued[s] # t
      <3>1. Unissued \in Row
        BY DEF Row, Status, UsedAt, Unissued
      <3> QED
        BY <1>3, <2>2, <3>1
    <2> QED
      BY <2>1, <2>2
  <1>5. TypeOK
    <2>1. ticket \in [Tickets -> Row]
      BY <1>1, <1>4
    <2>2. Idle \in Tx
      BY DEF Idle, Tx, Marks
    <2>3. /\ holder \in [Tickets -> Workers \cup {NoOne}] /\ tx \in [Workers -> Tx]
          /\ accepted \in [Tickets -> Nat] /\ shown \in [Tickets -> SUBSET Users]
          /\ texted \in SUBSET Tickets
      BY <2>2 DEF Init
    <2>4. manifest \in [Gates -> SUBSET Tickets] /\ scans \in [Gates -> SUBSET (Tickets \X Marks)]
      BY DEF Init
    <2> QED
      BY <2>1, <2>3, <2>4 DEF TypeOK
  <1>6. LockInv /\ CopyInv /\ StartedInv
    BY DEF Init, Idle, LockInv, CopyInv, StartedInv, Committing
  <1>7. \A t \in Tickets : ticket[t].status # "NONE"
           => \E s \in Seats : t = Issued[s] /\ ticket[t].seat = s /\ ticket[t].status = "VALID"
    BY <1>2, <1>3 DEF Unissued
  <1>8. SeatInv
    BY <1>7 DEF SeatInv
  <1>9. AnswerInv
    BY <1>7 DEF Init, AnswerInv
  <1>10. OneTicketPerSeat
    <2>1. \A s \in Seats : Live(Issued[s]) /\ ticket[Issued[s]].seat = s
      BY <1>2 DEF Live
    <2>2. \A t \in Tickets : Live(t) => t = Issued[ticket[t].seat]
      BY <1>7 DEF Live
    <2>3. \A s \in Seats : Issued[s] \in Tickets
      BY IssuedAssumption
    <2> QED
      BY <2>1, <2>2, <2>3 DEF OneTicketPerSeat
  <1>11. HeldInv
    BY <1>2, <1>3 DEF HeldInv, IsCopy, Unissued
  <1>12. ShownInv
    BY DEF Init, ShownInv, CodesStayWithHolder
  <1> QED
    BY <1>5, <1>6, <1>8, <1>9, <1>10, <1>11, <1>12 DEF Inv

(* A step that leaves the committed rows and the answers alone.             *)
RowsKept == UNCHANGED <<ticket, accepted>>

LEMMA RowsKeptInv ==
    ASSUME Inv, RowsKept PROVE SeatInv' /\ AnswerInv' /\ OneTicketPerSeat' /\ HeldInv'
  <1>1. SeatInv' /\ AnswerInv' /\ OneTicketPerSeat'
    BY DEF Inv, RowsKept, SeatInv, AnswerInv, OneTicketPerSeat, Live
  <1>2. HeldInv'
    BY DEF Inv, RowsKept, HeldInv
  <1> QED
    BY <1>1, <1>2

LEMMA ShownKept == ASSUME Inv, UNCHANGED <<ticket, shown, texted>> PROVE ShownInv'
  BY DEF Inv, ShownInv, CodesStayWithHolder, Holders

LEMMA GateKeeps ==
    ASSUME Inv, UNCHANGED <<ticket, holder, tx, accepted>>, TypeOK', ShownInv' PROVE Inv'
  <1>1. SeatInv' /\ AnswerInv' /\ OneTicketPerSeat' /\ HeldInv'
    BY RowsKeptInv DEF RowsKept
  <1>2. LockInv' /\ CopyInv' /\ StartedInv'
    BY DEF Inv, LockInv, CopyInv, StartedInv, Committing
  <1> QED
    BY <1>1, <1>2 DEF Inv

(* A new request: the worker has a ticket to ask for and no copy.           *)
LEMMA StartKeeps ==
    ASSUME Inv, NEW w \in Workers, NEW t \in Tx, Start(w, t),
           t.pc = "lock", t.id \in Tickets, t.copy = NoTicket,
           t.op \in {"transfer", "validate", "sync"}, t.op = "transfer" => t.to \in Users
    PROVE  Inv'
  <1>1. tx' = [tx EXCEPT ![w] = t] /\ tx \in [Workers -> Tx]
    BY DEF Inv, TypeOK, Start
  <1>2. tx'[w] = t /\ \A v \in Workers : v # w => tx'[v] = tx[v]
    BY <1>1
  <1>3. TypeOK'
    BY <1>1 DEF Inv, TypeOK, Start
  <1>4. LockInv' /\ CopyInv' /\ StartedInv'
    BY <1>2 DEF Inv, Start, LockInv, CopyInv, StartedInv, Committing
  <1>5. SeatInv' /\ AnswerInv' /\ OneTicketPerSeat' /\ HeldInv' /\ ShownInv'
    BY RowsKeptInv, ShownKept DEF RowsKept, Start
  <1> QED
    BY <1>3, <1>4, <1>5 DEF Inv

(* A worker leaves its transaction without an effect.                       *)
LEMMA LeaveKeeps ==
    ASSUME Inv, NEW w \in Workers, tx' = [tx EXCEPT ![w] = Idle],
           UNCHANGED <<ticket, shown, texted, accepted, manifest, scans>>,
           holder' = IF Committing(w) THEN [holder EXCEPT ![tx[w].id] = NoOne] ELSE holder
    PROVE  Inv'
  <1>1. Idle \in Tx /\ Idle.pc = "idle" /\ Idle.copy = NoTicket
    BY DEF Idle, Tx, Marks
  <1>2. tx'[w] = Idle /\ \A v \in Workers : v # w => tx'[v] = tx[v]
    BY DEF Inv, TypeOK
  <1>3. TypeOK'
    BY <1>1 DEF Inv, TypeOK
  <1>4. \A v \in Workers : v # w /\ Committing(v) => holder'[tx[v].id] = holder[tx[v].id]
    BY DEF Inv, LockInv, TypeOK
  <1>5. LockInv' /\ CopyInv' /\ StartedInv'
    BY <1>1, <1>2, <1>4 DEF Inv, LockInv, CopyInv, StartedInv, Committing
  <1>6. SeatInv' /\ AnswerInv' /\ OneTicketPerSeat' /\ HeldInv' /\ ShownInv'
    BY RowsKeptInv, ShownKept DEF RowsKept
  <1> QED
    BY <1>3, <1>5, <1>6 DEF Inv

(* The lock: nobody else is about to commit this ticket, and the checks     *)
(* that were just made stay true until the commit.                          *)
LEMMA LockTicketKeeps == ASSUME Inv, NEW w \in Workers, LockTicket(w) PROVE Inv'
  <1> DEFINE t == tx[w]
  <1>1. /\ t \in Tx /\ t.id \in Tickets /\ t.copy = NoTicket
        /\ t.op \in {"transfer", "validate", "sync"}
        /\ t.op = "transfer" => t.to \in Users
        /\ ~Committing(w) /\ holder[t.id] = NoOne
    BY DEF Inv, TypeOK, StartedInv, LockTicket, Unlocked, Committing
  <1>2. CASE ~Eligible(t, ticket[t.id])
    BY <1>1, <1>2, LeaveKeeps DEF LockTicket
  <1>3. CASE Eligible(t, ticket[t.id])
    <2>1. /\ holder' = [holder EXCEPT ![t.id] = w]
          /\ UNCHANGED <<ticket, shown, texted, accepted, manifest, scans>>
          /\ ticket[t.id].status = "VALID"
      BY <1>3 DEF LockTicket, Eligible, Transferable, Admissible
    <2>2. PICK copy \in Tickets \cup {NoTicket} :
            /\ tx' = [tx EXCEPT ![w] = [t EXCEPT !.pc = "commit", !.copy = copy]]
            /\ IF t.op = "transfer" THEN copy \in Tickets /\ Fresh(copy) ELSE copy = NoTicket
      <3>1. CASE t.op = "transfer"
        <4>1. PICK id \in Tickets : /\ Fresh(id)
                                    /\ tx' = [tx EXCEPT ![w].pc = "commit", ![w].copy = id]
          BY <1>3, <3>1 DEF LockTicket
        <4>2. tx' = [tx EXCEPT ![w] = [t EXCEPT !.pc = "commit", !.copy = id]]
          BY <4>1 DEF Inv, TypeOK, Tx
        <4> QED
          BY <3>1, <4>1, <4>2
      <3>2. CASE t.op # "transfer"
        <4>1. tx' = [tx EXCEPT ![w].pc = "commit"]
          BY <1>3, <3>2 DEF LockTicket
        <4>2. tx' = [tx EXCEPT ![w] = [t EXCEPT !.pc = "commit", !.copy = NoTicket]]
          BY <1>1, <4>1 DEF Inv, TypeOK, Tx
        <4> QED
          BY <3>2, <4>2
      <3> QED
        BY <3>1, <3>2
    <2> DEFINE n == [t EXCEPT !.pc = "commit", !.copy = copy]
    <2>3. /\ n \in Tx /\ n.pc = "commit" /\ n.copy = copy
          /\ n.id = t.id /\ n.op = t.op /\ n.to = t.to
      BY <1>1 DEF Tx
    <2>4. tx'[w] = n /\ \A v \in Workers : v # w => tx'[v] = tx[v]
      BY <2>2 DEF Inv, TypeOK
    <2>5. TypeOK'
      <3>1. tx' \in [Workers -> Tx]
        BY <2>2, <2>3 DEF Inv, TypeOK
      <3>2. holder' \in [Tickets -> Workers \cup {NoOne}]
        BY <2>1 DEF Inv, TypeOK
      <3> QED
        BY <2>1, <3>1, <3>2 DEF Inv, TypeOK
    <2>6. \A v \in Workers : v # w /\ Committing(v)
             => tx[v].id # t.id /\ holder'[tx[v].id] = v
      <3> SUFFICES ASSUME NEW v \in Workers, v # w, Committing(v)
                   PROVE  tx[v].id # t.id /\ holder'[tx[v].id] = v
        OBVIOUS
      <3>1. tx[v].id \in Tickets /\ holder[tx[v].id] = v
        BY DEF Inv, LockInv
      <3>2. tx[v].id # t.id
        BY <1>1, <3>1, NamesAssumption
      <3> QED
        BY <2>1, <3>1, <3>2 DEF Inv, TypeOK
    <2>7. LockInv'
      <3> SUFFICES ASSUME NEW v \in Workers, Committing(v)'
                   PROVE  /\ tx'[v].id \in Tickets /\ holder'[tx'[v].id] = v
                          /\ ticket'[tx'[v].id].status = "VALID"
                          /\ tx'[v].op \in {"transfer", "validate", "sync"}
        BY DEF LockInv
      <3>1. CASE v = w
        BY <1>1, <2>1, <2>3, <2>4, <3>1 DEF Inv, TypeOK
      <3>2. CASE v # w
        <4>1. tx'[v] = tx[v] /\ Committing(v)
          BY <2>4, <3>2 DEF Committing
        <4> QED
          BY <2>1, <2>6, <3>2, <4>1 DEF Inv, LockInv
      <3> QED
        BY <3>1, <3>2
    <2>8. CopyInv'
      <3> SUFFICES ASSUME NEW v \in Workers, Committing(v)', tx'[v].op = "transfer"
                   PROVE  /\ tx'[v].copy \in Tickets /\ ticket[tx'[v].copy].status = "NONE"
                          /\ tx'[v].to \in Users
                          /\ \A u \in Workers : Committing(u)' /\ tx'[u].copy = tx'[v].copy
                                                   => u = v
        BY <2>1 DEF CopyInv
      <3>1. CASE v = w
        <4>1. copy \in Tickets /\ Fresh(copy)
          BY <2>2, <2>3, <2>4, <3>1
        <4> QED
          BY <1>1, <2>3, <2>4, <3>1, <4>1 DEF Fresh
      <3>2. CASE v # w
        <4>1. tx'[v] = tx[v] /\ Committing(v) /\ tx[v].op = "transfer"
          BY <2>4, <3>2 DEF Committing
        <4>2. tx[v].copy \in Tickets
          BY <4>1 DEF Inv, CopyInv
        <4>3. copy # tx[v].copy
          BY <2>2, <4>2, NamesAssumption DEF Fresh
        <4>4. ticket[tx[v].copy].status = "NONE" /\ tx[v].to \in Users
          BY <4>1 DEF Inv, CopyInv
        <4>5. ASSUME NEW u \in Workers, Committing(u)', tx'[u].copy = tx'[v].copy
              PROVE  u = v
          <5>1. u # w
            BY <2>3, <2>4, <4>1, <4>3, <4>5
          <5>2. Committing(u) /\ tx[u].copy = tx[v].copy
            BY <2>4, <4>1, <4>5, <5>1 DEF Committing
          <5> QED
            BY <4>1, <5>2 DEF Inv, CopyInv
        <4> QED
          BY <4>1, <4>2, <4>4, <4>5
      <3> QED
        BY <3>1, <3>2
    <2>9. StartedInv'
      BY <2>2, <2>3, <2>4 DEF Inv, StartedInv, Committing
    <2>10. SeatInv' /\ AnswerInv' /\ OneTicketPerSeat' /\ HeldInv' /\ ShownInv'
      BY <2>1, RowsKeptInv, ShownKept DEF RowsKept
    <2> QED
      BY <2>5, <2>7, <2>8, <2>9, <2>10 DEF Inv
  <1> QED
    BY <1>2, <1>3

(* Other workers about to commit neither hold nor insert what this commit   *)
(* writes.                                                                  *)
LEMMA CommitApart ==
    ASSUME Inv, NEW w \in Workers, Committing(w), NEW v \in Workers, Committing(v), v # w
    PROVE  /\ tx[v].id # tx[w].id
           /\ tx[v].op = "transfer" => tx[v].copy # tx[w].id /\ tx[v].copy # tx[w].copy
           /\ tx[w].op = "transfer" => tx[w].copy # tx[v].id
  BY DEF Inv, LockInv, CopyInv

LEMMA CommitKeeps == ASSUME Inv, NEW w \in Workers, Commit(w) PROVE Inv'
  <1> DEFINE t == tx[w]
             seat == ticket[t.id].seat
  <1>1. /\ Committing(w) /\ t \in Tx /\ t.id \in Tickets
        /\ ticket[t.id].status = "VALID" /\ ticket[t.id] \in Row /\ seat \in Seats
        /\ t.op \in {"transfer", "validate", "sync"}
    BY DEF Inv, TypeOK, LockInv, SeatInv, Commit, Committing
  <1>2. /\ holder' = [holder EXCEPT ![t.id] = NoOne] /\ tx' = [tx EXCEPT ![w] = Idle]
        /\ shown' = [shown EXCEPT ![t.id] = {}] /\ texted' = texted \ {t.id}
        /\ UNCHANGED <<manifest, scans>>
    BY DEF Commit
  <1>3. Idle \in Tx /\ Idle.pc = "idle" /\ Idle.copy = NoTicket
    BY DEF Idle, Tx, Marks
  <1>4. tx'[w] = Idle /\ \A v \in Workers : v # w => tx'[v] = tx[v]
    BY <1>2 DEF Inv, TypeOK
  <1>5. \A v \in Workers : v # w /\ Committing(v) => holder'[tx[v].id] = v
    BY <1>1, <1>2, CommitApart DEF Inv, LockInv, TypeOK
  <1>6. StartedInv'
    BY <1>3, <1>4 DEF Inv, StartedInv, Committing
  <1>7. CASE t.op = "transfer"
    <2> DEFINE copy == t.copy
               new == Valid(seat, t.to, t.to)
    <2>1. /\ copy \in Tickets /\ copy # t.id /\ t.to \in Users
          /\ ticket[copy].status = "NONE"
      BY <1>1, <1>7 DEF Inv, CopyInv
    <2>2. ticket' = [ticket EXCEPT ![t.id].status = "TRANSFERRED", ![copy] = new]
      BY <1>7 DEF Commit, Moved
    <2>3. /\ new \in Row /\ new.status = "VALID" /\ new.seat = seat
          /\ new.owner = t.to /\ new.named = t.to
      BY <1>1, <2>1 DEF Valid, Row, Status, UsedAt
    <2>4. /\ ticket'[t.id] = [ticket[t.id] EXCEPT !.status = "TRANSFERRED"]
          /\ ticket'[copy] = new
          /\ \A u \in Tickets : u # t.id /\ u # copy => ticket'[u] = ticket[u]
      BY <1>1, <2>1, <2>2 DEF Inv, TypeOK
    <2>5. /\ ticket'[t.id] \in Row /\ ticket'[t.id].status = "TRANSFERRED"
          /\ ticket'[t.id].seat = seat
          /\ ticket'[t.id].owner = ticket[t.id].owner /\ ticket'[t.id].named = ticket[t.id].named
      BY <1>1, <2>4 DEF Row, Status
    <2>6. accepted' = accepted
      BY <1>7 DEF Commit
    <2>7. TypeOK'
      <3>1. ticket' \in [Tickets -> Row]
        <4>1. \A u \in Tickets : ticket'[u] \in Row
          BY <2>3, <2>4, <2>5 DEF Inv, TypeOK
        <4>2. ticket' = [u \in Tickets |-> ticket'[u]]
          BY <2>2 DEF Inv, TypeOK
        <4> QED
          BY <4>1, <4>2
      <3>2. holder' \in [Tickets -> Workers \cup {NoOne}] /\ tx' \in [Workers -> Tx]
        BY <1>2, <1>3 DEF Inv, TypeOK
      <3>3. shown' \in [Tickets -> SUBSET Users]
        BY <1>1, <1>2 DEF Inv, TypeOK
      <3> QED
        BY <1>2, <2>6, <3>1, <3>2, <3>3 DEF Inv, TypeOK
    <2>8. \A v \in Workers : v # w /\ Committing(v)
             => /\ ticket'[tx[v].id] = ticket[tx[v].id]
                /\ tx[v].op = "transfer" => ticket'[tx[v].copy] = ticket[tx[v].copy]
      BY <1>1, <1>7, <2>4, CommitApart DEF Inv, LockInv, CopyInv
    <2>9. LockInv' /\ CopyInv'
      BY <1>3, <1>4, <1>5, <2>8 DEF Inv, LockInv, CopyInv, Committing
    <2>10. SeatInv'
      BY <1>1, <2>3, <2>4, <2>5 DEF Inv, SeatInv
    <2>11. AnswerInv'
      BY <1>1, <2>1, <2>3, <2>4, <2>5, <2>6 DEF Inv, AnswerInv
    <2>12. OneTicketPerSeat'
      <3>1. \A u \in Tickets : Live(u)' => \/ u = copy /\ ticket'[u].seat = seat
                                           \/ u # copy /\ u # t.id /\ Live(u)
                                              /\ ticket'[u].seat = ticket[u].seat
        BY <2>3, <2>4, <2>5 DEF Live
      <3>2. Live(t.id) /\ ticket[t.id].seat = seat
        BY <1>1 DEF Live
      <3>3. \A u \in Tickets : Live(u) /\ ticket[u].seat = seat => u = t.id
        BY <1>1, <3>2 DEF Inv, OneTicketPerSeat
      <3>4. \E u \in Tickets : Live(u)' /\ ticket'[u].seat = seat
        BY <2>1, <2>3, <2>4 DEF Live
      <3>5. \A u \in Tickets : Live(u) /\ u # t.id => Live(u)' /\ ticket'[u] = ticket[u]
        BY <2>1, <2>4 DEF Live
      <3> SUFFICES ASSUME NEW s \in Seats
                   PROVE  /\ \E u \in Tickets : Live(u)' /\ ticket'[u].seat = s
                          /\ \A u, v \in Tickets :
                               Live(u)' /\ Live(v)' /\ ticket'[u].seat = s
                                  /\ ticket'[v].seat = s => u = v
        BY DEF OneTicketPerSeat
      <3>6. CASE s = seat
        <4>1. \A u \in Tickets : Live(u)' /\ ticket'[u].seat = s => u = copy
          BY <3>1, <3>3, <3>6
        <4> QED
          BY <3>4, <3>6, <4>1
      <3>7. CASE s # seat
        <4>1. PICK u \in Tickets : Live(u) /\ ticket[u].seat = s
          BY DEF Inv, OneTicketPerSeat
        <4>2. Live(u)' /\ ticket'[u].seat = s
          BY <3>2, <3>5, <3>7, <4>1
        <4>3. \A v, x \in Tickets : Live(v)' /\ Live(x)' /\ ticket'[v].seat = s
                                       /\ ticket'[x].seat = s => v = x
          BY <3>1, <3>7 DEF Inv, OneTicketPerSeat
        <4> QED
          BY <4>2, <4>3
      <3> QED
        BY <3>6, <3>7
    <2>13. HeldInv'
      <3>1. ASSUME NEW s \in Seats
            PROVE  /\ ticket'[Issued[s]].status # "NONE" /\ ticket'[Issued[s]].seat = s
                   /\ ticket'[Issued[s]].owner = Buyer[s]
                   /\ ticket'[Issued[s]].named = Attendee[s]
        <4>1. /\ Issued[s] \in Tickets /\ Issued[s] # copy
              /\ ticket[Issued[s]].status # "NONE" /\ ticket[Issued[s]].seat = s
              /\ ticket[Issued[s]].owner = Buyer[s] /\ ticket[Issued[s]].named = Attendee[s]
          BY <2>1, IssuedAssumption DEF Inv, HeldInv
        <4> QED
          BY <2>4, <2>5, <4>1
      <3>2. ASSUME NEW u \in Tickets, ticket'[u].status # "NONE", IsCopy(u)
            PROVE  ticket'[u].named = ticket'[u].owner /\ ticket'[u].owner \in Users
        <4>1. CASE u = copy
          BY <2>1, <2>3, <2>4, <4>1
        <4>2. CASE u # copy
          <5>1. /\ ticket'[u].owner = ticket[u].owner /\ ticket'[u].named = ticket[u].named
                /\ ticket[u].status # "NONE"
            BY <1>1, <2>4, <2>5, <3>2, <4>2
          <5> QED
            BY <3>2, <5>1 DEF Inv, HeldInv
        <4> QED
          BY <4>1, <4>2
      <3> QED
        BY <3>1, <3>2 DEF HeldInv, IsCopy
    <2>14. ShownInv'
      <3>1. shown'[copy] = {} /\ shown'[t.id] = {}
        BY <1>1, <1>2, <2>1 DEF Inv, TypeOK, ShownInv
      <3>2. ASSUME NEW u \in Tickets, u # copy, u # t.id
            PROVE  /\ shown'[u] = shown[u] /\ ticket'[u] = ticket[u]
                   /\ u \in texted' <=> u \in texted
        BY <1>2, <2>4, <3>2 DEF Inv, TypeOK
      <3>3. \A u \in Tickets : ticket'[u].status = "NONE" => shown'[u] = {}
        BY <3>1, <3>2 DEF Inv, ShownInv
      <3>4. CodesStayWithHolder'
        BY <3>1, <3>2 DEF Inv, ShownInv, CodesStayWithHolder, Holders
      <3> QED
        BY <3>3, <3>4 DEF ShownInv
    <2> QED
      BY <1>6, <2>7, <2>9, <2>10, <2>11, <2>12, <2>13, <2>14 DEF Inv
  <1>8. CASE t.op # "transfer"
    <2>1. PICK at \in UsedAt :
            ticket' = [ticket EXCEPT ![t.id] = [ticket[t.id] EXCEPT !.status = "USED",
                                                                   !.usedAt = at]]
      <3>1. (IF t.op = "sync" THEN Clamped(t.mark) ELSE "now") \in UsedAt
        BY <1>1 DEF Clamped, UsedAt, Tx, Marks
      <3>2. ticket' = Used(t)
        BY <1>8 DEF Commit
      <3> QED
        BY <1>1, <3>1, <3>2 DEF Used, Inv, TypeOK
    <2>2. /\ ticket'[t.id] \in Row /\ ticket'[t.id].status = "USED"
          /\ ticket'[t.id].seat = seat
          /\ ticket'[t.id].owner = ticket[t.id].owner /\ ticket'[t.id].named = ticket[t.id].named
          /\ \A u \in Tickets : u # t.id => ticket'[u] = ticket[u]
      BY <1>1, <2>1 DEF Inv, TypeOK, Row, Status
    <2>3. accepted' = [accepted EXCEPT ![t.id] = @ + 1]
      BY <1>8 DEF Commit
    <2>4. TypeOK'
      <3>1. ticket' \in [Tickets -> Row]
        <4>1. \A u \in Tickets : ticket'[u] \in Row
          BY <2>2 DEF Inv, TypeOK
        <4> QED
          BY <2>1, <4>1 DEF Inv, TypeOK
      <3>2. holder' \in [Tickets -> Workers \cup {NoOne}] /\ tx' \in [Workers -> Tx]
        BY <1>2, <1>3 DEF Inv, TypeOK
      <3>3. accepted' \in [Tickets -> Nat]
        <4>1. accepted \in [Tickets -> Nat] /\ accepted[t.id] + 1 \in Nat
          BY <1>1 DEF Inv, TypeOK
        <4> QED
          BY <2>3, <4>1
      <3>4. shown' \in [Tickets -> SUBSET Users]
        BY <1>1, <1>2 DEF Inv, TypeOK
      <3> QED
        BY <1>2, <3>1, <3>2, <3>3, <3>4 DEF Inv, TypeOK
    <2>5. \A v \in Workers : v # w /\ Committing(v)
             => /\ ticket'[tx[v].id] = ticket[tx[v].id]
                /\ tx[v].op = "transfer" => ticket'[tx[v].copy] = ticket[tx[v].copy]
      BY <1>1, <2>2, CommitApart DEF Inv, LockInv, CopyInv
    <2>6. LockInv' /\ CopyInv'
      BY <1>3, <1>4, <1>5, <2>5 DEF Inv, LockInv, CopyInv, Committing
    <2>7. SeatInv'
      BY <1>1, <2>2 DEF Inv, SeatInv
    <2>8. AnswerInv'
      <3>1. accepted[t.id] = 0 /\ accepted'[t.id] = 1
        BY <1>1, <2>3 DEF Inv, AnswerInv, TypeOK
      <3>2. \A u \in Tickets : u # t.id => accepted'[u] = accepted[u]
        BY <2>3 DEF Inv, TypeOK
      <3> QED
        BY <2>2, <3>1, <3>2 DEF Inv, AnswerInv
    <2>9. OneTicketPerSeat'
      <3>1. \A u \in Tickets : (Live(u)' <=> Live(u)) /\ ticket'[u].seat = ticket[u].seat
        BY <1>1, <2>2 DEF Live
      <3> QED
        BY <3>1 DEF Inv, OneTicketPerSeat
    <2>10. HeldInv'
      <3>1. ASSUME NEW u \in Tickets
            PROVE  /\ ticket'[u].owner = ticket[u].owner /\ ticket'[u].named = ticket[u].named
                   /\ ticket'[u].seat = ticket[u].seat
                   /\ ticket'[u].status = "NONE" <=> ticket[u].status = "NONE"
        BY <1>1, <2>2
      <3>2. \A s \in Seats : Issued[s] \in Tickets
        BY IssuedAssumption
      <3> QED
        BY <3>1, <3>2 DEF Inv, HeldInv
    <2>11. ShownInv'
      <3>1. shown'[t.id] = {} /\ \A u \in Tickets : u # t.id => shown'[u] = shown[u]
        BY <1>1, <1>2 DEF Inv, TypeOK
      <3> QED
        BY <1>2, <2>2, <3>1 DEF Inv, ShownInv, CodesStayWithHolder, Holders
    <2> QED
      BY <1>6, <2>4, <2>6, <2>7, <2>8, <2>9, <2>10, <2>11 DEF Inv
  <1> QED
    BY <1>7, <1>8

(* Messages and pages: whatever they show reaches only whom it may.         *)
Reached(t) == Holders(t) \cup (IF t \in texted THEN {Buyer[ticket[t].seat]} ELSE {})

LEMMA ShowKeeps ==
    ASSUME Inv, NEW gets, Show(gets), texted \subseteq texted', texted' \subseteq Tickets,
           \A t \in Tickets : ticket[t].status = "VALID"
                                => gets[t] \subseteq Reached(t)' /\ gets[t] \subseteq Users
    PROVE  Inv'
  <1>1. /\ UNCHANGED <<ticket, holder, tx, accepted, manifest, scans>>
        /\ shown' = WithShown(gets)
    BY DEF Show
  <1>2. ASSUME NEW t \in Tickets
        PROVE  /\ ticket[t].status = "VALID" => shown'[t] = shown[t] \cup gets[t]
               /\ ticket[t].status # "VALID" => shown'[t] = shown[t]
    BY <1>1 DEF WithShown
  <1>3. shown' \in [Tickets -> SUBSET Users]
    <2>1. \A t \in Tickets : shown'[t] \in SUBSET Users
      BY <1>2 DEF Inv, TypeOK
    <2> QED
      BY <1>1, <2>1 DEF WithShown
  <1>4. TypeOK'
    BY <1>1, <1>3 DEF Inv, TypeOK
  <1>5. ShownInv'
    <2>1. \A t \in Tickets : Reached(t) \subseteq Reached(t)'
      BY <1>1 DEF Reached, Holders
    <2>2. \A t \in Tickets : ticket[t].status = "VALID" => shown[t] \subseteq Reached(t)
      BY DEF Inv, ShownInv, CodesStayWithHolder, Reached
    <2>3. \A t \in Tickets : ticket[t].status = "VALID" => shown'[t] \subseteq Reached(t)'
      BY <1>2, <2>1, <2>2
    <2>4. CodesStayWithHolder'
      BY <1>1, <2>3 DEF CodesStayWithHolder, Reached
    <2> QED
      BY <1>1, <1>2, <2>4 DEF Inv, ShownInv
  <1> QED
    BY <1>1, <1>4, <1>5, GateKeeps

(* A mail goes to a holder, also of a copy that went back to the buyer.     *)
LEMMA DestinationHolds ==
    ASSUME Inv, NEW t \in Tickets, ticket[t].status # "NONE"
    PROVE  Destination(t) \in Holders(t) /\ Destination(t) \in Users
  <1>1. CASE IsCopy(t)
    <2>1. ticket[t].named = ticket[t].owner /\ ticket[t].owner \in Users
      BY <1>1 DEF Inv, HeldInv
    <2>2. Destination(t) = ticket[t].owner
      BY <2>1, NamesAssumption DEF Destination
    <2> QED
      BY <2>1, <2>2 DEF Holders
  <1>2. CASE ~IsCopy(t)
    <2>1. PICK s \in Seats : Issued[s] = t
      BY <1>2 DEF IsCopy
    <2>2. ticket[t].seat = s /\ ticket[t].owner = Buyer[s] /\ ticket[t].named = Attendee[s]
      BY <2>1 DEF Inv, HeldInv
    <2>3. Destination(t) \in {Buyer[s], Attendee[s]} /\ Destination(t) # NoOne
      BY <2>2, IssuedAssumption, NamesAssumption DEF Destination
    <2> QED
      BY <2>1, <2>2, <2>3, IssuedAssumption DEF Holders
  <1> QED
    BY <1>1, <1>2

(* Tickets are delivered, to the buyer only what is the buyer's or noted.   *)
LEMMA DeliverKeeps ==
    ASSUME Inv, NEW tickets \in SUBSET Tickets, NEW mailed, NEW phoned \in BOOLEAN,
           Deliver(tickets, mailed, phoned), \A t \in tickets : ticket[t].status # "NONE",
           texted \subseteq texted', texted' \subseteq Tickets,
           phoned => \A t \in tickets : Given(t) => t \in texted'
    PROVE  Inv'
  <1> DEFINE gets == [t \in Tickets |->
            IF t \in tickets
            THEN ({Destination(t)} \cap mailed) \cup (IF phoned THEN {Buyer[ticket[t].seat]} ELSE {})
            ELSE {}]
  <1>1. Show(gets)
    BY DEF Deliver
  <1>2. ASSUME NEW t \in Tickets, ticket[t].status = "VALID"
        PROVE  gets[t] \subseteq Reached(t)' /\ gets[t] \subseteq Users
    <2>1. ticket' = ticket /\ ticket[t].seat \in Seats /\ Buyer[ticket[t].seat] \in Users
      BY <1>1, <1>2, IssuedAssumption DEF Show, Inv, SeatInv
    <2>2. Destination(t) \in Holders(t) /\ Destination(t) \in Users
      BY <1>2, DestinationHolds
    <2>3. Holders(t) \subseteq Reached(t)'
      BY <2>1 DEF Holders, Reached
    <2>4. t \in tickets /\ phoned => Buyer[ticket[t].seat] \in Reached(t)'
      <3>1. CASE Given(t)
        BY <2>1, <3>1 DEF Reached
      <3>2. CASE ~Given(t)
        BY <1>2, <2>3, <3>2 DEF Given, Holders
      <3> QED
        BY <3>1, <3>2
    <2> QED
      BY <2>1, <2>2, <2>3, <2>4
  <1> HIDE DEF gets
  <1> QED
    BY <1>1, <1>2, ShowKeeps

LEMMA MailsKeep ==
    ASSUME Inv, NEW tickets \in SUBSET Tickets, DistributeTicketEmails(tickets),
           \A t \in tickets : ticket[t].status # "NONE"
    PROVE  Inv'
  BY DeliverKeeps DEF DistributeTicketEmails, Inv, TypeOK

(* A payment's tickets are the buyer's; of a resend, what is not is noted.  *)
LEMMA OrderDeliveriesKeep ==
    ASSUME Inv, NEW s \in Seats,
           \/ RunPaidSideEffects(s) \/ SendSoldTickets(s)
           \/ ResendTicketsForOrder(s) \/ DistributeTicketEmails(TicketsOf(s))
    PROVE  Inv'
  <1>1. /\ Issued[s] \in Tickets /\ ticket[Issued[s]].status # "NONE" /\ ~Given(Issued[s])
        /\ TicketsOf(s) \in SUBSET Tickets /\ \A t \in TicketsOf(s) : ticket[t].status # "NONE"
    BY IssuedAssumption DEF Inv, HeldInv, Given, TicketsOf
  <1>2. texted \subseteq Tickets
    BY DEF Inv, TypeOK
  <1>3. ASSUME RunPaidSideEffects(s) PROVE Inv'
    <2>1. PICK mailed \in SUBSET Destinations({Issued[s]}), phoned \in BOOLEAN :
            Deliver({Issued[s]}, mailed, phoned) /\ UNCHANGED texted
      BY <1>3 DEF RunPaidSideEffects
    <2> QED
      BY <1>1, <1>2, <2>1, DeliverKeeps
  <1>4. ASSUME ResendTicketsForOrder(s) PROVE Inv'
    <2>1. PICK mailed \in SUBSET Destinations(TicketsOf(s)), phoned \in BOOLEAN :
            /\ Deliver(TicketsOf(s), mailed, phoned)
            /\ texted' = IF phoned THEN texted \cup {t \in TicketsOf(s) : Given(t)} ELSE texted
      BY <1>4 DEF ResendTicketsForOrder
    <2>2. texted \subseteq texted' /\ texted' \subseteq Tickets
      BY <1>1, <1>2, <2>1
    <2> QED
      BY <1>1, <2>1, <2>2, DeliverKeeps
  <1> QED
    BY <1>1, <1>3, <1>4, MailsKeep DEF SendSoldTickets

LEMMA NotifyKeeps == ASSUME Inv, NEW t \in Tickets, NotifyRecipient(t) PROVE Inv'
  <1> DEFINE gets == [r \in Tickets |-> IF r = t THEN {ticket[t].named} ELSE {}]
  <1>1. /\ Show(gets) /\ UNCHANGED <<ticket, texted>> /\ texted \subseteq Tickets
        /\ ticket[t].named = ticket[t].owner /\ ticket[t].owner \in Users
    BY DEF NotifyRecipient, Show, Inv, TypeOK, HeldInv, IsCopy
  <1>2. ASSUME NEW r \in Tickets PROVE gets[r] \subseteq Reached(r)' /\ gets[r] \subseteq Users
    BY <1>1 DEF Holders, Reached
  <1> HIDE DEF gets
  <1> QED
    BY <1>1, <1>2, ShowKeeps

LEMMA ProfileKeeps ==
    ASSUME Inv, NEW u \in Users,
           \/ \E filter \in Status : ListTickets(u, filter)
           \/ \E t \in Tickets : FindTicket(u, t)
    PROVE  Inv'
  <1>1. ASSUME NEW filter \in Status, ListTickets(u, filter) PROVE Inv'
    <2> DEFINE gets == [t \in Tickets |->
            IF /\ ticket[t].owner = u
               /\ IF filter = "NONE" THEN ticket[t].status # "TRANSFERRED"
                                     ELSE ticket[t].status = filter
            THEN {u} ELSE {}]
    <2>1. Show(gets) /\ UNCHANGED <<ticket, texted>> /\ texted \subseteq Tickets
      BY <1>1 DEF ListTickets, Show, Inv, TypeOK
    <2>2. ASSUME NEW r \in Tickets PROVE gets[r] \subseteq Reached(r)' /\ gets[r] \subseteq Users
      BY <2>1 DEF Holders, Reached
    <2> HIDE DEF gets
    <2> QED
      BY <2>1, <2>2, ShowKeeps
  <1>2. ASSUME NEW t \in Tickets, FindTicket(u, t) PROVE Inv'
    <2> DEFINE gets == [r \in Tickets |-> IF r = t THEN {u} ELSE {}]
    <2>1. /\ Show(gets) /\ UNCHANGED <<ticket, texted>> /\ texted \subseteq Tickets
          /\ ticket[t].owner = u
      BY <1>2 DEF FindTicket, Show, Inv, TypeOK
    <2>2. ASSUME NEW r \in Tickets PROVE gets[r] \subseteq Reached(r)' /\ gets[r] \subseteq Users
      BY <2>1 DEF Holders, Reached
    <2> HIDE DEF gets
    <2> QED
      BY <2>1, <2>2, ShowKeeps
  <1> QED
    BY <1>1, <1>2

-----------------------------------------------------------------------------
LEMMA NextInv == Inv /\ [Next]_vars => Inv'
  <1> SUFFICES ASSUME Inv, [Next]_vars PROVE Inv'
    OBVIOUS
  <1>1. CASE UNCHANGED vars
    <2>1. TypeOK'
      BY <1>1 DEF vars, Inv, TypeOK
    <2> QED
      BY <1>1, <2>1, GateKeeps, ShownKept DEF vars
  <1>2. ASSUME NEW w \in Workers, LockTicket(w) \/ Commit(w) PROVE Inv'
    BY <1>2, LockTicketKeeps, CommitKeeps
  <1>3. ASSUME NEW w \in Workers, Rollback(w) PROVE Inv'
    BY <1>3, LeaveKeeps DEF Rollback, Committing
  <1>4. ASSUME NEW w \in Workers, NEW id \in Tickets, NEW u \in Users, NEW v \in Users,
               BeginTransfer(w, u, id, v)
        PROVE  Inv'
    <2> DEFINE t == [Idle EXCEPT !.pc = "lock", !.op = "transfer", !.id = id,
                                 !.from = u, !.to = v]
    <2>1. /\ t \in Tx /\ t.pc = "lock" /\ t.id = id /\ t.copy = NoTicket
          /\ t.op = "transfer" /\ t.to = v
      BY DEF Idle, Tx, Marks
    <2> QED
      BY <1>4, <2>1, StartKeeps DEF BeginTransfer
  <1>5. ASSUME NEW w \in Workers, NEW id \in Tickets, NEW g \in Gates,
               BeginValidate(w, g, id) \/ \E m \in Marks : BeginSync(w, g, id, m)
        PROVE  Inv'
    <2>1. PICK t \in Tx : /\ Start(w, t) /\ t.pc = "lock" /\ t.id = id /\ t.copy = NoTicket
                          /\ t.op \in {"validate", "sync"}
      <3>1. CASE BeginValidate(w, g, id)
        <4> DEFINE t == [Idle EXCEPT !.pc = "lock", !.op = "validate", !.id = id,
                                     !.events = MayAdmit[g]]
        <4>1. /\ t \in Tx /\ t.pc = "lock" /\ t.id = id /\ t.copy = NoTicket
              /\ t.op = "validate"
          BY IssuedAssumption DEF Idle, Tx, Marks
        <4> QED
          BY <3>1, <4>1 DEF BeginValidate
      <3>2. ASSUME NEW m \in Marks, BeginSync(w, g, id, m)
            PROVE  \E t \in Tx : /\ Start(w, t) /\ t.pc = "lock" /\ t.id = id
                                 /\ t.copy = NoTicket /\ t.op \in {"validate", "sync"}
        <4> DEFINE t == [Idle EXCEPT !.pc = "lock", !.op = "sync", !.id = id, !.mark = m,
                                     !.events = {GateEvent[g]}]
        <4>1. /\ t \in Tx /\ t.pc = "lock" /\ t.id = id /\ t.copy = NoTicket
              /\ t.op = "sync"
          BY IssuedAssumption DEF Idle, Tx, Marks
        <4> QED
          BY <3>2, <4>1 DEF BeginSync
      <3> QED
        BY <1>5, <3>1, <3>2
    <2> QED
      BY <2>1, StartKeeps
  <1>6. ASSUME NEW g \in Gates,
               \/ LoadManifest(g)
               \/ \E t \in Tickets, m \in Marks : ScanOffline(g, t, m) \/ Acknowledge(g, t, m)
        PROVE  Inv'
    <2>1. UNCHANGED <<ticket, shown, texted, holder, tx, accepted>>
      BY <1>6 DEF LoadManifest, ScanOffline, Acknowledge
    <2>2. manifest' \in [Gates -> SUBSET Tickets]
      BY <1>6 DEF LoadManifest, ScanOffline, Acknowledge, Inv, TypeOK
    <2>3. scans' \in [Gates -> SUBSET (Tickets \X Marks)]
      <3>1. CASE LoadManifest(g)
        BY <3>1 DEF LoadManifest, Inv, TypeOK
      <3>2. ASSUME NEW t \in Tickets, NEW m \in Marks, ScanOffline(g, t, m)
            PROVE  scans' \in [Gates -> SUBSET (Tickets \X Marks)]
        <4>1. scans[g] \cup {<<t, m>>} \in SUBSET (Tickets \X Marks)
          BY DEF Inv, TypeOK
        <4>2. scans' = [scans EXCEPT ![g] = scans[g] \cup {<<t, m>>}]
          BY <3>2 DEF ScanOffline
        <4> QED
          BY <4>1, <4>2 DEF Inv, TypeOK
      <3>3. ASSUME NEW t \in Tickets, NEW m \in Marks, Acknowledge(g, t, m)
            PROVE  scans' \in [Gates -> SUBSET (Tickets \X Marks)]
        <4>1. scans[g] \ {<<t, m>>} \in SUBSET (Tickets \X Marks)
          BY DEF Inv, TypeOK
        <4>2. scans' = [scans EXCEPT ![g] = scans[g] \ {<<t, m>>}]
          BY <3>3 DEF Acknowledge
        <4> QED
          BY <4>1, <4>2 DEF Inv, TypeOK
      <3> QED
        BY <1>6, <3>1, <3>2, <3>3
    <2>4. TypeOK'
      BY <2>1, <2>2, <2>3 DEF Inv, TypeOK
    <2> QED
      BY <2>1, <2>4, GateKeeps, ShownKept
  <1>7. ASSUME NEW s \in Seats, 
               RunPaidSideEffects(s) \/ SendSoldTickets(s) \/ ResendTicketsForOrder(s)
        PROVE  Inv'
    BY <1>7, OrderDeliveriesKeep
  <1>8. ASSUME NEW t \in Tickets, NotifyRecipient(t) PROVE Inv'
    BY <1>8, NotifyKeeps
  <1>9. ASSUME NEW u \in Users, ResendToBuyer(u) PROVE Inv'
    BY <1>9, OrderDeliveriesKeep DEF ResendToBuyer
  <1>10. ASSUME NEW u \in Users,
                \/ \E filter \in Status : ListTickets(u, filter)
                \/ \E t \in Tickets : FindTicket(u, t)
         PROVE  Inv'
    BY <1>10, ProfileKeeps
  <1> QED
    BY <1>1, <1>2, <1>3, <1>4, <1>5, <1>6, <1>7, <1>8, <1>9, <1>10 DEF Next

(* Rows, transactions and histories keep their types, for any number of     *)
(* seats, users, workers and gates.                                         *)
THEOREM TypeCorrect == Spec => []TypeOK
  <1>1. Inv => TypeOK
    BY DEF Inv
  <1> QED
    BY <1>1, InitInv, NextInv, PTL DEF Spec

(* What opens the gate for a ticket is with its owner, the attendee of one  *)
(* nobody transferred, and the buyer to whom a WhatsApp sent this ticket    *)
(* again; with nobody else, whatever mails, messages, pages, transfers and  *)
(* resends were interleaved.                                                *)
THEOREM CodesStay == Spec => []CodesStayWithHolder
  <1>1. Inv => CodesStayWithHolder
    BY DEF Inv, ShownInv
  <1> QED
    BY <1>1, InitInv, NextInv, PTL DEF Spec

(* Every seat keeps exactly one ticket that opens the gate or has opened it *)
(* through any number of transfers, retries, rollbacks and concurrent       *)
(* scans.                                                                   *)
THEOREM SeatKeepsOneTicket == Spec => []OneTicketPerSeat
  <1>1. Inv => OneTicketPerSeat
    BY DEF Inv
  <1> QED
    BY <1>1, InitInv, NextInv, PTL DEF Spec

(* The validation endpoints answer ok at most once for a seat, whichever    *)
(* gates, batches and transferred copies ask.                               *)
THEOREM SeatEntersOnce == Spec => []SeatEnteredOnce
  <1>1. Inv => SeatEnteredOnce
    <2> SUFFICES ASSUME Inv, NEW t \in Tickets, NEW u \in Tickets,
                        accepted[t] > 0, accepted[u] > 0, ticket[t].seat = ticket[u].seat
                 PROVE  t = u /\ accepted[t] = 1
      BY DEF SeatEnteredOnce
    <2>1. /\ ticket[t].status = "USED" /\ accepted[t] = 1
          /\ ticket[u].status = "USED" /\ ticket[t].seat \in Seats
      BY DEF Inv, AnswerInv, SeatInv
    <2> QED
      BY <2>1 DEF Inv, OneTicketPerSeat, Live
  <1> QED
    BY <1>1, InitInv, NextInv, PTL DEF Spec

(* The row of a used or transferred ticket is never written again.          *)
THEOREM SpentStays == Spec => SpentIsFinal
  <1>1. Inv /\ [Next]_vars =>
          [\A t \in Tickets : ticket[t].status \in {"USED", "TRANSFERRED"}
                                 => ticket'[t] = ticket[t]]_vars
    <2> SUFFICES ASSUME Inv, Next, NEW t \in Tickets,
                        ticket[t].status \in {"USED", "TRANSFERRED"}
                 PROVE  ticket'[t] = ticket[t]
      BY DEF vars
    <2>1. ASSUME NEW w \in Workers, Commit(w) PROVE ticket'[t] = ticket[t]
      <3>1. /\ tx[w].id \in Tickets /\ ticket[tx[w].id].status = "VALID"
            /\ tx[w].op = "transfer" => /\ tx[w].copy \in Tickets
                                        /\ ticket[tx[w].copy].status = "NONE"
        BY <2>1 DEF Commit, Inv, LockInv, CopyInv, Committing
      <3> QED
        BY <2>1, <3>1 DEF Commit, Moved, Used, Inv, TypeOK
    <2>2. CASE UNCHANGED ticket
      BY <2>2
    <2>3. \/ UNCHANGED ticket
          \/ \E w \in Workers : Commit(w)
      BY DEF Next, LockTicket, Rollback, BeginTransfer, BeginValidate, BeginSync, Start,
             LoadManifest, ScanOffline, Acknowledge, RunPaidSideEffects, NotifyRecipient,
             ResendTicketsForOrder, ResendToBuyer, DistributeTicketEmails, Deliver, ListTickets,
             FindTicket, SendSoldTickets, Show
    <2> QED
      BY <2>1, <2>2, <2>3
  <1> QED
    BY <1>1, InitInv, NextInv, PTL DEF Spec, SpentIsFinal
=============================================================================
