-------------------------- MODULE ExpirySweepProofs --------------------------
(***************************************************************************)
(* A reservation outlives its deadline by a bounded time, for any number   *)
(* of orders, any page size, any length of a sweep and any safety interval.*)
(*                                                                         *)
(* The argument counts what is spent: the deadlines met so far, and a page *)
(* for every fault.  A sweep that saw an overdue order and leaves it       *)
(* behind has spent a page, since its page was full of others, and the     *)
(* cron starts the next one a minute later.                                *)
(***************************************************************************)
EXTENDS ExpirySweep, FiniteSetTheorems, TLAPS

Due(n) == n # NoExpiry /\ n <= 0
Active(j) == job[j].pc # "off"
Overdue == {o \in Pending : left[o] < 0}
Gone == {o \in Orders : row[o] \in {"settled", "expired"}}
Live(S) == {o \in S : row[o] = "pending" /\ left[o] < 0}
Met == Cardinality(Gone) + Cardinality(reopened) + Cardinality(saved)
Spent == Met + faults * PageSize
(* The time of x sweeps after the safety interval and the delay of a call.  *)
Rounds(x) == Safety + Late + x * (JobMinutes + 1)
Bound == Rounds(Pages + faults)

(* No sweep is at work on o, and the rounds it has waited are paid for.     *)
Waits(o) == \E x \in Nat : x * PageSize <= Spent /\ -left[o] <= Rounds(x)
(* Sweep j knows of o, or leaves it behind having spent its page.           *)
Pays(o, j, x) ==
    \/ job[j].pc = "find" /\ x * PageSize <= Spent
    \/ job[j].pc = "expire" /\ o \in job[j].page /\ x * PageSize <= Spent
    \/ /\ job[j].pc = "expire" /\ o \notin job[j].page
       /\ (x + 1) * PageSize <= Spent + Cardinality(Live(job[j].page))
    \/ job[j].pc = "assign" /\ Due(job[j].next) /\ (x + 1) * PageSize <= Spent
Sweeps(j, o) ==
    /\ Active(j) /\ left[o] + job[j].age < 0
    /\ \E x \in Nat : -left[o] - job[j].age <= Rounds(x) + 1 /\ Pays(o, j, x)

(* A pending or open order has a deadline, an open one has not missed it.   *)
RowsTimed ==
    \A o \in Orders : /\ row[o] = "pending" => left[o] \in Minutes
                      /\ row[o] = "open" => left[o] \in 0..TTL
(* A call to the gateway ends soon after the deadline the checkout read.    *)
CallsShort ==
    \A c \in Checkouts : charging[c] # NoCharge => c \notin saved /\ charging[c].left >= -Late
PagesFit == \A j \in Jobs : Cardinality(job[j].page) <= PageSize
(* The cron starts one sweep a minute.                                      *)
AgesDiffer ==
    \A j, k \in Jobs : j # k /\ Active(j) /\ Active(k) => job[j].age # job[k].age
(* What a sweep is about to assign is due, if an order was at its start, or *)
(* the order has been put back since.                                       *)
AssignsDue ==
    \A j \in Jobs : job[j].pc = "assign" =>
        \A o \in Pending : left[o] + job[j].age >= -Late \/ Due(job[j].next)
(* A sweep is due, or the last one started when no order was overdue, but   *)
(* those that a checkout put back.                                          *)
Covered == \A o \in Overdue : ShouldSweep(next, since) \/ -left[o] <= since + Late
Served ==
    \A o \in Overdue : -Floor <= Bound \/ Waits(o) \/ \E j \in Jobs : Sweeps(j, o)

Typed == TypeOK /\ RowsTimed /\ CallsShort /\ PagesFit /\ AgesDiffer
IInv == Typed /\ AssignsDue /\ Covered /\ Served

-----------------------------------------------------------------------------
(* Arithmetic *)

LEMMA OneMore == ASSUME NEW x \in Int, NEW p \in Int PROVE (x + 1) * p = x * p + p
  OBVIOUS

LEMMA OneMorePaid ==
    ASSUME NEW x \in Int, NEW p \in Int, NEW s \in Int, x * p <= s
    PROVE  (x + 1) * p <= s + p
  <1>1. x * p \in Int /\ (x + 1) * p = x * p + p
    BY OneMore
  <1> QED
    BY <1>1

LEMMA NaturalProduct == ASSUME NEW x \in Nat, NEW p \in Nat PROVE x * p \in Nat
  OBVIOUS

LEMMA MoreOf == ASSUME NEW x \in Int, NEW y \in Int, x <= y, NEW p \in Nat PROVE x * p <= y * p
  <1>1. y * p = x * p + (y - x) * p
    OBVIOUS
  <1>2. y - x \in Nat
    OBVIOUS
  <1>3. (y - x) * p >= 0
    BY <1>2
  <1>4. x * p \in Int /\ (y - x) * p \in Int
    OBVIOUS
  <1> QED
    BY <1>1, <1>3, <1>4

LEMMA RoundsType == ASSUME NEW x \in Int PROVE Rounds(x) \in Int /\ Rounds(x + 1) = Rounds(x) + JobMinutes + 1
  <1>1. JobMinutes + 1 \in Int /\ Safety + Late \in Int
    BY SweepAssumption
  <1>2. (x + 1) * (JobMinutes + 1) = x * (JobMinutes + 1) + (JobMinutes + 1)
    BY <1>1, OneMore
  <1>3. x * (JobMinutes + 1) \in Int
    BY <1>1
  <1> QED
    BY <1>1, <1>2, <1>3, SweepAssumption DEF Rounds

LEMMA RoundsGrow == ASSUME NEW x \in Int, NEW y \in Int, x <= y PROVE Rounds(x) <= Rounds(y)
  <1>1. JobMinutes + 1 \in Nat /\ Safety + Late \in Int
    BY SweepAssumption
  <1>2. x * (JobMinutes + 1) <= y * (JobMinutes + 1)
    BY <1>1, MoreOf
  <1>3. x * (JobMinutes + 1) \in Int /\ y * (JobMinutes + 1) \in Int
    BY <1>1
  <1> QED
    BY <1>1, <1>2, <1>3 DEF Rounds

LEMMA NoRounds == Rounds(0) = Safety + Late /\ Rounds(0) \in Nat /\ 0 * PageSize = 0
  BY SweepAssumption DEF Rounds

(* Whole pages of at most d deadlines are at most Pages.                    *)
LEMMA WholePages ==
    ASSUME NEW d \in Nat, NEW p \in Nat \ {0}, NEW x \in Int, x * p <= d + p - 1
    PROVE  x <= (d + p - 1) \div p
  <1> DEFINE q == (d + p - 1) \div p
  <1>1. /\ q \in Int /\ (d + p - 1) % p \in 0..(p - 1)
        /\ d + p - 1 = p * q + ((d + p - 1) % p)
    <2>1. d + p - 1 \in Int /\ p > 0
      OBVIOUS
    <2> QED
      BY <2>1
  <1>2. (q + 1) * p = p * q + p
    BY <1>1
  <1>3. d + p - 1 < (q + 1) * p
    <2>1. p * q \in Int
      BY <1>1
    <2> HIDE DEF q
    <2> QED
      BY <1>1, <1>2, <2>1
  <1>4. CASE q + 1 <= x
    <2>1. (q + 1) * p <= x * p
      BY <1>1, <1>4, MoreOf
    <2>2. (q + 1) * p \in Int /\ x * p \in Int
      BY <1>1
    <2> HIDE DEF q
    <2> QED
      BY <1>3, <2>1, <2>2
  <1>5. CASE ~(q + 1 <= x)
    <2> HIDE DEF q
    <2>1. x <= q
      BY <1>1, <1>5
    <2> QED
      BY <2>1 DEF q
  <1> QED
    BY <1>4, <1>5

LEMMA PagesType ==
    ASSUME NEW d \in Nat, NEW p \in Nat \ {0}
    PROVE  (d + p - 1) \div p \in Int
  <1>1. d + p - 1 \in Int /\ p > 0
    OBVIOUS
  <1> QED
    BY <1>1

LEMMA MorePages ==
    ASSUME NEW d \in Nat, NEW e \in Nat, d <= e, NEW p \in Nat \ {0}
    PROVE  (d + p - 1) \div p <= (e + p - 1) \div p
  <1> DEFINE q == (d + p - 1) \div p
  <1>1. /\ q \in Int /\ (d + p - 1) % p \in 0..(p - 1)
        /\ d + p - 1 = p * q + ((d + p - 1) % p)
    <2>1. d + p - 1 \in Int /\ p > 0
      OBVIOUS
    <2> QED
      BY <2>1
  <1>2. q * p \in Int /\ q * p = p * q
    BY <1>1
  <1>3. q * p <= e + p - 1
    <2> HIDE DEF q
    <2> QED
      BY <1>1, <1>2
  <1> HIDE DEF q
  <1>4. q <= (e + p - 1) \div p
    BY <1>1, <1>3, WholePages
  <1> QED
    BY <1>4 DEF q

LEMMA MinutesOf ==
    ASSUME NEW x \in Minutes \cup {NoExpiry}
    PROVE  /\ OneMinute(x) \in Minutes \cup {NoExpiry}
           /\ x \in Minutes => OneMinute(x) \in Minutes
           /\ x \in Minutes /\ x # Floor => OneMinute(x) = x - 1
           /\ x \in Minutes /\ OneMinute(x) # x - 1 => x = Floor /\ OneMinute(x) = x
           /\ Due(x) => Due(OneMinute(x))
           /\ x = NoExpiry => OneMinute(x) = NoExpiry
           /\ x \in Minutes => OneMinute(x) \in Int /\ x \in Int /\ x - 1 <= OneMinute(x) /\ OneMinute(x) <= x
           /\ x \in Minutes => -x <= -Floor /\ x <= TTL
  BY SweepAssumption DEF Minutes, OneMinute, Due

-----------------------------------------------------------------------------
(* Counting *)

LEMMA FiniteParts ==
    ASSUME NEW S \in SUBSET Orders
    PROVE  IsFiniteSet(S) /\ Cardinality(S) \in Nat
  BY FS_Subset, FS_CardinalityType, SweepAssumption

LEMMA LargerPart ==
    ASSUME NEW S \in SUBSET Orders, NEW T \in SUBSET S
    PROVE  /\ Cardinality(T) \in Nat /\ Cardinality(S) \in Nat
           /\ Cardinality(T) <= Cardinality(S)
  BY FiniteParts, FS_Subset

LEMMA WithOne ==
    ASSUME NEW S \in SUBSET Orders, NEW o \in Orders \ S
    PROVE  /\ Cardinality(S \cup {o}) = Cardinality(S) + 1
           /\ Cardinality(S) \in Nat
  BY FiniteParts, FS_AddElement

LEMMA WithoutOne ==
    ASSUME NEW S \in SUBSET Orders, NEW o
    PROVE  /\ Cardinality(S \ {o}) = IF o \in S THEN Cardinality(S) - 1 ELSE Cardinality(S)
           /\ Cardinality(S) \in Nat
  BY FiniteParts, FS_RemoveElement

LEMMA SavedCheckouts ==
    ASSUME NEW S \in SUBSET Checkouts
    PROVE  /\ Cardinality(S) \in Nat
           /\ \A c \in Checkouts : c \notin S => Cardinality(S \cup {c}) = Cardinality(S) + 1
  BY FS_Subset, FS_CardinalityType, FS_AddElement, SweepAssumption

LEMMA Numbers ==
    ASSUME TypeOK
    PROVE  /\ Met \in Nat /\ Deadlines \in Nat /\ faults \in Nat
           /\ faults * PageSize \in Nat /\ Spent \in Nat
           /\ Pages \in Int /\ Bound \in Int
           /\ \A S \in SUBSET Orders : Cardinality(Live(S)) \in Nat /\ Cardinality(S) \in Nat
  <1>1. Gone \in SUBSET Orders /\ reopened \in SUBSET Orders
    BY DEF Gone, TypeOK
  <1>2. Met \in Nat /\ Deadlines \in Nat /\ faults \in Nat
    BY <1>1, FiniteParts, SavedCheckouts, SweepAssumption DEF Met, Deadlines, TypeOK
  <1>3. faults * PageSize \in Nat
    BY <1>2, SweepAssumption
  <1>4. Pages \in Int
    BY <1>2, SweepAssumption DEF Pages
  <1>5. Bound \in Int
    BY <1>2, <1>4, RoundsType DEF Bound
  <1>6. \A S \in SUBSET Orders : Live(S) \in SUBSET Orders
    BY DEF Live
  <1> QED
    BY <1>2, <1>3, <1>4, <1>5, <1>6, FiniteParts DEF Spent

(* As long as an order is pending, a deadline has not been met.             *)
LEMMA OneNotMet == ASSUME TypeOK, NEW o \in Pending PROVE Met <= Deadlines - 1
  <1>1. Gone \in SUBSET Orders /\ o \in Orders \ Gone
    BY DEF Gone, Pending
  <1>2. Gone \cup {o} \in SUBSET Orders
    BY <1>1
  <1>3. Cardinality(Gone \cup {o}) = Cardinality(Gone) + 1 /\ Cardinality(Gone) \in Nat
    BY <1>1, WithOne
  <1>4. Cardinality(Gone \cup {o}) <= Cardinality(Orders) /\ Cardinality(Orders) \in Nat
    BY <1>2, LargerPart
  <1>5. Cardinality(reopened) \in Nat /\ Cardinality(saved) \in Nat
    BY FiniteParts, SavedCheckouts DEF TypeOK
  <1> QED
    BY <1>3, <1>4, <1>5 DEF Met, Deadlines

(* Rounds that are paid for, but for one page, are within the bound.        *)
LEMMA PaidRounds ==
    ASSUME TypeOK, NEW o \in Pending, NEW x \in Int, x * PageSize <= Spent + PageSize
    PROVE  Rounds(x) <= Bound
  <1>1. /\ Met \in Nat /\ Deadlines \in Nat /\ faults \in Nat /\ faults * PageSize \in Nat
        /\ Pages \in Int
    BY Numbers
  <1>2. PageSize \in Nat \ {0}
    BY SweepAssumption
  <1>3. (x - faults) * PageSize = x * PageSize - faults * PageSize
    BY <1>1, <1>2
  <1>4. (x - faults) * PageSize <= Deadlines + PageSize - 1
    <2>1. Met <= Deadlines - 1
      BY OneNotMet
    <2>2. x * PageSize \in Int
      BY <1>2
    <2> QED
      BY <1>1, <1>2, <1>3, <2>1, <2>2 DEF Spent
  <1>5. x - faults <= Pages
    BY <1>1, <1>2, <1>4, WholePages DEF Pages
  <1>6. x <= Pages + faults
    BY <1>1, <1>5
  <1> QED
    BY <1>1, <1>6, RoundsGrow DEF Bound

(* What a sweep pays stays below one page more.                             *)
LEMMA PaysAPage ==
    ASSUME Typed, NEW o \in Orders, NEW j \in Jobs, NEW x \in Nat, Pays(o, j, x)
    PROVE  x * PageSize <= Spent
  <1>1. /\ Spent \in Nat /\ PageSize \in Nat /\ x * PageSize \in Int
        /\ (x + 1) * PageSize = x * PageSize + PageSize
    BY Numbers, OneMore, SweepAssumption DEF Typed
  <1>2. ASSUME job[j].pc = "expire"
        PROVE  Cardinality(Live(job[j].page)) \in Nat /\ Cardinality(Live(job[j].page)) <= PageSize
    <2>1. job[j].page \in SUBSET Orders /\ Live(job[j].page) \in SUBSET job[j].page
      BY DEF Typed, TypeOK, Job, Live
    <2>2. Cardinality(job[j].page) <= PageSize
      BY DEF Typed, PagesFit
    <2> QED
      BY <1>1, <2>1, <2>2, LargerPart
  <1> QED
    BY <1>1, <1>2 DEF Pays

(* An overdue order that a sweep has not left out of reach is in time.      *)
LEMMA ServedInTime ==
    ASSUME Typed, Served, NEW o \in Overdue
    PROVE  -left[o] <= Bound
  <1>1. /\ o \in Pending /\ o \in Orders /\ left[o] \in Int /\ -left[o] <= -Floor /\ Floor \in Int
    BY MinutesOf, SweepAssumption DEF Overdue, Pending, Typed, RowsTimed, Minutes
  <1>2. Bound \in Int /\ Spent \in Nat /\ PageSize \in Nat
    BY Numbers, SweepAssumption DEF Typed
  <1>3. CASE -Floor <= Bound
    BY <1>1, <1>2, <1>3
  <1>4. CASE Waits(o)
    <2>1. PICK x \in Nat : x * PageSize <= Spent /\ -left[o] <= Rounds(x)
      BY <1>4 DEF Waits
    <2>2. x * PageSize <= Spent + PageSize
      <3>1. x * PageSize \in Int
        BY <1>2
      <3> QED
        BY <1>2, <2>1, <3>1
    <2>3. Rounds(x) <= Bound /\ Rounds(x) \in Int
      BY <1>1, <2>2, PaidRounds, RoundsType DEF Typed
    <2> QED
      BY <1>1, <1>2, <2>1, <2>3
  <1>5. CASE \E j \in Jobs : Sweeps(j, o)
    <2>1. PICK j \in Jobs : Sweeps(j, o)
      BY <1>5
    <2>2. PICK x \in Nat : -left[o] - job[j].age <= Rounds(x) + 1 /\ Pays(o, j, x)
      BY <2>1 DEF Sweeps
    <2>3. job[j].age \in 0..JobMinutes /\ JobMinutes \in Nat
      BY SweepAssumption DEF Typed, TypeOK, Job
    <2>4. x * PageSize <= Spent
      BY <1>1, <2>2, PaysAPage
    <2>5. (x + 1) * PageSize <= Spent + PageSize /\ x + 1 \in Int
      <3>1. x * PageSize \in Int /\ (x + 1) * PageSize = x * PageSize + PageSize
        BY <1>2, OneMore
      <3> QED
        BY <1>2, <2>4, <3>1
    <2>6. Rounds(x + 1) <= Bound
      BY <1>1, <2>5, PaidRounds DEF Typed
    <2>7. Rounds(x) \in Int /\ Rounds(x + 1) = Rounds(x) + JobMinutes + 1
      BY RoundsType
    <2> QED
      BY <1>1, <1>2, <2>2, <2>3, <2>6, <2>7
  <1> QED
    BY <1>3, <1>4, <1>5 DEF Served

(* The bound is not longer than the time that is counted: Floor is out of   *)
(* reach.                                                                   *)
LEMMA AboveFloor ==
    ASSUME Typed, Served, NEW o \in Pending, ~(-Floor <= Bound)
    PROVE  left[o] \in Int /\ OneMinute(left[o]) = left[o] - 1
  <1>1. left[o] \in Minutes /\ left[o] \in Int /\ Floor \in Int /\ Floor < 0 /\ Bound \in Int
    BY Numbers, SweepAssumption DEF Typed, RowsTimed, Pending, Minutes
  <1>2. left[o] < 0 => -left[o] <= Bound
    BY ServedInTime DEF Overdue
  <1>3. left[o] # Floor
    BY <1>1, <1>2
  <1> QED
    BY <1>1, <1>3, MinutesOf

-----------------------------------------------------------------------------
(* What the steps spend *)

LiveNext(S) == {o \in S : row'[o] = "pending" /\ left'[o] < 0}
(* Nothing that was spent is taken back, and a live order of a page that is *)
(* no longer live has met its deadline.                                     *)
Grows ==
    /\ Bound <= Bound'
    /\ \A S \in SUBSET Orders :
         Spent + Cardinality(Live(S)) <= Spent' + Cardinality(LiveNext(S))

LEMMA BoundGrows ==
    ASSUME TypeOK, TypeOK', Deadlines <= Deadlines', faults <= faults'
    PROVE  Bound <= Bound'
  <1>1. /\ Deadlines \in Nat /\ faults \in Nat /\ Pages \in Int
        /\ Deadlines' \in Nat /\ faults' \in Nat /\ Pages' \in Int
    <2>1. Deadlines \in Nat /\ faults \in Nat /\ Pages \in Int
      BY Numbers
    <2>2. Deadlines' \in Nat /\ faults' \in Nat
      BY FiniteParts, SavedCheckouts, SweepAssumption DEF Deadlines, TypeOK
    <2>3. Pages' \in Int
      BY <2>2, SweepAssumption DEF Pages
    <2> QED
      BY <2>1, <2>2, <2>3
  <1>2. PageSize \in Nat \ {0}
    BY SweepAssumption
  <1>5. Pages <= Pages'
    BY <1>1, <1>2, MorePages DEF Pages
  <1>6. Rounds(Pages + faults) <= Rounds(Pages' + faults')
    BY <1>1, <1>5, RoundsGrow
  <1> QED
    BY <1>6 DEF Bound, Rounds

(* No deadline is met.                                                      *)
LEMMA NothingMet ==
    ASSUME TypeOK, TypeOK', Gone' = Gone, reopened' = reopened, saved' = saved, faults' = faults,
           \A o \in Orders : row[o] = "pending" /\ left[o] < 0
                                => row'[o] = "pending" /\ left'[o] < 0
    PROVE  Grows
  <1>1. Met' = Met /\ Spent' = Spent /\ Deadlines' = Deadlines
    BY DEF Met, Spent, Deadlines
  <1>2. Bound <= Bound'
    <2>1. Deadlines \in Nat /\ faults \in Nat
      BY Numbers
    <2> QED
      BY <1>1, <2>1, BoundGrows
  <1>3. ASSUME NEW S \in SUBSET Orders
        PROVE  Spent + Cardinality(Live(S)) <= Spent' + Cardinality(LiveNext(S))
    <2>1. LiveNext(S) \in SUBSET Orders /\ Live(S) \in SUBSET LiveNext(S)
      BY DEF Live, LiveNext
    <2>2. Cardinality(Live(S)) <= Cardinality(LiveNext(S))
          /\ Cardinality(Live(S)) \in Nat /\ Cardinality(LiveNext(S)) \in Nat
      BY <2>1, LargerPart
    <2>3. Spent \in Nat
      BY Numbers
    <2> QED
      BY <1>1, <2>2, <2>3
  <1> QED
    BY <1>2, <1>3 DEF Grows

(* An order is settled or expires.                                          *)
LEMMA OneMet ==
    ASSUME TypeOK, TypeOK', NEW o \in Pending, NEW status \in {"settled", "expired"},
           Becomes(o, status, NoExpiry), reopened' = reopened, saved' = saved, faults' = faults
    PROVE  Grows
  <1>1. Gone \in SUBSET Orders /\ o \in Orders \ Gone /\ Gone' = Gone \cup {o}
    BY DEF Gone, Pending, Becomes, TypeOK
  <1>2. Met' = Met + 1
    <2>1. Cardinality(Gone') = Cardinality(Gone) + 1 /\ Cardinality(Gone) \in Nat
      BY <1>1, WithOne
    <2>2. Cardinality(reopened) \in Nat /\ Cardinality(saved) \in Nat
      BY FiniteParts, SavedCheckouts DEF TypeOK
    <2> QED
      BY <2>1, <2>2 DEF Met
  <1>3. Spent' = Spent + 1 /\ Spent \in Nat
    <2>1. Met \in Nat /\ faults * PageSize \in Nat /\ Spent \in Nat
      BY Numbers
    <2> QED
      BY <1>2, <2>1 DEF Spent
  <1>4. Bound <= Bound'
    <2>1. Deadlines \in Nat /\ faults \in Nat /\ Deadlines' = Deadlines
      BY Numbers DEF Deadlines
    <2> QED
      BY <2>1, BoundGrows
  <1>5. ASSUME NEW S \in SUBSET Orders
        PROVE  Spent + Cardinality(Live(S)) <= Spent' + Cardinality(LiveNext(S))
    <2>1. Live(S) \in SUBSET Orders /\ LiveNext(S) = Live(S) \ {o}
      BY DEF Live, LiveNext, Becomes, TypeOK, Pending
    <2>2. /\ Cardinality(Live(S) \ {o}) = IF o \in Live(S) THEN Cardinality(Live(S)) - 1
                                                         ELSE Cardinality(Live(S))
          /\ Cardinality(Live(S)) \in Nat
      BY <2>1, WithoutOne
    <2> QED
      BY <1>3, <2>1, <2>2
  <1> QED
    BY <1>4, <1>5 DEF Grows

(* The script opens the window of an expired order again.                   *)
LEMMA Reopened ==
    ASSUME TypeOK, TypeOK', NEW o \in Orders, Reopen(o)
    PROVE  Grows
  <1>1. /\ Gone \in SUBSET Orders /\ o \in Gone /\ Gone' = Gone \ {o}
        /\ reopened \in SUBSET Orders /\ o \in Orders \ reopened
        /\ reopened' = reopened \cup {o} /\ faults' = faults /\ saved' = saved
    BY DEF Gone, Reopen, Becomes, TypeOK, checkouts
  <1>2. /\ Cardinality(Gone') = Cardinality(Gone) - 1 /\ Cardinality(Gone) \in Nat
        /\ Cardinality(reopened') = Cardinality(reopened) + 1 /\ Cardinality(reopened) \in Nat
    BY <1>1, WithOne, WithoutOne
  <1>3. Met' = Met /\ Spent' = Spent /\ Spent \in Nat
    <2>1. Met' = Met
      <3>1. Cardinality(saved) \in Nat
        BY SavedCheckouts DEF TypeOK
      <3> QED
        BY <1>1, <1>2, <3>1 DEF Met
    <2> QED
      BY <1>1, <2>1, Numbers DEF Spent
  <1>4. Bound <= Bound'
    <2>1. Deadlines <= Deadlines' /\ faults <= faults'
      <3>1. Cardinality(Orders) \in Nat /\ Cardinality(saved) \in Nat /\ faults \in Nat
        BY FiniteParts, SavedCheckouts, Numbers DEF TypeOK
      <3> QED
        BY <1>1, <1>2, <3>1 DEF Deadlines
    <2> QED
      BY <2>1, BoundGrows
  <1>5. ASSUME NEW S \in SUBSET Orders
        PROVE  Spent + Cardinality(Live(S)) <= Spent' + Cardinality(LiveNext(S))
    <2>1. LiveNext(S) = Live(S)
      BY SweepAssumption DEF Live, LiveNext, Reopen, Becomes, TypeOK
    <2>2. Cardinality(Live(S)) \in Nat
      BY Numbers
    <2> QED
      BY <1>3, <2>1, <2>2
  <1> QED
    BY <1>4, <1>5 DEF Grows

(* A checkout puts its order back: it may take back a deadline that was met,*)
(* and counts as one itself.                                                *)
LEMMA SavedAgain ==
    ASSUME Typed, TypeOK', NEW c \in Checkouts, SaveOrder(c), c \notin saved
    PROVE  Grows
  <1> DEFINE o == charging[c].order
  <1>1. o \in Orders
    BY DEF Typed, TypeOK, Held, SaveOrder
  <1> HIDE DEF o
  <1>2. /\ saved' = saved \cup {c} /\ reopened' = reopened /\ faults' = faults
        /\ \E until : Becomes(o, "pending", until)
    BY DEF SaveOrder, o
  <1>3. /\ Gone \in SUBSET Orders /\ reopened \in SUBSET Orders /\ Gone' = Gone \ {o}
    BY <1>1, <1>2 DEF Gone, Becomes, Typed, TypeOK
  <1>4. /\ Cardinality(Gone \ {o}) = IF o \in Gone THEN Cardinality(Gone) - 1 ELSE Cardinality(Gone)
        /\ Cardinality(Gone) \in Nat /\ Cardinality(reopened) \in Nat
        /\ Cardinality(saved') = Cardinality(saved) + 1 /\ Cardinality(saved) \in Nat
    BY <1>2, <1>3, FiniteParts, WithoutOne, SavedCheckouts DEF Typed, TypeOK
  <1>5. Met' = IF o \in Gone THEN Met ELSE Met + 1
    BY <1>2, <1>3, <1>4 DEF Met
  <1>6. Spent' = (IF o \in Gone THEN Spent ELSE Spent + 1) /\ Spent \in Nat
    <2>1. Met \in Nat /\ faults * PageSize \in Nat /\ Spent \in Nat
      BY Numbers DEF Typed
    <2> QED
      BY <1>2, <1>5, <2>1 DEF Spent
  <1>7. Bound <= Bound'
    <2>1. Deadlines <= Deadlines' /\ faults <= faults'
      <3>1. Cardinality(Orders) \in Nat /\ faults \in Nat
        BY FiniteParts, Numbers DEF Typed
      <3> QED
        BY <1>2, <1>4, <3>1 DEF Deadlines
    <2> QED
      BY <2>1, BoundGrows DEF Typed
  <1>8. ASSUME NEW S \in SUBSET Orders
        PROVE  Spent + Cardinality(Live(S)) <= Spent' + Cardinality(LiveNext(S))
    <2>1. Live(S) \in SUBSET Orders /\ LiveNext(S) \in SUBSET Orders
      BY DEF Live, LiveNext
    <2>2. Live(S) \ {o} \in SUBSET LiveNext(S)
      BY <1>1, <1>2 DEF Live, LiveNext, Becomes, Typed, TypeOK
    <2>3. /\ Cardinality(Live(S) \ {o}) <= Cardinality(LiveNext(S))
          /\ Cardinality(Live(S) \ {o}) \in Nat /\ Cardinality(LiveNext(S)) \in Nat
      BY <2>1, <2>2, LargerPart
    <2>4. /\ Cardinality(Live(S) \ {o}) = IF o \in Live(S) THEN Cardinality(Live(S)) - 1
                                                         ELSE Cardinality(Live(S))
          /\ Cardinality(Live(S)) \in Nat
      BY <2>1, WithoutOne
    <2>5. o \in Gone => o \notin Live(S)
      BY DEF Gone, Live
    <2> QED
      BY <1>6, <2>3, <2>4, <2>5
  <1> QED
    BY <1>7, <1>8 DEF Grows

(* A fault pays for a page.                                                 *)
LEMMA FaultPays ==
    ASSUME TypeOK, TypeOK', Fault, Gone' = Gone, reopened' = reopened, saved' = saved
    PROVE  Spent' = Spent + PageSize /\ Bound <= Bound'
  <1>1. faults' = faults + 1 /\ faults \in Nat /\ PageSize \in Nat
    BY SweepAssumption DEF Fault, TypeOK
  <1>2. faults' * PageSize = faults * PageSize + PageSize /\ faults * PageSize \in Nat
    BY <1>1, OneMore
  <1>3. Met' = Met /\ Deadlines' = Deadlines /\ Met \in Nat /\ Deadlines \in Nat
    BY Numbers DEF Met, Deadlines
  <1>4. faults <= faults'
    BY <1>1
  <1>5. Spent' = Spent + PageSize
    BY <1>1, <1>2, <1>3 DEF Spent
  <1>6. Bound <= Bound'
    BY <1>3, <1>4, BoundGrows
  <1> QED
    BY <1>5, <1>6

-----------------------------------------------------------------------------
(* Types *)

LEMMA InitTyped == Init => IInv
  <1> SUFFICES ASSUME Init PROVE IInv
    OBVIOUS
  <1>1. TypeOK
    BY SweepAssumption DEF Init, Booted, Off, TypeOK, Jobs, Job, Minutes
  <1>2. Pending = {} /\ Overdue = {} /\ RowsTimed /\ CallsShort /\ AgesDiffer /\ AssignsDue
    BY DEF Init, Off, Pending, Overdue, RowsTimed, CallsShort, AgesDiffer, Active, AssignsDue
  <1>3. PagesFit
    <2>1. \A j \in Jobs : job[j].page = {}
      BY DEF Init, Off
    <2>2. Cardinality({}) = 0
      BY FS_EmptySet
    <2> QED
      BY <2>1, <2>2, SweepAssumption DEF PagesFit
  <1> QED
    BY <1>1, <1>2, <1>3 DEF IInv, Typed, Covered, Served

(* Steps on the rows alone. *)
LEMMA RowTyped ==
    ASSUME Typed, NEW o \in Orders,
           Insert(o) \/ EndCreate(o) \/ Settle(o) \/ Reopen(o)
    PROVE  Typed'
  <1>1. TTL \in Minutes /\ TTL \in 0..TTL
    BY SweepAssumption DEF Minutes
  <1>2. TypeOK'
    <2>1. row' \in [Orders -> {"none", "open", "pending", "settled", "expired"}]
      BY DEF Typed, TypeOK, Insert, EndCreate, Settle, Reopen, Becomes
    <2>2. left' \in [Orders -> Minutes \cup {NoExpiry}]
      BY <1>1 DEF Typed, TypeOK, Insert, EndCreate, Settle, Reopen, Becomes
    <2>3. next' \in Minutes \cup {NoExpiry}
      BY <1>1 DEF Typed, TypeOK, Insert, EndCreate, Settle, Reopen, Track, sweepState
    <2>4. reopened' \subseteq Orders
      BY DEF Typed, TypeOK, Insert, EndCreate, Settle, Reopen
    <2>5. /\ since' = since /\ job' = job /\ faults' = faults
          /\ charging' = charging /\ saved' = saved
      BY DEF Insert, EndCreate, Settle, Reopen, sweepState, checkouts
    <2> QED
      BY <2>1, <2>2, <2>3, <2>4, <2>5 DEF Typed, TypeOK
  <1>3. RowsTimed'
    <2> SUFFICES ASSUME NEW p \in Orders
                 PROVE  /\ row'[p] = "pending" => left'[p] \in Minutes
                        /\ row'[p] = "open" => left'[p] \in 0..TTL
      BY DEF RowsTimed
    <2>1. /\ row[p] = "pending" => left[p] \in Minutes
          /\ row[p] = "open" => left[p] \in 0..TTL /\ left[p] \in Minutes
      BY SweepAssumption DEF Typed, RowsTimed, Minutes
    <2>2. (row'[p] = row[p] /\ left'[p] = left[p]) \/ p = o
      BY DEF Insert, EndCreate, Settle, Reopen, Becomes, Typed, TypeOK
    <2>3. p = o => \/ row'[p] = "open" /\ left'[p] = TTL
                   \/ row[p] = "open" /\ row'[p] = "pending" /\ left'[p] = left[p]
                   \/ row'[p] \in {"none", "settled", "expired"}
                   \/ row'[p] = "pending" /\ left'[p] = TTL
      BY DEF Insert, EndCreate, Settle, Reopen, Becomes, Typed, TypeOK
    <2> QED
      BY <1>1, <2>1, <2>2, <2>3
  <1>4. job' = job /\ charging' = charging /\ saved' = saved
    BY DEF Insert, EndCreate, Settle, Reopen, checkouts
  <1>5. PagesFit' /\ AgesDiffer' /\ CallsShort'
    BY <1>4 DEF Typed, PagesFit, AgesDiffer, Active, CallsShort
  <1> QED
    BY <1>2, <1>3, <1>5 DEF Typed

LEMMA CheckoutTyped ==
    ASSUME Typed, NEW c \in Checkouts,
           (\E o \in Orders : AskCharge(c, o)) \/ SaveOrder(c) \/ ChargeFails(c)
    PROVE  Typed'
  <1>1. /\ job' = job /\ reopened' = reopened /\ faults' = faults
        /\ next' = next /\ since' = since
    BY DEF AskCharge, SaveOrder, ChargeFails, sweepState
  <1>2. saved' \subseteq Checkouts
    BY DEF AskCharge, SaveOrder, ChargeFails, Typed, TypeOK
  <1>3. PagesFit' /\ AgesDiffer'
    BY <1>1 DEF Typed, PagesFit, AgesDiffer, Active
  <1>4. CASE \E o \in Orders : AskCharge(c, o)
    <2>1. PICK o \in Orders : AskCharge(c, o)
      BY <1>4
    <2>2. left[o] \in Minutes /\ left[o] >= 0 /\ left[o] \in Int
      BY <2>1, SweepAssumption DEF AskCharge, Typed, RowsTimed, Minutes
    <2>3. [order |-> o, left |-> left[o]] \in Held
      BY <2>2 DEF Held
    <2>4. charging' \in [Checkouts -> Held \cup {NoCharge}] /\ row' = row /\ left' = left
      BY <2>1, <2>3 DEF AskCharge, Typed, TypeOK
    <2>5. CallsShort'
      <3>1. left[o] >= -Late
        BY <2>2, SweepAssumption
      <3> QED
        BY <2>1, <3>1 DEF AskCharge, Typed, TypeOK, CallsShort
    <2> QED
      BY <1>1, <1>2, <1>3, <2>4, <2>5 DEF Typed, TypeOK, RowsTimed
  <1>5. CASE SaveOrder(c)
    <2>1. charging[c] \in Held
      BY <1>5 DEF SaveOrder, Typed, TypeOK
    <2>2. charging[c].order \in Orders /\ charging[c].left \in Minutes
      BY <2>1 DEF Held
    <2>3. Becomes(charging[c].order, "pending", charging[c].left)
      BY <1>5 DEF SaveOrder
    <2>4. /\ row' \in [Orders -> {"none", "open", "pending", "settled", "expired"}]
          /\ left' \in [Orders -> Minutes \cup {NoExpiry}]
          /\ RowsTimed'
      BY <2>2, <2>3 DEF Becomes, Typed, TypeOK, RowsTimed
    <2>5. charging' \in [Checkouts -> Held \cup {NoCharge}] /\ CallsShort'
      BY <1>5 DEF SaveOrder, Typed, TypeOK, CallsShort
    <2> QED
      BY <1>1, <1>2, <1>3, <2>4, <2>5 DEF Typed, TypeOK
  <1>6. CASE ChargeFails(c)
    <2>1. charging' \in [Checkouts -> Held \cup {NoCharge}] /\ CallsShort' /\ row' = row /\ left' = left
      BY <1>6 DEF ChargeFails, Typed, TypeOK, CallsShort
    <2> QED
      BY <1>1, <1>2, <1>3, <2>1 DEF Typed, TypeOK, RowsTimed
  <1> QED
    BY <1>4, <1>5, <1>6

LEMMA FindTyped == ASSUME Typed, NEW j \in Jobs, Find(j) PROVE Typed'
  <1>1. PICK page \in SUBSET Stale(j) :
           /\ Cardinality(page) <= PageSize
           /\ job' = [job EXCEPT ![j].page = page, ![j].pc = "expire"]
    BY DEF Find
  <1>2. page \in SUBSET Orders
    BY DEF Stale, Pending
  <1>3. /\ row' = row /\ left' = left /\ reopened' = reopened /\ next' = next /\ since' = since
        /\ faults' = faults /\ charging' = charging /\ saved' = saved
    BY DEF Find, sweepState, checkouts
  <1>4. job' \in [Jobs -> Job]
    BY <1>1, <1>2 DEF Typed, TypeOK, Job
  <1>5. TypeOK' /\ RowsTimed' /\ CallsShort'
    BY <1>3, <1>4 DEF Typed, TypeOK, RowsTimed, CallsShort
  <1>6. PagesFit'
    BY <1>1 DEF Typed, TypeOK, Job, PagesFit
  <1>7. \A k \in Jobs : job'[k].age = job[k].age /\ (Active(k)' => Active(k))
    BY <1>1 DEF Typed, TypeOK, Job, Active, Find
  <1>8. AgesDiffer'
    BY <1>7 DEF Typed, AgesDiffer
  <1> QED
    BY <1>5, <1>6, <1>8 DEF Typed

LEMMA FaultTyped == ASSUME TypeOK, Fault PROVE faults' \in 0..MaxFaults
  BY SweepAssumption DEF TypeOK, Fault

LEMMA ExpireOneTyped == ASSUME Typed, NEW j \in Jobs, ExpireOne(j) PROVE Typed'
  <1>1. PICK o \in job[j].page :
           /\ job' = [job EXCEPT ![j].page = @ \ {o}]
           /\ \/ /\ IF row[o] = "pending"
                    THEN Becomes(o, "expired", NoExpiry) ELSE UNCHANGED <<row, left>>
                 /\ UNCHANGED faults
              \/ Fault /\ UNCHANGED <<row, left>>
    BY DEF ExpireOne
  <1>2. job[j].page \in SUBSET Orders /\ o \in Orders
    BY DEF Typed, TypeOK, Job
  <1>3. /\ reopened' = reopened /\ next' = next /\ since' = since
        /\ charging' = charging /\ saved' = saved
    BY DEF ExpireOne, sweepState, checkouts
  <1>4. job' \in [Jobs -> Job]
    BY <1>1, <1>2 DEF Typed, TypeOK, Job
  <1>5. faults' \in 0..MaxFaults
    BY <1>1, FaultTyped DEF Typed, TypeOK
  <1>6. (row' = row /\ left' = left) \/ Becomes(o, "expired", NoExpiry)
    BY <1>1
  <1>7. TypeOK'
    <2>1. /\ row' \in [Orders -> {"none", "open", "pending", "settled", "expired"}]
          /\ left' \in [Orders -> Minutes \cup {NoExpiry}]
      BY <1>6 DEF Typed, TypeOK, Becomes
    <2> QED
      BY <1>3, <1>4, <1>5, <2>1 DEF Typed, TypeOK
  <1>8. RowsTimed'
    BY <1>6 DEF Typed, TypeOK, RowsTimed, Becomes
  <1>9. PagesFit'
    <2>1. Cardinality(job[j].page \ {o}) <= Cardinality(job[j].page)
          /\ Cardinality(job[j].page \ {o}) \in Nat /\ Cardinality(job[j].page) \in Nat
      BY <1>2, LargerPart
    <2>2. Cardinality(job[j].page \ {o}) <= PageSize
      BY <2>1, SweepAssumption DEF Typed, PagesFit
    <2> QED
      BY <1>1, <2>2 DEF Typed, TypeOK, Job, PagesFit
  <1>10. \A k \in Jobs : job'[k].age = job[k].age /\ (Active(k)' => Active(k))
    BY <1>1 DEF Typed, TypeOK, Job, Active
  <1>11. AgesDiffer' /\ CallsShort'
    BY <1>3, <1>10 DEF Typed, AgesDiffer, CallsShort
  <1> QED
    BY <1>7, <1>8, <1>9, <1>11 DEF Typed

LEMMA ReadNextTyped == ASSUME Typed, NEW j \in Jobs, ReadNext(j) PROVE Typed'
  <1>1. PICK until \in NextExpiry : job' = [job EXCEPT ![j].pc = "assign", ![j].next = until]
    BY DEF ReadNext
  <1>2. until \in Minutes \cup {NoExpiry}
    BY DEF NextExpiry, Soonest, Typed, TypeOK, Pending
  <1>3. /\ row' = row /\ left' = left /\ reopened' = reopened /\ next' = next /\ since' = since
        /\ faults' = faults /\ charging' = charging /\ saved' = saved
    BY DEF ReadNext, sweepState, checkouts
  <1>4. job' \in [Jobs -> Job]
    BY <1>1, <1>2 DEF Typed, TypeOK, Job
  <1>5. TypeOK' /\ RowsTimed' /\ CallsShort'
    BY <1>3, <1>4 DEF Typed, TypeOK, RowsTimed, CallsShort
  <1>6. PagesFit'
    BY <1>1 DEF Typed, TypeOK, Job, PagesFit
  <1>7. \A k \in Jobs : job'[k].age = job[k].age /\ (Active(k)' => Active(k))
    BY <1>1 DEF Typed, TypeOK, Job, Active, ReadNext
  <1>8. AgesDiffer'
    BY <1>7 DEF Typed, AgesDiffer
  <1> QED
    BY <1>5, <1>6, <1>8 DEF Typed

(* A sweep that has ended. *)
LEMMA OffTyped == Off \in Job /\ Cardinality(Off.page) = 0 /\ Off.pc = "off" /\ Off.age = 0
  BY FS_EmptySet, SweepAssumption DEF Off, Job, Jobs

LEMMA EndsTyped ==
    ASSUME Typed, NEW j \in Jobs, job' = [job EXCEPT ![j] = Off]
    PROVE  job' \in [Jobs -> Job] /\ PagesFit' /\ AgesDiffer'
  <1>1. job' \in [Jobs -> Job]
    BY OffTyped DEF Typed, TypeOK
  <1>2. PagesFit'
    BY OffTyped, SweepAssumption DEF Typed, TypeOK, PagesFit
  <1>3. AgesDiffer'
    BY OffTyped DEF Typed, TypeOK, AgesDiffer, Active
  <1> QED
    BY <1>1, <1>2, <1>3

LEMMA AssignTyped == ASSUME Typed, NEW j \in Jobs, Assign(j) PROVE Typed'
  <1>1. job' \in [Jobs -> Job] /\ PagesFit' /\ AgesDiffer'
    BY EndsTyped DEF Assign
  <1>2. next' \in Minutes \cup {NoExpiry} /\ since' \in 0..Safety
    <2>1. job[j].next \in Minutes \cup {NoExpiry} /\ job[j].age \in Nat
      BY SweepAssumption DEF Typed, TypeOK, Job
    <2> QED
      BY <2>1, SweepAssumption DEF Assign, AfterSweep
  <1> QED
    BY <1>1, <1>2 DEF Typed, TypeOK, RowsTimed, CallsShort, Assign, checkouts

LEMMA QueryFailsTyped == ASSUME Typed, NEW j \in Jobs, QueryFails(j) PROVE Typed'
  <1>1. job' \in [Jobs -> Job] /\ PagesFit' /\ AgesDiffer'
    BY EndsTyped DEF QueryFails
  <1>2. faults' \in 0..MaxFaults
    BY FaultTyped DEF QueryFails, Typed
  <1> QED
    BY <1>1, <1>2 DEF Typed, TypeOK, RowsTimed, CallsShort, QueryFails, sweepState, checkouts

LEMMA RestartTyped == ASSUME Typed, Restart PROVE Typed'
  <1>1. faults' \in 0..MaxFaults
    BY FaultTyped DEF Restart, Typed
  <1>2. TypeOK'
    <2>1. row' \in [Orders -> {"none", "open", "pending", "settled", "expired"}]
      BY DEF Restart, Typed, TypeOK
    <2>2. left' \in [Orders -> Minutes \cup {NoExpiry}]
      BY DEF Restart, Typed, TypeOK
    <2>3. job' \in [Jobs -> Job]
      BY OffTyped DEF Restart
    <2>4. /\ next' = NoExpiry /\ since' \in 0..Safety /\ reopened' = reopened /\ saved' = saved
          /\ charging' \in [Checkouts -> Held \cup {NoCharge}]
      BY SweepAssumption DEF Restart
    <2> QED
      BY <1>1, <2>1, <2>2, <2>3, <2>4 DEF Typed, TypeOK
  <1>3. RowsTimed' /\ CallsShort'
    BY DEF Restart, Typed, TypeOK, RowsTimed, CallsShort
  <1>4. PagesFit' /\ AgesDiffer'
    BY OffTyped, SweepAssumption DEF Restart, PagesFit, AgesDiffer, Active
  <1> QED
    BY <1>2, <1>3, <1>4 DEF Typed

(* Sweeps of different ages, none of JobMinutes, leave a job free.          *)
LEMMA OneIsFree ==
    ASSUME Typed, \A j \in Jobs : Active(j) => job[j].age < JobMinutes
    PROVE  FreeJob \in Jobs /\ ~Active(FreeJob)
  <1>1. \E j \in Jobs : ~Active(j)
    <2> SUFFICES ASSUME \A j \in Jobs : Active(j) PROVE FALSE
      OBVIOUS
    <2> DEFINE T == 0..(JobMinutes - 1)
               f == [j \in Jobs |-> job[j].age]
    <2>1. JobMinutes \in Nat /\ 0 \in Int /\ JobMinutes - 1 \in Int
      BY SweepAssumption
    <2>2. \A j \in Jobs : job[j].age \in T
      BY <2>1 DEF Typed, TypeOK, Job
    <2>3. f \in [Jobs -> T]
      BY <2>2
    <2>4. /\ IsFiniteSet(T)
          /\ Cardinality(T) = IF 0 > JobMinutes - 1 THEN 0 ELSE JobMinutes - 1 - 0 + 1
      BY <2>1, FS_Interval
    <2>5. /\ IsFiniteSet(Jobs)
          /\ Cardinality(Jobs) = IF 0 > JobMinutes THEN 0 ELSE JobMinutes - 0 + 1
      BY <2>1, FS_Interval DEF Jobs
    <2>6. Cardinality(T) < Cardinality(Jobs)
      <3> HIDE DEF T
      <3> QED
        BY <2>1, <2>4, <2>5
    <2> HIDE DEF T, f
    <2>7. \E j, k \in Jobs : j # k /\ f[j] = f[k]
      BY <2>3, <2>4, <2>5, <2>6, FS_PigeonHole
    <2> QED
      BY <2>7 DEF f, Typed, AgesDiffer
  <1> QED
    BY <1>1 DEF FreeJob, Active

(* A sweep a minute later, and one that starts.                             *)
Aged(r) == [r EXCEPT !.age = @ + 1, !.next = OneMinute(@)]
Started == [Off EXCEPT !.pc = "find"]

LEMMA MinuteShape ==
    ASSUME Typed, Minute
    PROVE  /\ FreeJob \in Jobs /\ ~Active(FreeJob)
           /\ \A j \in Jobs : Active(j) => job[j].age < JobMinutes /\ job'[j] = Aged(job[j])
           /\ \A j \in Jobs : ~Active(j) /\ j # FreeJob => job'[j] = Off
           /\ ShouldSweep(next', since') => job'[FreeJob] = Started
           /\ ~ShouldSweep(next', since') => job'[FreeJob] = Off
           /\ job' \in [Jobs -> Job]
           /\ next' = OneMinute(next) /\ since' = Older(since)
           /\ left' = [o \in Orders |-> OneMinute(left[o])]
           /\ row' = row /\ reopened' = reopened /\ saved' = saved /\ faults' = faults
           /\ \A o \in Orders : row[o] = "open" => left[o] > 0
  <1> DEFINE aged == [j \in Jobs |-> IF job[j].pc = "off" THEN Off
                                     ELSE [job[j] EXCEPT !.age = @ + 1, !.next = OneMinute(@)]]
  <1>1. /\ \A j \in Jobs : Active(j) => job[j].age < JobMinutes
        /\ next' = OneMinute(next) /\ since' = Older(since)
        /\ left' = [o \in Orders |-> OneMinute(left[o])]
        /\ row' = row /\ reopened' = reopened /\ saved' = saved /\ faults' = faults
        /\ \A o \in Orders : row[o] = "open" => left[o] > 0
    BY DEF Minute, Active
  <1>2. FreeJob \in Jobs /\ ~Active(FreeJob)
    BY <1>1, OneIsFree
  <1>3. IF ShouldSweep(next', since')
        THEN job' = [aged EXCEPT ![FreeJob].pc = "find"]
        ELSE job' = aged
    BY <1>1 DEF Minute
  <1>4. \A j \in Jobs : aged[j] = IF Active(j) THEN Aged(job[j]) ELSE Off
    BY DEF Active, Aged
  <1>5. ASSUME NEW j \in Jobs, Active(j) PROVE Aged(job[j]) \in Job
    <2>1. job[j] \in Job /\ job[j].age \in 0..JobMinutes /\ job[j].age < JobMinutes
          /\ job[j].next \in Minutes \cup {NoExpiry}
      BY <1>1, <1>5 DEF Typed, TypeOK, Job
    <2>2. job[j].age + 1 \in 0..JobMinutes /\ OneMinute(job[j].next) \in Minutes \cup {NoExpiry}
      BY <2>1, MinutesOf, SweepAssumption
    <2> QED
      BY <2>1, <2>2 DEF Aged, Job
  <1>6. Off \in Job /\ Started \in Job
    BY OffTyped DEF Started, Job
  <1>7. aged \in [Jobs -> Job]
    BY <1>4, <1>5, <1>6
  <1>8. CASE ShouldSweep(next', since')
    <2>1. job' = [aged EXCEPT ![FreeJob].pc = "find"]
      BY <1>3, <1>8
    <2>2. aged[FreeJob] = Off
      BY <1>2, <1>4
    <2>3. job' = [aged EXCEPT ![FreeJob] = Started]
      BY <2>1, <2>2 DEF Started
    <2> HIDE DEF aged
    <2>4. /\ job' \in [Jobs -> Job] /\ job'[FreeJob] = Started
          /\ \A j \in Jobs : j # FreeJob => job'[j] = aged[j]
      BY <1>2, <1>6, <1>7, <2>3
    <2>5. /\ \A j \in Jobs : Active(j) => job'[j] = Aged(job[j])
          /\ \A j \in Jobs : ~Active(j) /\ j # FreeJob => job'[j] = Off
      BY <1>2, <1>4, <2>4
    <2> QED
      BY <1>1, <1>2, <1>8, <2>4, <2>5
  <1>9. CASE ~ShouldSweep(next', since')
    <2>1. job' = aged
      BY <1>3, <1>9
    <2> HIDE DEF aged
    <2> QED
      BY <1>1, <1>2, <1>4, <1>7, <1>9, <2>1
  <1> QED
    BY <1>8, <1>9

LEMMA MinuteCalls ==
    ASSUME Typed, Minute
    PROVE  charging' \in [Checkouts -> Held \cup {NoCharge}] /\ CallsShort'
  <1>1. /\ \A c \in Checkouts : charging[c] # NoCharge => charging[c].left > -Late
        /\ charging' = [c \in Checkouts |-> IF charging[c] = NoCharge THEN NoCharge
                                            ELSE [charging[c] EXCEPT !.left = OneMinute(@)]]
    BY DEF Minute
  <1>2. ASSUME NEW c \in Checkouts, charging[c] # NoCharge
        PROVE  /\ [charging[c] EXCEPT !.left = OneMinute(@)] \in Held
               /\ [charging[c] EXCEPT !.left = OneMinute(@)].left >= -Late
    <2>1. charging[c] \in Held /\ charging[c].left \in Minutes
      BY <1>2 DEF Typed, TypeOK, Held
    <2>2. /\ OneMinute(charging[c].left) \in Minutes /\ OneMinute(charging[c].left) \in Int
          /\ charging[c].left \in Int /\ charging[c].left - 1 <= OneMinute(charging[c].left)
      BY <2>1, MinutesOf
    <2>3. OneMinute(charging[c].left) >= -Late
      <3>1. charging[c].left > -Late /\ Late \in Nat
        BY <1>1, <1>2, SweepAssumption
      <3> QED
        BY <2>2, <3>1
    <2> QED
      BY <2>1, <2>2, <2>3 DEF Held
  <1> QED
    BY <1>1, <1>2, MinuteShape DEF CallsShort, Typed

LEMMA MinuteTyped == ASSUME Typed, Minute PROVE Typed'
  <1>1. /\ FreeJob \in Jobs /\ ~Active(FreeJob)
        /\ \A j \in Jobs : Active(j) => job'[j] = Aged(job[j])
        /\ \A j \in Jobs : ~Active(j) /\ j # FreeJob => job'[j] = Off
        /\ job'[FreeJob] \in {Started, Off}
        /\ job' \in [Jobs -> Job]
        /\ next' = OneMinute(next) /\ since' = Older(since)
        /\ left' = [o \in Orders |-> OneMinute(left[o])]
        /\ row' = row /\ reopened' = reopened /\ saved' = saved /\ faults' = faults
        /\ \A o \in Orders : row[o] = "open" => left[o] > 0
    BY MinuteShape
  <1>2. \A o \in Orders : left[o] \in Minutes \cup {NoExpiry}
    BY DEF Typed, TypeOK
  <1>3. TypeOK'
    <2>1. left' \in [Orders -> Minutes \cup {NoExpiry}]
      BY <1>1, <1>2, MinutesOf
    <2>2. next' \in Minutes \cup {NoExpiry}
      BY <1>1, MinutesOf DEF Typed, TypeOK
    <2>3. since' \in 0..Safety
      BY <1>1, SweepAssumption DEF Typed, TypeOK, Older
    <2> QED
      BY <1>1, <2>1, <2>2, <2>3, MinuteCalls DEF Typed, TypeOK
  <1>4. RowsTimed'
    <2> SUFFICES ASSUME NEW o \in Orders
                 PROVE  /\ row[o] = "pending" => left'[o] \in Minutes
                        /\ row[o] = "open" => left'[o] \in 0..TTL
      BY <1>1 DEF RowsTimed
    <2>1. left'[o] = OneMinute(left[o])
      BY <1>1
    <2>2. row[o] = "pending" => left'[o] \in Minutes
      BY <1>2, <2>1, MinutesOf DEF Typed, RowsTimed
    <2>3. row[o] = "open" => left[o] \in 1..TTL
      BY <1>1, SweepAssumption DEF Typed, RowsTimed
    <2>4. row[o] = "open" => left'[o] \in 0..TTL
      BY <2>1, <2>3, SweepAssumption DEF OneMinute
    <2> QED
      BY <2>2, <2>4
  <1>5. \A r \in Job : Aged(r).page = r.page /\ Aged(r).age = r.age + 1
    BY DEF Aged, Job
  <1>6. Started.page = {} /\ Off.page = {} /\ Started.age = 0 /\ Off.pc = "off"
    BY DEF Started, Off
  <1>7. PagesFit'
    <2>1. Cardinality({}) = 0
      BY FS_EmptySet
    <2>2. \A j \in Jobs : job'[j].page \in {job[j].page, {}}
      BY <1>1, <1>5, <1>6 DEF Typed, TypeOK
    <2>3. ASSUME NEW j \in Jobs PROVE Cardinality(job'[j].page) <= PageSize
      <3>1. CASE job'[j].page = job[j].page
        BY <3>1 DEF Typed, PagesFit
      <3>2. CASE job'[j].page = {}
        BY <2>1, <3>2, SweepAssumption
      <3> QED
        BY <2>2, <3>1, <3>2
    <2> QED
      BY <2>3 DEF PagesFit
  <1>8. AgesDiffer'
    <2> SUFFICES ASSUME NEW j \in Jobs, NEW k \in Jobs, j # k, Active(j)', Active(k)'
                 PROVE  job'[j].age # job'[k].age
      BY DEF AgesDiffer
    <2>1. \A i \in {j, k} : \/ Active(i) /\ job'[i].age = job[i].age + 1
                            \/ i = FreeJob /\ job'[i].age = 0
      BY <1>1, <1>5, <1>6 DEF Active, Typed, TypeOK
    <2>2. job[j].age \in Nat /\ job[k].age \in Nat
      BY SweepAssumption DEF Typed, TypeOK, Job
    <2>3. Active(j) /\ Active(k) => job[j].age # job[k].age
      BY DEF Typed, AgesDiffer
    <2> QED
      BY <2>1, <2>2, <2>3
  <1> QED
    BY <1>3, <1>4, <1>7, <1>8, MinuteCalls DEF Typed

-----------------------------------------------------------------------------
(* What the sweep is told *)

LEMMA OldOverdue ==
    ASSUME Typed, NEW o \in Overdue
    PROVE  /\ o \in Pending /\ o \in Orders /\ row[o] = "pending"
           /\ left[o] \in Minutes /\ left[o] \in Int /\ left[o] < 0
  BY SweepAssumption DEF Overdue, Pending, Typed, RowsTimed, Minutes

LEMMA JobTypes ==
    ASSUME Typed, NEW j \in Jobs
    PROVE  /\ job[j] \in Job /\ job[j].age \in 0..JobMinutes /\ job[j].age \in Nat
           /\ job[j].page \in SUBSET Orders /\ job[j].next \in Minutes \cup {NoExpiry}
           /\ JobMinutes \in Nat
  BY SweepAssumption DEF Typed, TypeOK, Job

(* Steps on the rows alone make no order overdue.                           *)
LEMMA RowShape ==
    ASSUME Typed, NEW o \in Orders,
           Insert(o) \/ EndCreate(o) \/ Settle(o) \/ Reopen(o)
    PROVE  /\ job' = job /\ since' = since
           /\ Due(next) => Due(next')
           /\ \A p \in Pending' : (p \in Pending /\ left'[p] = left[p]) \/ left'[p] \in 0..TTL
           /\ \A p \in Overdue' : p \in Overdue /\ left'[p] = left[p]
  <1>1. TTL \in Nat
    BY SweepAssumption
  <1>2. job' = job /\ since' = since
    BY DEF Insert, EndCreate, Settle, Reopen, sweepState
  <1>3. Due(next) => Due(next')
    BY <1>1 DEF Due, Insert, EndCreate, Settle, Reopen, sweepState, Track, Typed, TypeOK, Minutes
  <1>4. ASSUME NEW p \in Pending'
        PROVE  (p \in Pending /\ left'[p] = left[p]) \/ left'[p] \in 0..TTL
    <2>1. p \in Orders /\ row'[p] = "pending"
      BY DEF Pending
    <2>2. CASE p # o
      <3>1. row'[p] = row[p] /\ left'[p] = left[p]
        BY <2>1, <2>2 DEF Insert, EndCreate, Settle, Reopen, Becomes, Typed, TypeOK
      <3> QED
        BY <2>1, <3>1 DEF Pending
    <2>3. CASE p = o
      <3>1. \/ row[p] = "open" /\ left'[p] = left[p]
            \/ left'[p] = TTL
        BY <2>1, <2>3 DEF Insert, EndCreate, Settle, Reopen, Becomes, Typed, TypeOK
      <3> QED
        BY <1>1, <2>1, <3>1 DEF Typed, RowsTimed
    <2> QED
      BY <2>2, <2>3
  <1>5. ASSUME NEW p \in Overdue' PROVE p \in Overdue /\ left'[p] = left[p]
    <2>1. p \in Pending' /\ left'[p] < 0
      BY DEF Overdue
    <2>2. p \in Pending /\ left'[p] = left[p]
      BY <1>1, <1>4, <2>1
    <2> QED
      BY <2>1, <2>2 DEF Overdue
  <1> QED
    BY <1>2, <1>3, <1>4, <1>5

(* A checkout makes an order overdue only by putting it back, and not long  *)
(* after the deadline.                                                      *)
LEMMA CheckoutShape ==
    ASSUME Typed, NEW c \in Checkouts,
           (\E o \in Orders : AskCharge(c, o)) \/ SaveOrder(c) \/ ChargeFails(c)
    PROVE  /\ job' = job /\ since' = since /\ next' = next
           /\ \A p \in Pending' :
                \/ p \in Pending /\ left'[p] = left[p]
                \/ left'[p] \in Int /\ left'[p] >= -Late
           /\ \A p \in Overdue' :
                \/ p \in Overdue /\ left'[p] = left[p]
                \/ left'[p] \in Int /\ left'[p] >= -Late
  <1>1. job' = job /\ since' = since /\ next' = next
    BY DEF AskCharge, SaveOrder, ChargeFails, sweepState
  <1>2. ASSUME NEW p \in Pending'
        PROVE  \/ p \in Pending /\ left'[p] = left[p]
               \/ left'[p] \in Int /\ left'[p] >= -Late
    <2>1. CASE SaveOrder(c)
      <3>1. charging[c] \in Held /\ charging[c].left >= -Late
        BY <2>1 DEF SaveOrder, Typed, TypeOK, CallsShort
      <3>2. charging[c].left \in Int
        BY <3>1, SweepAssumption DEF Held, Minutes
      <3>3. Becomes(charging[c].order, "pending", charging[c].left) /\ p \in Orders
        BY <2>1 DEF SaveOrder, Pending
      <3>4. CASE p = charging[c].order
        BY <3>1, <3>2, <3>3, <3>4 DEF Becomes, Typed, TypeOK
      <3>5. CASE p # charging[c].order
        BY <3>3, <3>5 DEF Becomes, Typed, TypeOK, Pending
      <3> QED
        BY <3>4, <3>5
    <2>2. CASE ~SaveOrder(c)
      BY <2>2 DEF AskCharge, ChargeFails, Pending
    <2> QED
      BY <2>1, <2>2
  <1>3. \A p \in Overdue' : p \in Pending' /\ left'[p] < 0
    BY DEF Overdue
  <1> QED
    BY <1>1, <1>2, <1>3 DEF Overdue

(* The read of the next deadline finds one that is due, if there is one.    *)
LEMMA ReadsDue ==
    ASSUME Typed, NEW until \in NextExpiry, NEW o \in Overdue
    PROVE  Due(until)
  <1>1. o \in Pending /\ left[o] \in Int /\ left[o] < 0
    BY OldOverdue
  <1>2. PICK p \in Pending : until = left[p] /\ \A q \in Pending : left[p] <= left[q]
    BY <1>1 DEF NextExpiry, Soonest
  <1>3. left[p] \in Int
    BY SweepAssumption DEF Pending, Typed, RowsTimed, Minutes
  <1>4. left[p] <= left[o]
    BY <1>1, <1>2
  <1> QED
    BY <1>1, <1>2, <1>3, <1>4, SweepAssumption DEF Due

(* Steps of sweeps that leave sweepState and the deadlines alone.           *)
LEMMA ExpireOneShape ==
    ASSUME Typed, NEW j \in Jobs, ExpireOne(j)
    PROVE  /\ next' = next /\ since' = since /\ reopened' = reopened /\ saved' = saved
           /\ \A p \in Pending' : p \in Pending /\ left'[p] = left[p]
           /\ \A p \in Overdue' : p \in Overdue /\ left'[p] = left[p]
           /\ \A k \in Jobs : k # j => job'[k] = job[k]
           /\ job'[j].pc = "expire" /\ job[j].pc = "expire" /\ job'[j].age = job[j].age
  <1>1. PICK o \in job[j].page :
           /\ job' = [job EXCEPT ![j].page = @ \ {o}]
           /\ (row' = row /\ left' = left) \/ Becomes(o, "expired", NoExpiry)
    BY DEF ExpireOne
  <1>2. o \in Orders
    BY JobTypes
  <1>3. /\ next' = next /\ since' = since /\ reopened' = reopened /\ saved' = saved
        /\ job[j].pc = "expire"
    BY DEF ExpireOne, sweepState, checkouts
  <1>4. \A p \in Pending' : p \in Pending /\ left'[p] = left[p]
    BY <1>1, <1>2 DEF Pending, Becomes, Typed, TypeOK
  <1>5. \A p \in Overdue' : p \in Overdue /\ left'[p] = left[p]
    BY <1>4 DEF Overdue
  <1>6. /\ \A k \in Jobs : k # j => job'[k] = job[k]
        /\ job'[j].pc = "expire" /\ job'[j].age = job[j].age
    BY <1>1, <1>3 DEF Typed, TypeOK, Job
  <1> QED
    BY <1>3, <1>4, <1>5, <1>6

(* An order that is overdue after a minute had no time left before it.      *)
LEMMA MinuteOverdue ==
    ASSUME Typed, Minute, NEW o \in Overdue'
    PROVE  /\ o \in Pending /\ left[o] \in Int /\ left[o] \in Minutes /\ left[o] <= 0
           /\ left'[o] = OneMinute(left[o]) /\ left'[o] \in Int
           /\ left[o] - 1 <= left'[o] /\ left'[o] <= left[o] /\ left'[o] < 0
           /\ left[o] < 0 => o \in Overdue
  <1>1. /\ row' = row /\ left' = [p \in Orders |-> OneMinute(left[p])]
    BY MinuteShape
  <1>2. o \in Pending /\ o \in Orders /\ left'[o] < 0
    BY <1>1 DEF Overdue, Pending
  <1>3. left[o] \in Minutes /\ left[o] \in Int /\ left'[o] = OneMinute(left[o])
    BY <1>1, <1>2, SweepAssumption DEF Pending, Typed, RowsTimed, Minutes
  <1>4. left'[o] \in Int /\ left[o] - 1 <= left'[o] /\ left'[o] <= left[o]
    BY <1>3, MinutesOf
  <1>5. left[o] <= 0
    BY <1>2, <1>3, <1>4, SweepAssumption
  <1>6. left[o] < 0 => o \in Overdue
    BY <1>2 DEF Overdue
  <1> QED
    BY <1>2, <1>3, <1>4, <1>5, <1>6

LEMMA AssignsDueNext ==
    ASSUME Typed, AssignsDue, Typed', Next
    PROVE  AssignsDue'
  <1> SUFFICES ASSUME NEW k \in Jobs, job'[k].pc = "assign", NEW p \in Pending'
               PROVE  left'[p] + job'[k].age >= -Late \/ Due(job'[k].next)
    BY DEF AssignsDue, Due
  <1>1. /\ job[k] \in Job /\ job[k].age \in Nat /\ job'[k].age \in Nat
        /\ job[k].next \in Minutes \cup {NoExpiry}
    BY SweepAssumption DEF Typed, TypeOK, Job
  <1>2. /\ p \in Orders /\ left'[p] \in Int /\ Late \in Nat
    BY SweepAssumption DEF Pending, Typed, RowsTimed, Minutes
  <1>3. ASSUME p \in Pending, left'[p] = left[p], job'[k] = job[k]
        PROVE  left'[p] + job'[k].age >= -Late \/ Due(job'[k].next)
    BY <1>3 DEF AssignsDue
  <1>4. CASE \E o \in Orders : Insert(o) \/ EndCreate(o) \/ Settle(o) \/ Reopen(o)
    <2>1. job' = job
      BY <1>4, RowShape
    <2>2. (p \in Pending /\ left'[p] = left[p]) \/ left'[p] \in 0..TTL
      BY <1>4, RowShape
    <2>3. CASE left'[p] \in 0..TTL
      BY <1>1, <1>2, <2>3
    <2> QED
      BY <1>3, <2>1, <2>2, <2>3
  <1>5. ASSUME NEW j \in Jobs, Sweep(j)
        PROVE  left'[p] + job'[k].age >= -Late \/ Due(job'[k].next)
    <2>1. p \in Pending /\ left'[p] = left[p]
      <3>1. CASE ExpireOne(j)
        BY <3>1, ExpireOneShape
      <3>2. CASE ~ExpireOne(j)
        BY <1>5, <3>2 DEF Sweep, Find, ReadNext, Assign, QueryFails, Pending
      <3> QED
        BY <3>1, <3>2
    <2>2. CASE k # j
      <3>1. job'[k] = job[k]
        <4>1. CASE ExpireOne(j)
          BY <2>2, <4>1, ExpireOneShape
        <4>2. CASE ~ExpireOne(j)
          BY <1>5, <2>2, <4>2 DEF Sweep, Find, ReadNext, Assign, QueryFails, Typed, TypeOK
        <4> QED
          BY <4>1, <4>2
      <3> QED
        BY <1>3, <2>1, <3>1
    <2>3. CASE k = j
      <3>1. ReadNext(j)
        <4>1. ~Find(j)
          BY <2>3 DEF Find, Typed, TypeOK, Job
        <4>2. ~ExpireOne(j)
          BY <2>3, ExpireOneShape
        <4>3. ~Assign(j) /\ ~QueryFails(j)
          BY <2>3, OffTyped DEF Assign, QueryFails, Typed, TypeOK
        <4> QED
          BY <1>5, <4>1, <4>2, <4>3 DEF Sweep
      <3>2. PICK until \in NextExpiry : job' = [job EXCEPT ![j].pc = "assign", ![j].next = until]
        BY <3>1 DEF ReadNext
      <3>3. job'[k].next = until
        BY <2>3, <3>2, <1>1 DEF Typed, TypeOK, Job
      <3>4. CASE left[p] < 0
        BY <2>1, <3>3, <3>4, ReadsDue DEF Overdue
      <3>5. CASE ~(left[p] < 0)
        BY <1>1, <1>2, <2>1, <3>5
      <3> QED
        BY <3>4, <3>5
    <2> QED
      BY <2>2, <2>3
  <1>6. CASE Restart
    BY <1>6, OffTyped DEF Restart
  <1>7. CASE Minute
    <2>1. Active(k) /\ job'[k] = Aged(job[k])
      BY <1>7, MinuteShape, OffTyped DEF Started, Off
    <2>2. job[k].pc = "assign" /\ job'[k].age = job[k].age + 1 /\ job'[k].next = OneMinute(job[k].next)
      BY <1>1, <2>1 DEF Aged, Job
    <2>3. p \in Pending /\ left'[p] = OneMinute(left[p])
      BY <1>7, MinuteShape DEF Pending
    <2>4. left[p] \in Minutes
      BY <2>3 DEF Pending, Typed, RowsTimed
    <2>5. left[p] \in Int /\ left[p] - 1 <= left'[p]
      BY <2>3, <2>4, MinutesOf
    <2>6. CASE Due(job[k].next)
      BY <1>1, <2>2, <2>6, MinutesOf
    <2>7. CASE left[p] + job[k].age >= -Late
      BY <1>1, <1>2, <2>2, <2>5, <2>7
    <2> QED
      BY <2>2, <2>3, <2>6, <2>7 DEF AssignsDue
  <1>8. ASSUME NEW c \in Checkouts,
               (\E o \in Orders : AskCharge(c, o)) \/ SaveOrder(c) \/ ChargeFails(c)
        PROVE  left'[p] + job'[k].age >= -Late \/ Due(job'[k].next)
    <2>1. job' = job
      BY <1>8, CheckoutShape
    <2>2. (p \in Pending /\ left'[p] = left[p]) \/ left'[p] >= -Late
      BY <1>8, CheckoutShape
    <2>3. CASE left'[p] >= -Late
      BY <1>1, <1>2, <2>3
    <2> QED
      BY <1>3, <2>1, <2>2, <2>3
  <1> QED
    BY <1>4, <1>5, <1>6, <1>7, <1>8 DEF Next

LEMMA CoveredNext ==
    ASSUME Typed, AssignsDue, Covered, Typed', Next
    PROVE  Covered'
  <1> SUFFICES ASSUME NEW p \in Overdue'
               PROVE  ShouldSweep(next', since') \/ -left'[p] <= since' + Late
    BY DEF Covered, ShouldSweep
  <1>1. /\ left'[p] \in Int /\ since \in 0..Safety /\ since' \in 0..Safety
        /\ Safety \in Nat \ {0} /\ Late \in Nat /\ next \in Minutes \cup {NoExpiry}
    BY SweepAssumption DEF Overdue, Pending, Typed, TypeOK, RowsTimed, Minutes
  <1>2. \A n, s : ShouldSweep(n, s) <=> Due(n) \/ s >= Safety
    BY DEF ShouldSweep, Due
  <1>3. ASSUME p \in Overdue, left'[p] = left[p], since' = since, Due(next) => Due(next')
        PROVE  ShouldSweep(next', since') \/ -left'[p] <= since' + Late
    BY <1>2, <1>3 DEF Covered
  <1>4. CASE \E o \in Orders : Insert(o) \/ EndCreate(o) \/ Settle(o) \/ Reopen(o)
    BY <1>3, <1>4, RowShape
  <1>5. ASSUME NEW j \in Jobs, Find(j) \/ ReadNext(j) \/ QueryFails(j)
        PROVE  ShouldSweep(next', since') \/ -left'[p] <= since' + Late
    <2>1. row' = row /\ left' = left /\ next' = next /\ since' = since
      BY <1>5 DEF Find, ReadNext, QueryFails, sweepState
    <2>2. p \in Overdue
      BY <2>1 DEF Overdue, Pending
    <2> QED
      BY <1>3, <2>1, <2>2
  <1>6. ASSUME NEW j \in Jobs, ExpireOne(j)
        PROVE  ShouldSweep(next', since') \/ -left'[p] <= since' + Late
    BY <1>3, <1>6, ExpireOneShape
  <1>7. ASSUME NEW j \in Jobs, Assign(j)
        PROVE  ShouldSweep(next', since') \/ -left'[p] <= since' + Late
    <2>1. /\ row' = row /\ left' = left /\ job[j].pc = "assign"
          /\ next' = job[j].next
          /\ since' = IF job[j].age < Safety THEN job[j].age ELSE Safety
      BY <1>7 DEF Assign, AfterSweep
    <2>2. p \in Pending
      BY <2>1 DEF Overdue, Pending
    <2>3. left'[p] + job[j].age >= -Late \/ Due(next')
      BY <2>1, <2>2 DEF AssignsDue
    <2>4. job[j].age \in Nat
      BY JobTypes
    <2>5. CASE Due(next')
      BY <1>2, <2>5
    <2>6. CASE job[j].age >= Safety
      <3>1. since' >= Safety
        BY <1>1, <2>1, <2>4, <2>6
      <3> QED
        BY <1>2, <3>1
    <2>7. CASE left'[p] + job[j].age >= -Late /\ ~(job[j].age >= Safety)
      <3>1. since' = job[j].age
        BY <1>1, <2>1, <2>4, <2>7
      <3> QED
        BY <1>1, <2>4, <2>7, <3>1
    <2> QED
      BY <2>3, <2>5, <2>6, <2>7
  <1>8. CASE Restart
    <2>1. since' >= Safety
      BY <1>1, <1>8 DEF Restart
    <2> QED
      BY <1>2, <2>1
  <1>9. CASE Minute
    <2>1. /\ left[p] \in Int /\ left[p] <= 0 /\ left[p] - 1 <= left'[p]
          /\ left[p] < 0 => p \in Overdue
      BY <1>9, MinuteOverdue
    <2>2. next' = OneMinute(next) /\ since' = Older(since)
      BY <1>9, MinuteShape
    <2>3. since' = IF since < Safety THEN since + 1 ELSE since
      BY <2>2 DEF Older
    <2>4. CASE Due(next)
      <3>1. Due(next')
        BY <1>1, <2>2, <2>4, MinutesOf
      <3> QED
        BY <1>2, <3>1
    <2>5. CASE since >= Safety
      <3>1. since' >= Safety
        BY <1>1, <2>3, <2>5
      <3> QED
        BY <1>2, <3>1
    <2>6. CASE ~Due(next) /\ ~(since >= Safety)
      <3>1. since' = since + 1
        BY <1>1, <2>3, <2>6
      <3>2. -left[p] <= since + Late
        <4>1. CASE left[p] < 0
          BY <1>2, <2>1, <2>6, <4>1 DEF Covered
        <4>2. CASE left[p] = 0
          BY <1>1, <4>2
        <4> QED
          BY <2>1, <4>1, <4>2
      <3> QED
        BY <1>1, <2>1, <3>1, <3>2
    <2> QED
      BY <2>4, <2>5, <2>6
  <1>10. ASSUME NEW c \in Checkouts,
                (\E o \in Orders : AskCharge(c, o)) \/ SaveOrder(c) \/ ChargeFails(c)
         PROVE  ShouldSweep(next', since') \/ -left'[p] <= since' + Late
    <2>1. /\ since' = since /\ next' = next
          /\ (p \in Overdue /\ left'[p] = left[p]) \/ left'[p] >= -Late
      BY <1>10, CheckoutShape
    <2>2. CASE left'[p] >= -Late
      BY <1>1, <2>2
    <2> QED
      BY <1>3, <2>1, <2>2
  <1> QED
    BY <1>4, <1>5, <1>6, <1>7, <1>8, <1>9, <1>10 DEF Next, Sweep

-----------------------------------------------------------------------------
(* An overdue order is served *)

Reached(o) == -Floor <= Bound \/ Waits(o) \/ \E j \in Jobs : Sweeps(j, o)

(* When nothing is taken back, an order waits or is swept as before.        *)
LEMMA NumbersNext ==
    ASSUME TypeOK'
    PROVE  /\ Spent' \in Nat /\ Bound' \in Int /\ Met' \in Nat
           /\ \A S \in SUBSET Orders : Cardinality(LiveNext(S)) \in Nat
  <1>1. Gone' \in SUBSET Orders /\ reopened' \in SUBSET Orders
    BY DEF Gone, TypeOK
  <1>2. Met' \in Nat /\ Deadlines' \in Nat /\ faults' \in Nat
    BY <1>1, FiniteParts, SavedCheckouts, SweepAssumption DEF Met, Deadlines, TypeOK
  <1>3. faults' * PageSize \in Nat /\ Pages' \in Int
    <2>1. faults' * PageSize \in Nat
      BY <1>2, NaturalProduct, SweepAssumption
    <2>2. Pages' \in Int
      BY <1>2, PagesType, SweepAssumption DEF Pages
    <2> QED
      BY <2>1, <2>2
  <1>4. Rounds(Pages' + faults') \in Int
    BY <1>2, <1>3, RoundsType
  <1>5. \A S \in SUBSET Orders : LiveNext(S) \in SUBSET Orders
    BY DEF LiveNext
  <1> QED
    BY <1>2, <1>3, <1>4, <1>5, FiniteParts DEF Spent, Bound, Rounds

LEMMA KeptPaid ==
    ASSUME Typed, Typed', Grows
    PROVE  /\ -Floor <= Bound => -Floor <= Bound'
           /\ \A x \in Int : x * PageSize <= Spent => x * PageSize <= Spent'
           /\ \A x \in Int : \A S \in SUBSET Orders :
                x * PageSize <= Spent + Cardinality(Live(S))
                   => x * PageSize <= Spent' + Cardinality(LiveNext(S))
  <1>1. /\ Bound \in Int /\ Spent \in Nat /\ PageSize \in Int /\ Floor \in Int
        /\ \A S \in SUBSET Orders : Cardinality(Live(S)) \in Nat
    BY Numbers, SweepAssumption DEF Typed
  <1>2. /\ Bound' \in Int /\ Spent' \in Nat
        /\ \A S \in SUBSET Orders : Cardinality(LiveNext(S)) \in Nat
    BY NumbersNext DEF Typed
  <1>3. -Floor <= Bound => -Floor <= Bound'
    BY <1>1, <1>2 DEF Grows
  <1>4. Spent <= Spent'
    <2>1. Live({}) = {} /\ LiveNext({}) = {}
      BY DEF Live, LiveNext
    <2>2. Spent + Cardinality(Live({})) <= Spent' + Cardinality(LiveNext({}))
      BY DEF Grows
    <2>3. Cardinality({}) = 0
      BY FS_EmptySet
    <2> QED
      BY <1>1, <1>2, <2>1, <2>2, <2>3
  <1>5. ASSUME NEW x \in Int, x * PageSize <= Spent PROVE x * PageSize <= Spent'
    <2>1. x * PageSize \in Int
      BY <1>1
    <2> QED
      BY <1>1, <1>2, <1>4, <1>5, <2>1
  <1>6. ASSUME NEW x \in Int, NEW S \in SUBSET Orders,
               x * PageSize <= Spent + Cardinality(Live(S))
        PROVE  x * PageSize <= Spent' + Cardinality(LiveNext(S))
    <2>1. x * PageSize \in Int
      BY <1>1
    <2>2. Spent + Cardinality(Live(S)) <= Spent' + Cardinality(LiveNext(S))
      BY DEF Grows
    <2> QED
      BY <1>1, <1>2, <1>6, <2>1, <2>2
  <1> QED
    BY <1>3, <1>5, <1>6

LEMMA KeptWaiting ==
    ASSUME Typed, Typed', Grows, NEW o \in Overdue, left'[o] = left[o]
    PROVE  Waits(o) => Waits(o)'
  <1>1. \A x \in Int : x * PageSize <= Spent => x * PageSize <= Spent'
    BY KeptPaid
  <1> QED
    BY <1>1 DEF Waits, Rounds

LEMMA KeptSwept ==
    ASSUME Typed, Typed', Grows, NEW o \in Overdue, left'[o] = left[o],
           NEW j \in Jobs, job'[j] = job[j], Sweeps(j, o)
    PROVE  Sweeps(j, o)'
  <1>1. PICK x \in Nat : -left[o] - job[j].age <= Rounds(x) + 1 /\ Pays(o, j, x)
    BY DEF Sweeps
  <1>2. job[j].page \in SUBSET Orders /\ x \in Int /\ x + 1 \in Int
    BY JobTypes
  <1>3. /\ x * PageSize <= Spent => x * PageSize <= Spent'
        /\ (x + 1) * PageSize <= Spent => (x + 1) * PageSize <= Spent'
        /\ (x + 1) * PageSize <= Spent + Cardinality(Live(job[j].page))
             => (x + 1) * PageSize <= Spent' + Cardinality(LiveNext(job[j].page))
    BY <1>2, KeptPaid
  <1>4. Live(job[j].page)' = LiveNext(job[j].page)
    BY DEF Live, LiveNext
  <1>5. Pays(o, j, x)'
    BY <1>1, <1>3, <1>4 DEF Pays, Due
  <1>6. (-left[o] - job[j].age <= Rounds(x) + 1)'
    BY <1>1 DEF Rounds
  <1>7. Active(j)' /\ (left[o] + job[j].age < 0)'
    BY DEF Sweeps, Active
  <1> QED
    BY <1>5, <1>6, <1>7 DEF Sweeps

(* Of a sweep that ends, what an order behind it has waited.                *)
LEMMA SweptWaits ==
    ASSUME Typed, NEW o \in Overdue, NEW j \in Jobs, Sweeps(j, o)
    PROVE  \E x \in Nat : /\ -left[o] <= Rounds(x + 1) /\ x * PageSize <= Spent
                          /\ job[j].pc = "assign" => (x + 1) * PageSize <= Spent
  <1>1. PICK x \in Nat : -left[o] - job[j].age <= Rounds(x) + 1 /\ Pays(o, j, x)
    BY DEF Sweeps
  <1>2. x * PageSize <= Spent
    BY <1>1, OldOverdue, PaysAPage
  <1>3. job[j].pc = "assign" => (x + 1) * PageSize <= Spent
    BY <1>1 DEF Pays
  <1>4. -left[o] <= Rounds(x + 1)
    <2>1. Rounds(x) \in Int /\ Rounds(x + 1) = Rounds(x) + JobMinutes + 1
      BY RoundsType
    <2>2. left[o] \in Int /\ job[j].age \in 0..JobMinutes /\ JobMinutes \in Nat
      BY OldOverdue, JobTypes
    <2> QED
      BY <1>1, <2>1, <2>2
  <1> QED
    BY <1>2, <1>3, <1>4

LEMMA RowServed ==
    ASSUME Typed, Served, Typed', NEW q \in Orders,
           Insert(q) \/ EndCreate(q) \/ Settle(q) \/ Reopen(q), NEW o \in Overdue'
    PROVE  Reached(o)'
  <1>1. job' = job /\ o \in Overdue /\ left'[o] = left[o]
    BY RowShape
  <1>2. Grows
    <2>1. CASE Insert(q) \/ EndCreate(q)
      <3>1. Gone' = Gone /\ reopened' = reopened /\ saved' = saved /\ faults' = faults
        BY <2>1 DEF Insert, EndCreate, Becomes, Gone, Typed, TypeOK, checkouts
      <3>2. \A p \in Orders : row[p] = "pending" /\ left[p] < 0
                                 => row'[p] = "pending" /\ left'[p] < 0
        BY <2>1 DEF Insert, EndCreate, Becomes, Typed, TypeOK
      <3> QED
        BY <3>1, <3>2, NothingMet DEF Typed
    <2>2. CASE Settle(q)
      <3>1. PICK status \in {"settled", "expired"} : Becomes(q, status, NoExpiry)
        BY <2>2 DEF Settle
      <3>2. q \in Pending /\ reopened' = reopened /\ saved' = saved /\ faults' = faults
        BY <2>2 DEF Settle, Pending, checkouts
      <3> QED
        BY <3>1, <3>2, OneMet DEF Typed
    <2>3. CASE Reopen(q)
      BY <2>3, Reopened DEF Typed
    <2> QED
      BY <2>1, <2>2, <2>3
  <1>3. -Floor <= Bound => -Floor <= Bound'
    BY <1>1, <1>2, KeptPaid
  <1>4. Waits(o) => Waits(o)'
    BY <1>1, <1>2, KeptWaiting
  <1>5. \A j \in Jobs : Sweeps(j, o) => Sweeps(j, o)'
    BY <1>1, <1>2, KeptSwept
  <1> QED
    BY <1>1, <1>3, <1>4, <1>5 DEF Reached, Served

(* An order that a checkout puts back after its deadline has not waited     *)
(* longer than the call.                                                    *)
LEMMA CheckoutServed ==
    ASSUME Typed, Served, Typed', NEW c \in Checkouts,
           (\E q \in Orders : AskCharge(c, q)) \/ SaveOrder(c) \/ ChargeFails(c),
           NEW o \in Overdue'
    PROVE  Reached(o)'
  <1>1. Grows
    <2>1. CASE SaveOrder(c)
      <3>1. c \notin saved
        BY <2>1 DEF SaveOrder, Typed, CallsShort
      <3> QED
        BY <2>1, <3>1, SavedAgain DEF Typed
    <2>2. CASE ~SaveOrder(c)
      <3>1. /\ row' = row /\ left' = left /\ reopened' = reopened /\ saved' = saved
            /\ faults' = faults
        BY <2>2 DEF AskCharge, ChargeFails
      <3> QED
        BY <3>1, NothingMet DEF Gone, Typed
    <2> QED
      BY <2>1, <2>2
  <1>2. job' = job
    BY CheckoutShape
  <1>3. CASE o \in Overdue /\ left'[o] = left[o]
    <2>1. -Floor <= Bound => -Floor <= Bound'
      BY <1>1, KeptPaid
    <2>2. Waits(o) => Waits(o)'
      BY <1>1, <1>3, KeptWaiting
    <2>3. \A j \in Jobs : Sweeps(j, o) => Sweeps(j, o)'
      BY <1>1, <1>2, <1>3, KeptSwept
    <2> QED
      BY <1>3, <2>1, <2>2, <2>3 DEF Reached, Served
  <1>4. CASE left'[o] \in Int /\ left'[o] >= -Late
    <2>1. -left'[o] <= Safety + Late
      BY <1>4, SweepAssumption
    <2>2. 0 * PageSize <= Spent' /\ -left'[o] <= Rounds(0)
      BY <2>1, NoRounds, NumbersNext DEF Typed
    <2>3. Waits(o)'
      BY <2>2 DEF Waits, Rounds
    <2> QED
      BY <2>3 DEF Reached
  <1> QED
    BY <1>3, <1>4, CheckoutShape

(* The other sweeps go on.                                                  *)
LEMMA SweepServed ==
    ASSUME Typed, Served, Typed', Grows, NEW j \in Jobs,
           \A k \in Jobs : k # j => job'[k] = job[k],
           NEW o \in Overdue, left'[o] = left[o], Sweeps(j, o) => Sweeps(j, o)'
    PROVE  Reached(o)'
  <1>1. -Floor <= Bound => -Floor <= Bound'
    BY KeptPaid
  <1>2. Waits(o) => Waits(o)'
    BY KeptWaiting
  <1>3. \A k \in Jobs : Sweeps(k, o) => Sweeps(k, o)'
    BY KeptSwept
  <1> QED
    BY <1>1, <1>2, <1>3 DEF Reached, Served

LEMMA FindServed ==
    ASSUME Typed, Served, Typed', NEW j \in Jobs, Find(j), NEW o \in Overdue'
    PROVE  Reached(o)'
  <1>1. PICK page \in SUBSET Stale(j) :
           /\ Cardinality(page) <= PageSize
           /\ Cardinality(page) < PageSize => page = Stale(j)
           /\ job' = [job EXCEPT ![j].page = page, ![j].pc = "expire"]
    BY DEF Find
  <1>2. /\ row' = row /\ left' = left /\ reopened' = reopened /\ faults' = faults
        /\ saved' = saved /\ job[j].pc = "find"
    BY DEF Find, checkouts
  <1>3. o \in Overdue /\ left'[o] = left[o]
    BY <1>2 DEF Overdue, Pending
  <1>4. Grows
    BY <1>2, NothingMet DEF Gone, Typed
  <1>5. /\ \A k \in Jobs : k # j => job'[k] = job[k]
        /\ job'[j].page = page /\ job'[j].pc = "expire" /\ job'[j].age = job[j].age
    BY <1>1 DEF Typed, TypeOK, Job
  <1>6. ASSUME Sweeps(j, o) PROVE Sweeps(j, o)'
    <2>1. PICK x \in Nat : -left[o] - job[j].age <= Rounds(x) + 1 /\ Pays(o, j, x)
      BY <1>6 DEF Sweeps
    <2>2. x * PageSize <= Spent
      BY <1>2, <2>1 DEF Pays
    <2>3. x * PageSize <= Spent'
      BY <1>3, <1>4, <2>2, KeptPaid
    <2>4. o \in Stale(j)
      BY <1>3, <1>6, OldOverdue DEF Stale, Sweeps
    <2>5. CASE o \in page
      <3>1. Pays(o, j, x)'
        BY <1>5, <2>3, <2>5 DEF Pays
      <3> QED
        BY <1>2, <1>5, <1>6, <2>1, <3>1 DEF Sweeps, Active, Rounds
    <2>6. CASE o \notin page
      <3>1. page \in SUBSET Orders /\ Cardinality(page) \in Nat
        BY FiniteParts DEF Stale, Pending
      <3>2. Cardinality(page) = PageSize
        BY <1>1, <2>4, <2>6, <3>1, SweepAssumption
      <3>3. LiveNext(page) = page /\ Live(page) = page
        <4>1. job[j].age \in Nat
          BY JobTypes
        <4>2. \A p \in Pending : left[p] \in Int
          BY SweepAssumption DEF Pending, Typed, RowsTimed, Minutes
        <4>3. \A p \in page : row[p] = "pending" /\ left[p] < 0
          BY <4>1, <4>2 DEF Stale, Pending
        <4> QED
          BY <1>2, <4>3 DEF LiveNext, Live
      <3>4. (x + 1) * PageSize <= Spent' + Cardinality(page)
        <4>1. PICK s \in Int : s = Spent'
          BY NumbersNext DEF Typed
        <4>2. x * PageSize <= s
          BY <2>3, <4>1
        <4>3. (x + 1) * PageSize <= s + PageSize
          BY <4>2, OneMorePaid, SweepAssumption
        <4> QED
          BY <3>2, <4>1, <4>3
      <3>5. Live(job[j].page)' = page
        BY <1>5, <3>3 DEF Live, LiveNext
      <3>6. Pays(o, j, x)'
        BY <1>5, <2>6, <3>2, <3>4, <3>5 DEF Pays
      <3> QED
        BY <1>2, <1>5, <1>6, <2>1, <3>6 DEF Sweeps, Active, Rounds
    <2> QED
      BY <2>5, <2>6
  <1> QED
    BY <1>3, <1>4, <1>5, <1>6, SweepServed

LEMMA FaultGrows ==
    ASSUME TypeOK, TypeOK', Fault, row' = row, left' = left, reopened' = reopened, saved' = saved
    PROVE  Grows /\ Spent' = Spent + PageSize
  <1>1. Spent' = Spent + PageSize /\ Bound <= Bound'
    BY FaultPays DEF Gone
  <1>2. ASSUME NEW S \in SUBSET Orders
        PROVE  Spent + Cardinality(Live(S)) <= Spent' + Cardinality(LiveNext(S))
    <2>1. LiveNext(S) = Live(S)
      BY DEF Live, LiveNext
    <2>2. Spent \in Nat /\ Cardinality(Live(S)) \in Nat /\ PageSize \in Nat
      BY Numbers, SweepAssumption
    <2>3. Spent + Cardinality(Live(S)) <= (Spent + PageSize) + Cardinality(Live(S))
      BY <2>2
    <2> QED
      BY <1>1, <2>1, <2>3
  <1> QED
    BY <1>1, <1>2 DEF Grows

LEMMA ExpireOneServed ==
    ASSUME Typed, Served, Typed', NEW j \in Jobs, ExpireOne(j), NEW o \in Overdue'
    PROVE  Reached(o)'
  <1>1. PICK p \in job[j].page :
           /\ job' = [job EXCEPT ![j].page = @ \ {p}]
           /\ \/ /\ IF row[p] = "pending"
                    THEN Becomes(p, "expired", NoExpiry) ELSE UNCHANGED <<row, left>>
                 /\ UNCHANGED faults
              \/ Fault /\ UNCHANGED <<row, left>>
    BY DEF ExpireOne
  <1>2. /\ o \in Overdue /\ left'[o] = left[o] /\ reopened' = reopened /\ saved' = saved
        /\ \A k \in Jobs : k # j => job'[k] = job[k]
        /\ job'[j].pc = "expire" /\ job[j].pc = "expire" /\ job'[j].age = job[j].age
    BY ExpireOneShape
  <1>3. job'[j].page = job[j].page \ {p} /\ job[j].page \in SUBSET Orders /\ p \in Orders
    BY <1>1 DEF Typed, TypeOK, Job
  <1>4. o \in Orders /\ row'[o] = "pending" /\ left'[o] < 0
    BY DEF Overdue, Pending
  <1>5. Live(job[j].page)' = LiveNext(job[j].page \ {p})
    BY <1>3 DEF Live, LiveNext
  <1>6. CASE /\ IF row[p] = "pending"
                THEN Becomes(p, "expired", NoExpiry) ELSE UNCHANGED <<row, left>>
             /\ UNCHANGED faults
    <2>1. Grows
      <3>1. CASE row[p] = "pending"
        <4>1. p \in Pending /\ Becomes(p, "expired", NoExpiry) /\ faults' = faults
          BY <1>3, <1>6, <3>1 DEF Pending
        <4> QED
          BY <1>2, <4>1, OneMet DEF Typed
      <3>2. CASE row[p] # "pending"
        <4>1. row' = row /\ left' = left /\ faults' = faults
          BY <1>6, <3>2
        <4> QED
          BY <1>2, <4>1, NothingMet DEF Gone, Typed
      <3> QED
        BY <3>1, <3>2
    <2>2. ~(row'[p] = "pending" /\ left'[p] < 0)
      BY <1>3, <1>6 DEF Becomes, Typed, TypeOK
    <2>3. LiveNext(job[j].page \ {p}) = LiveNext(job[j].page) /\ o # p
      BY <1>4, <2>2 DEF LiveNext
    <2>4. ASSUME Sweeps(j, o) PROVE Sweeps(j, o)'
      <3>1. PICK x \in Nat : -left[o] - job[j].age <= Rounds(x) + 1 /\ Pays(o, j, x)
        BY <2>4 DEF Sweeps
      <3>2. /\ x * PageSize <= Spent => x * PageSize <= Spent'
            /\ (x + 1) * PageSize <= Spent + Cardinality(Live(job[j].page))
                 => (x + 1) * PageSize <= Spent' + Cardinality(LiveNext(job[j].page))
        <4>1. x \in Int /\ x + 1 \in Int
          OBVIOUS
        <4> QED
          BY <1>2, <1>3, <2>1, <4>1, KeptPaid
      <3>3. Pays(o, j, x)'
        BY <1>2, <1>3, <1>5, <2>3, <3>1, <3>2 DEF Pays
      <3> QED
        BY <1>2, <2>4, <3>1, <3>3 DEF Sweeps, Active, Rounds
    <2> QED
      BY <1>2, <2>1, <2>4, SweepServed
  <1>7. CASE Fault /\ UNCHANGED <<row, left>>
    <2>1. Grows /\ Spent' = Spent + PageSize
      BY <1>2, <1>7, FaultGrows DEF Typed
    <2>2. LiveNext(job[j].page \ {p}) = Live(job[j].page) \ {p}
      BY <1>7 DEF Live, LiveNext
    <2>3. /\ Cardinality(Live(job[j].page) \ {p}) \in Nat
          /\ Cardinality(Live(job[j].page)) \in Nat
          /\ Cardinality(Live(job[j].page)) <= Cardinality(Live(job[j].page) \ {p}) + 1
      <3>1. Live(job[j].page) \in SUBSET Orders
        BY <1>3 DEF Live
      <3>2. Live(job[j].page) \ {p} \in SUBSET Orders
        BY <3>1
      <3>3. /\ Cardinality(Live(job[j].page) \ {p}) =
                 IF p \in Live(job[j].page) THEN Cardinality(Live(job[j].page)) - 1
                                            ELSE Cardinality(Live(job[j].page))
            /\ Cardinality(Live(job[j].page)) \in Nat
        BY <3>1, WithoutOne
      <3>4. Cardinality(Live(job[j].page) \ {p}) \in Nat
        BY <3>2, FiniteParts
      <3> QED
        BY <3>3, <3>4
    <2>4. ASSUME Sweeps(j, o) PROVE Sweeps(j, o)'
      <3>1. PICK x \in Nat : -left[o] - job[j].age <= Rounds(x) + 1 /\ Pays(o, j, x)
        BY <2>4 DEF Sweeps
      <3>2. Spent \in Nat /\ PageSize \in Nat \ {0} /\ x \in Int /\ x * PageSize \in Int
            /\ (x + 1) * PageSize \in Int
        BY Numbers, SweepAssumption DEF Typed
      <3>3. CASE x * PageSize <= Spent /\ o \in job[j].page /\ o # p
        <4>1. x * PageSize <= Spent'
          BY <1>2, <2>1, <3>2, <3>3, KeptPaid
        <4>2. Pays(o, j, x)'
          BY <1>2, <1>3, <3>3, <4>1 DEF Pays
        <4> QED
          BY <1>2, <2>4, <3>1, <4>2 DEF Sweeps, Active, Rounds
      <3>4. CASE /\ o \notin job[j].page \ {p}
                 /\ (x + 1) * PageSize <=
                      (Spent + PageSize) + Cardinality(Live(job[j].page) \ {p})
        <4>1. (x + 1) * PageSize <= Spent' + Cardinality(LiveNext(job[j].page \ {p}))
          BY <2>1, <2>2, <3>4
        <4>2. Pays(o, j, x)'
          BY <1>2, <1>3, <1>5, <3>4, <4>1 DEF Pays
        <4> QED
          BY <1>2, <2>4, <3>1, <4>2 DEF Sweeps, Active, Rounds
      <3>5. CASE x * PageSize <= Spent /\ o = p
        <4>1. (x + 1) * PageSize <= Spent + PageSize
          BY <3>2, <3>5, OneMorePaid
        <4>2. (x + 1) * PageSize <= (Spent + PageSize) + Cardinality(Live(job[j].page) \ {p})
          BY <2>3, <3>2, <4>1
        <4> QED
          BY <3>4, <3>5, <4>2
      <3>6. CASE /\ o \notin job[j].page
                 /\ (x + 1) * PageSize <= Spent + Cardinality(Live(job[j].page))
        <4>1. (x + 1) * PageSize <= (Spent + PageSize) + Cardinality(Live(job[j].page) \ {p})
          BY <2>3, <3>2, <3>6
        <4> QED
          BY <3>4, <3>6, <4>1
      <3> QED
        BY <1>2, <3>1, <3>3, <3>5, <3>6 DEF Pays
    <2> QED
      BY <1>2, <2>1, <2>4, SweepServed
  <1> QED
    BY <1>1, <1>6, <1>7

LEMMA ReadNextServed ==
    ASSUME Typed, Served, Typed', NEW j \in Jobs, ReadNext(j), NEW o \in Overdue'
    PROVE  Reached(o)'
  <1>1. PICK until \in NextExpiry : job' = [job EXCEPT ![j].pc = "assign", ![j].next = until]
    BY DEF ReadNext
  <1>2. /\ row' = row /\ left' = left /\ reopened' = reopened /\ faults' = faults
        /\ saved' = saved /\ job[j].pc = "expire" /\ job[j].page = {}
    BY DEF ReadNext, checkouts
  <1>3. o \in Overdue /\ left'[o] = left[o]
    BY <1>2 DEF Overdue, Pending
  <1>4. Grows
    BY <1>2, NothingMet DEF Gone, Typed
  <1>5. /\ \A k \in Jobs : k # j => job'[k] = job[k]
        /\ job'[j].next = until /\ job'[j].pc = "assign" /\ job'[j].age = job[j].age
    BY <1>1 DEF Typed, TypeOK, Job
  <1>6. ASSUME Sweeps(j, o) PROVE Sweeps(j, o)'
    <2>1. PICK x \in Nat : -left[o] - job[j].age <= Rounds(x) + 1 /\ Pays(o, j, x)
      BY <1>6 DEF Sweeps
    <2>2. Live(job[j].page) = {} /\ Cardinality({}) = 0
      BY <1>2, FS_EmptySet DEF Live
    <2>3. (x + 1) * PageSize <= Spent
      <3>1. (x + 1) * PageSize <= Spent + 0
        BY <1>2, <2>1, <2>2 DEF Pays
      <3>2. Spent \in Nat
        BY Numbers DEF Typed
      <3> QED
        BY <3>1, <3>2
    <2>4. (x + 1) * PageSize <= Spent'
      <3>1. x + 1 \in Int
        OBVIOUS
      <3> QED
        BY <1>3, <1>4, <2>3, <3>1, KeptPaid
    <2>5. Due(until)
      BY <1>3, ReadsDue
    <2>6. Pays(o, j, x)'
      BY <1>5, <2>4, <2>5 DEF Pays, Due
    <2> QED
      BY <1>2, <1>5, <1>6, <2>1, <2>6 DEF Sweeps, Active, Rounds
  <1> QED
    BY <1>3, <1>4, <1>5, <1>6, SweepServed

LEMMA AssignServed ==
    ASSUME Typed, Served, Typed', NEW j \in Jobs, Assign(j), NEW o \in Overdue'
    PROVE  Reached(o)'
  <1>1. /\ row' = row /\ left' = left /\ reopened' = reopened /\ faults' = faults
        /\ saved' = saved
        /\ job[j].pc = "assign" /\ \A k \in Jobs : k # j => job'[k] = job[k]
    BY DEF Assign, Typed, TypeOK, checkouts
  <1>2. o \in Overdue /\ left'[o] = left[o]
    BY <1>1 DEF Overdue, Pending
  <1>3. Grows
    BY <1>1, NothingMet DEF Gone, Typed
  <1>4. ASSUME Sweeps(j, o) PROVE Waits(o)'
    <2>1. PICK x \in Nat : -left[o] <= Rounds(x + 1) /\ (x + 1) * PageSize <= Spent
      BY <1>1, <1>2, <1>4, SweptWaits
    <2>2. Waits(o)
      <3>1. x + 1 \in Nat
        OBVIOUS
      <3> QED
        BY <2>1, <3>1 DEF Waits
    <2> QED
      BY <1>2, <1>3, <2>2, KeptWaiting
  <1>5. -Floor <= Bound => -Floor <= Bound'
    BY <1>3, KeptPaid
  <1>6. Waits(o) => Waits(o)'
    BY <1>2, <1>3, KeptWaiting
  <1>7. \A k \in Jobs : k # j /\ Sweeps(k, o) => Sweeps(k, o)'
    BY <1>1, <1>2, <1>3, KeptSwept
  <1> QED
    BY <1>2, <1>4, <1>5, <1>6, <1>7 DEF Reached, Served

(* A fault that ends a sweep pays for what the sweep was to pay.            *)
LEMMA FaultWaits ==
    ASSUME Typed, Typed', Spent' = Spent + PageSize,
           NEW o \in Overdue, left'[o] = left[o], NEW j \in Jobs, Sweeps(j, o)
    PROVE  Waits(o)'
  <1>1. PICK x \in Nat : -left[o] <= Rounds(x + 1) /\ x * PageSize <= Spent
    BY SweptWaits
  <1>2. Spent \in Int /\ PageSize \in Int /\ x \in Int /\ x + 1 \in Nat
    BY Numbers, SweepAssumption DEF Typed
  <1>3. (x + 1) * PageSize <= Spent + PageSize
    BY <1>1, <1>2, OneMorePaid
  <1>4. (x + 1) * PageSize <= Spent' /\ -left'[o] <= Rounds(x + 1)
    BY <1>1, <1>3
  <1> QED
    BY <1>2, <1>4 DEF Waits, Rounds

LEMMA QueryFailsServed ==
    ASSUME Typed, Served, Typed', NEW j \in Jobs, QueryFails(j), NEW o \in Overdue'
    PROVE  Reached(o)'
  <1>1. /\ row' = row /\ left' = left /\ reopened' = reopened /\ saved' = saved /\ Fault
        /\ \A k \in Jobs : k # j => job'[k] = job[k]
    BY DEF QueryFails, Typed, TypeOK, checkouts
  <1>2. o \in Overdue /\ left'[o] = left[o]
    BY <1>1 DEF Overdue, Pending
  <1>3. Grows /\ Spent' = Spent + PageSize
    BY <1>1, FaultGrows DEF Typed
  <1>4. Sweeps(j, o) => Waits(o)'
    BY <1>2, <1>3, FaultWaits
  <1>5. -Floor <= Bound => -Floor <= Bound'
    BY <1>3, KeptPaid
  <1>6. Waits(o) => Waits(o)'
    BY <1>2, <1>3, KeptWaiting
  <1>7. \A k \in Jobs : k # j /\ Sweeps(k, o) => Sweeps(k, o)'
    BY <1>1, <1>2, <1>3, KeptSwept
  <1> QED
    BY <1>2, <1>4, <1>5, <1>6, <1>7 DEF Reached, Served

LEMMA RestartServed ==
    ASSUME Typed, Served, Typed', Restart, NEW o \in Overdue'
    PROVE  Reached(o)'
  <1>1. /\ reopened' = reopened /\ saved' = saved /\ Fault /\ Gone' = Gone
        /\ o \in Overdue /\ left'[o] = left[o]
    BY DEF Restart, Gone, Overdue, Pending, Typed, TypeOK
  <1>2. Spent' = Spent + PageSize /\ Bound <= Bound'
    BY <1>1, FaultPays DEF Typed
  <1>3. CASE -Floor <= Bound
    <2>1. Bound \in Int /\ Bound' \in Int /\ Floor \in Int
      BY Numbers, NumbersNext, SweepAssumption DEF Typed
    <2>2. -Floor <= Bound'
      BY <1>2, <1>3, <2>1
    <2> QED
      BY <2>2 DEF Reached
  <1>4. CASE Waits(o)
    <2>1. PICK x \in Nat : x * PageSize <= Spent /\ -left[o] <= Rounds(x)
      BY <1>4 DEF Waits
    <2>2. x * PageSize <= Spent + PageSize
      <3>1. x * PageSize \in Int /\ PageSize \in Nat /\ Spent \in Nat
        BY Numbers, SweepAssumption DEF Typed
      <3> QED
        BY <2>1, <3>1
    <2>3. x * PageSize <= Spent'
      BY <1>2, <2>2
    <2>4. Waits(o)'
      BY <1>1, <2>1, <2>3 DEF Waits, Rounds
    <2> QED
      BY <2>4 DEF Reached
  <1>5. CASE \E j \in Jobs : Sweeps(j, o)
    <2>1. Waits(o)'
      BY <1>1, <1>2, <1>5, FaultWaits
    <2> QED
      BY <2>1 DEF Reached
  <1> QED
    BY <1>1, <1>3, <1>4, <1>5 DEF Served

LEMMA MinuteServed ==
    ASSUME Typed, Served, Typed', Covered', Minute, NEW o \in Overdue'
    PROVE  Reached(o)'
  <1>1. /\ o \in Pending /\ left[o] \in Int /\ left[o] <= 0 /\ left'[o] \in Int
        /\ left'[o] = OneMinute(left[o])
        /\ left[o] - 1 <= left'[o] /\ left'[o] <= left[o] /\ left'[o] < 0
        /\ left[o] < 0 => o \in Overdue
    BY MinuteOverdue
  <1>2. /\ row' = row /\ reopened' = reopened /\ saved' = saved /\ faults' = faults
        /\ \A j \in Jobs : Active(j) => job'[j] = Aged(job[j])
        /\ left' = [p \in Orders |-> OneMinute(left[p])]
    BY MinuteShape
  <1>3. PICK k \in Jobs : ShouldSweep(next', since') => job'[k] = Started
    BY MinuteShape
  <1>4. Grows
    <2>1. \A p \in Orders : row[p] = "pending" /\ left[p] < 0
                               => row'[p] = "pending" /\ left'[p] < 0
      <3> SUFFICES ASSUME NEW p \in Orders, row[p] = "pending", left[p] < 0
                   PROVE  left'[p] < 0
        BY <1>2
      <3>1. left[p] \in Minutes /\ left'[p] = OneMinute(left[p])
        BY <1>2 DEF Typed, RowsTimed
      <3>2. left[p] \in Int /\ left'[p] \in Int /\ left'[p] <= left[p]
        BY <3>1, MinutesOf
      <3> QED
        BY <3>2
    <2> QED
      BY <1>2, <2>1, NothingMet DEF Gone, Typed
  <1>5. /\ Safety \in Nat /\ Late \in Nat /\ since' \in 0..Safety /\ Rounds(0) = Safety + Late
        /\ 0 * PageSize = 0 /\ Spent \in Nat
    BY Numbers, NoRounds, SweepAssumption DEF Typed, TypeOK
  (* A minute at which the cron starts no sweep. *)
  <1>6. ASSUME ~ShouldSweep(next', since') PROVE Waits(o)'
    <2>1. -left'[o] <= since' + Late
      BY <1>6 DEF Covered, ShouldSweep
    <2>2. -left'[o] <= Rounds(0)
      BY <1>1, <1>5, <2>1
    <2>3. 0 * PageSize <= Spent'
      <3>1. 0 * PageSize <= Spent
        BY <1>5
      <3> QED
        BY <1>4, <3>1, KeptPaid
    <2> QED
      BY <2>2, <2>3 DEF Waits, Rounds
  (* The sweep that starts at this minute sees the order. *)
  <1>7. ASSUME ShouldSweep(next', since'),
               NEW x \in Nat, x * PageSize <= Spent, -left'[o] <= Rounds(x) + 1
        PROVE  Sweeps(k, o)'
    <2>1. job'[k].pc = "find" /\ job'[k].age = 0
      BY <1>7, <1>3 DEF Started, Off
    <2>2. x * PageSize <= Spent'
      BY <1>4, <1>7, KeptPaid
    <2>3. Pays(o, k, x)'
      BY <2>1, <2>2 DEF Pays
    <2>4. Active(k)' /\ left'[o] + job'[k].age < 0
      BY <1>1, <2>1 DEF Active
    <2>5. -left'[o] - job'[k].age <= Rounds(x) + 1
      BY <1>1, <1>7, <2>1
    <2> QED
      BY <2>3, <2>4, <2>5 DEF Sweeps, Rounds
  <1>8. CASE ~ShouldSweep(next', since')
    BY <1>6, <1>8 DEF Reached
  <1>9. CASE ShouldSweep(next', since') /\ left[o] = 0
    <2>1. -left'[o] <= Rounds(0) + 1 /\ 0 * PageSize <= Spent
      BY <1>1, <1>5, <1>9
    <2>2. Sweeps(k, o)'
      BY <1>7, <1>9, <2>1
    <2> QED
      BY <2>2 DEF Reached
  <1>10. CASE ShouldSweep(next', since') /\ left[o] < 0
    <2>1. o \in Overdue
      BY <1>1, <1>10
    <2>2. CASE -Floor <= Bound
      BY <1>4, <2>2, KeptPaid DEF Reached
    <2>3. CASE Waits(o)
      <3>1. PICK x \in Nat : x * PageSize <= Spent /\ -left[o] <= Rounds(x)
        BY <2>3 DEF Waits
      <3>2. -left'[o] <= Rounds(x) + 1
        BY <1>1, <3>1, RoundsType
      <3>3. Sweeps(k, o)'
        BY <1>7, <1>10, <3>1, <3>2
      <3> QED
        BY <3>3 DEF Reached
    <2>4. CASE ~(-Floor <= Bound) /\ \E j \in Jobs : Sweeps(j, o)
      <3>1. PICK j \in Jobs : Sweeps(j, o)
        BY <2>4
      <3>2. PICK x \in Nat : -left[o] - job[j].age <= Rounds(x) + 1 /\ Pays(o, j, x)
        BY <3>1 DEF Sweeps
      <3>3. left'[o] = left[o] - 1
        BY <1>1, <2>4, AboveFloor
      <3>4. job[j] \in Job /\ job[j].age \in Nat /\ job[j].next \in Minutes \cup {NoExpiry}
            /\ job[j].page \in SUBSET Orders
        BY JobTypes
      <3>5. /\ job'[j].pc = job[j].pc /\ job'[j].page = job[j].page
            /\ job'[j].age = job[j].age + 1 /\ job'[j].next = OneMinute(job[j].next)
        BY <1>2, <3>1, <3>4 DEF Sweeps, Aged, Job
      <3>6. /\ left'[o] + job'[j].age = left[o] + job[j].age
            /\ -left'[o] - job'[j].age = -left[o] - job[j].age
        BY <1>1, <3>3, <3>4, <3>5
      <3>7. Live(job[j].page)' = LiveNext(job[j].page)
        BY <3>5 DEF Live, LiveNext
      <3>8. /\ x * PageSize <= Spent => x * PageSize <= Spent'
            /\ (x + 1) * PageSize <= Spent => (x + 1) * PageSize <= Spent'
            /\ (x + 1) * PageSize <= Spent + Cardinality(Live(job[j].page))
                 => (x + 1) * PageSize <= Spent' + Cardinality(LiveNext(job[j].page))
        <4>1. x \in Int /\ x + 1 \in Int
          OBVIOUS
        <4> QED
          BY <1>4, <3>4, <4>1, KeptPaid
      <3>9. Due(job[j].next) => Due(job'[j].next)
        BY <3>4, <3>5, MinutesOf
      <3>10. Pays(o, j, x)'
        BY <3>2, <3>5, <3>7, <3>8, <3>9 DEF Pays, Due
      <3>11. Active(j)' /\ left'[o] + job'[j].age < 0
        BY <3>1, <3>5, <3>6 DEF Sweeps, Active
      <3>12. Sweeps(j, o)'
        BY <3>2, <3>6, <3>10, <3>11 DEF Sweeps, Rounds
      <3> QED
        BY <3>12 DEF Reached
    <2> QED
      BY <2>1, <2>2, <2>3, <2>4 DEF Served
  <1> QED
    BY <1>1, <1>8, <1>9, <1>10

-----------------------------------------------------------------------------
LEMMA TypedNext == ASSUME Typed, Next PROVE Typed'
  <1>1. CASE Minute
    BY <1>1, MinuteTyped
  <1>2. CASE Restart
    BY <1>2, RestartTyped
  <1>3. CASE \E j \in Jobs : Sweep(j)
    BY <1>3, FindTyped, ExpireOneTyped, ReadNextTyped, AssignTyped, QueryFailsTyped DEF Sweep
  <1>4. CASE \E o \in Orders : Insert(o) \/ EndCreate(o) \/ Settle(o) \/ Reopen(o)
    BY <1>4, RowTyped
  <1>5. CASE \E c \in Checkouts :
               (\E o \in Orders : AskCharge(c, o)) \/ SaveOrder(c) \/ ChargeFails(c)
    BY <1>5, CheckoutTyped
  <1> QED
    BY <1>1, <1>2, <1>3, <1>4, <1>5 DEF Next

LEMMA ServedNext == ASSUME Typed, Served, Typed', Covered', Next PROVE Served'
  <1> SUFFICES ASSUME NEW o \in Overdue' PROVE Reached(o)'
    BY DEF Served, Reached
  <1>1. CASE Minute
    BY <1>1, MinuteServed
  <1>2. CASE Restart
    BY <1>2, RestartServed
  <1>3. CASE \E j \in Jobs : Sweep(j)
    BY <1>3, FindServed, ExpireOneServed, ReadNextServed, AssignServed, QueryFailsServed
       DEF Sweep
  <1>4. CASE \E q \in Orders : Insert(q) \/ EndCreate(q) \/ Settle(q) \/ Reopen(q)
    BY <1>4, RowServed
  <1>5. CASE \E c \in Checkouts :
               (\E q \in Orders : AskCharge(c, q)) \/ SaveOrder(c) \/ ChargeFails(c)
    BY <1>5, CheckoutServed
  <1> QED
    BY <1>1, <1>2, <1>3, <1>4, <1>5 DEF Next

(* The inductive invariant: types, what the sweep is told, and for every    *)
(* overdue order that its waiting is paid for.                              *)
THEOREM SweepInvariant == Spec => []IInv
  <1>1. Init => IInv
    BY InitTyped
  <1>2. IInv /\ [Next]_vars => IInv'
    <2> SUFFICES ASSUME IInv, [Next]_vars PROVE IInv'
      OBVIOUS
    <2>1. CASE Next
      <3>1. Typed'
        BY <2>1, TypedNext DEF IInv
      <3>2. AssignsDue'
        BY <2>1, <3>1, AssignsDueNext DEF IInv
      <3>3. Covered'
        BY <2>1, <3>1, CoveredNext DEF IInv
      <3>4. Served'
        BY <2>1, <3>1, <3>3, ServedNext DEF IInv
      <3> QED
        BY <3>1, <3>2, <3>3, <3>4 DEF IInv
    <2>2. CASE UNCHANGED vars
      <3>1. /\ row' = row /\ left' = left /\ reopened' = reopened /\ next' = next
            /\ since' = since /\ job' = job /\ faults' = faults
            /\ charging' = charging /\ saved' = saved
        BY <2>2 DEF vars
      <3>2. Pending' = Pending /\ Overdue' = Overdue
        BY <3>1 DEF Pending, Overdue
      <3>3. Typed'
        BY <3>1 DEF IInv, Typed, TypeOK, RowsTimed, CallsShort, PagesFit, AgesDiffer, Active
      <3>4. AssignsDue' /\ Covered'
        BY <3>1, <3>2 DEF IInv, AssignsDue, Covered, Due, ShouldSweep
      <3>5. Bound' = Bound /\ Spent' = Spent
        BY <3>1 DEF Bound, Rounds, Pages, Deadlines, Spent, Met, Gone
      <3>6. \A o \in Orders : Waits(o)' <=> Waits(o)
        BY <3>1, <3>5 DEF Waits, Rounds
      <3>7. \A o \in Orders, j \in Jobs : Sweeps(j, o)' <=> Sweeps(j, o)
        BY <3>1, <3>5 DEF Sweeps, Pays, Active, Rounds, Due, Live
      <3>8. Served'
        <4> SUFFICES ASSUME NEW o \in Overdue' PROVE Reached(o)'
          BY DEF Served, Reached
        <4>1. o \in Overdue /\ o \in Orders
          BY <3>2 DEF Overdue, Pending
        <4> QED
          BY <3>5, <3>6, <3>7, <4>1 DEF IInv, Served, Reached
      <3> QED
        BY <3>3, <3>4, <3>8 DEF IInv
    <2> QED
      BY <2>1, <2>2
  <1> QED
    BY <1>1, <1>2, PTL DEF Spec

(* The state of the sweep keeps its types: the rows and their deadlines,    *)
(* sweepState and every sweep in progress.                                  *)
THEOREM TypeCorrect == Spec => []TypeOK
  <1>1. IInv => TypeOK
    BY DEF IInv, Typed
  <1> QED
    BY <1>1, SweepInvariant, PTL

(* No reservation outlives its deadline by more than the safety interval,   *)
(* the delay of a checkout that puts it back, and one sweep for each page   *)
(* of deadlines and each fault.                                             *)
THEOREM OverdueIsBounded == Spec => []OverdueBounded
  <1>1. IInv => OverdueBounded
    <2> SUFFICES ASSUME IInv, NEW o \in Pending PROVE -left[o] <= Bound
      BY DEF OverdueBounded, Bound, Rounds
    <2>1. left[o] \in Int /\ Bound \in Int
      BY Numbers, SweepAssumption DEF IInv, Typed, RowsTimed, Pending, Minutes
    <2>2. CASE left[o] < 0
      BY <2>2, ServedInTime DEF IInv, Overdue
    <2>3. CASE ~(left[o] < 0)
      <3>1. 0 * PageSize <= Spent + PageSize
        BY Numbers, SweepAssumption DEF IInv, Typed
      <3>2. Rounds(0) <= Bound
        BY <3>1, PaidRounds DEF IInv, Typed
      <3>3. Rounds(0) \in Int /\ Rounds(0) >= 0
        BY NoRounds
      <3> QED
        BY <2>1, <2>3, <3>2, <3>3
    <2> QED
      BY <2>2, <2>3
  <1> QED
    BY <1>1, SweepInvariant, PTL
=============================================================================
