----------------------------- MODULE ExpirySweep -----------------------------
(***************************************************************************)
(* When the sweep of stale reservations runs: expireStaleOrdersJob of      *)
(* orders.service.ts and lib/expiry-sweep.ts.  The cron wakes every minute *)
(* and asks the database only if a value kept in memory says an order may  *)
(* be due, or if the last sweep is a safety interval old.                  *)
(*                                                                         *)
(* Time is relative: left[o] counts the minutes to reservedUntil, next and *)
(* since are the distances of sweepState.nextExpiryAt and lastSweptAt from *)
(* now.  A sweep is asynchronous: a request may run at each of its awaits, *)
(* and a second sweep may start before the first one has ended.            *)
(***************************************************************************)
EXTENDS Integers, FiniteSets

CONSTANTS
    Orders,
    Untracked,    \* orders created by sell-by-email, which does not call track
    Checkouts,    \* bound: checkouts that save the order they have read
    Reopenable,   \* bound: orders the script puts back, once each
    TTL,          \* RESERVATION_TTL_MS, in minutes
    Safety,       \* SWEEP_SAFETY_INTERVAL_MS, in minutes
    PageSize,     \* take: 200
    JobMinutes,   \* bound: minutes a sweep takes at most
    Late,         \* bound: minutes after the deadline it read that a checkout saves
    MaxFaults,    \* bound: failed database calls of sweeps, and restarts
    Floor,        \* bound: left and next stop counting here
    NoExpiry,     \* nextExpiryAt = null
    NoCharge      \* a checkout that is not waiting for the gateway

ASSUME SweepAssumption ==
    /\ IsFiniteSet(Orders) /\ Untracked \subseteq Orders /\ IsFiniteSet(Checkouts)
    /\ Reopenable \subseteq Orders
    /\ TTL \in Nat \ {0} /\ Safety \in Nat \ {0} /\ PageSize \in Nat \ {0}
    /\ JobMinutes \in Nat /\ JobMinutes < TTL
    /\ MaxFaults \in Nat /\ Late \in Nat \ {0}
    /\ Floor \in Int /\ Floor < 0 /\ NoExpiry \notin Int

Jobs == 0..JobMinutes     \* sweeps that may overlap
Minutes == Floor..TTL
Job == [pc: {"off", "find", "expire", "next", "assign"}, age: 0..JobMinutes,
        page: SUBSET Orders, next: Minutes \cup {NoExpiry}]
(* The entity a checkout holds while the gateway answers.                   *)
Held == [order: Orders, left: Minutes]

VARIABLES
    row,       \* an order: absent, inserted by an open transaction, committed
    left,      \* minutes to its reservedUntil while it is pending
    reopened,  \* orders the reconcile script put back to PENDING
    charging,  \* what each checkout holds during its call of the gateway
    saved,     \* the checkouts that have saved their order
    next, since,          \* sweepState
    job,       \* the sweeps in progress
    faults     \* failed calls and restarts so far

vars == <<row, left, reopened, charging, saved, next, since, job, faults>>
checkouts == <<charging, saved>>
sweepState == <<next, since>>

Off == [pc |-> "off", age |-> 0, page |-> {}, next |-> NoExpiry]

TypeOK ==
    /\ row \in [Orders -> {"none", "open", "pending", "settled", "expired"}]
    /\ left \in [Orders -> Minutes \cup {NoExpiry}]
    /\ reopened \subseteq Orders
    /\ charging \in [Checkouts -> Held \cup {NoCharge}] /\ saved \subseteq Checkouts
    /\ next \in Minutes \cup {NoExpiry} /\ since \in 0..Safety
    /\ job \in [Jobs -> Job]
    /\ faults \in 0..MaxFaults

(* lastSweptAt is the epoch: older than the safety interval.                *)
Booted == next = NoExpiry /\ since = Safety
Init ==
    /\ row = [o \in Orders |-> "none"] /\ left = [o \in Orders |-> NoExpiry]
    /\ reopened = {}
    /\ charging = [c \in Checkouts |-> NoCharge] /\ saved = {}
    /\ Booted
    /\ job = [j \in Jobs |-> Off]
    /\ faults = 0

----------------------------------------------------------------------------
(* lib/expiry-sweep.ts *)

ShouldSweepIfKnown(n, s) == n # NoExpiry /\ n <= 0   \* variant: no safety net
ShouldSweep(n, s) == (n # NoExpiry /\ n <= 0) \/ s >= Safety
Track(n, until) == IF n = NoExpiry \/ until < n THEN until ELSE n
AfterSweepSwapped(n, age) == next' = age /\ since' = n   \* variant: arguments swapped
AfterSweep(n, age) == next' = n /\ since' = IF age < Safety THEN age ELSE Safety

(* SELECT ... WHERE status = 'PENDING' ORDER BY reservedUntil LIMIT 1: what  *)
(* it may return, over the rows S that meet the WHERE.                      *)
Pending == {o \in Orders : row[o] = "pending"}
Soonest(S) == IF S = {} THEN {NoExpiry}
              ELSE {left[o] : o \in {p \in S : \A q \in S : left[p] <= left[q]}}
NextFutureExpiry ==   \* variant: WHERE reservedUntil > now
    Soonest({o \in Pending : left[o] > 0})
NextExpiry == Soonest(Pending)

----------------------------------------------------------------------------
(* Transactions that create and settle orders *)

Becomes(o, status, until) ==
    row' = [row EXCEPT ![o] = status] /\ left' = [left EXCEPT ![o] = until]

(* create tells the sweep of the order before its transaction commits.      *)
Insert(o) ==
    /\ row[o] = "none" /\ Becomes(o, "open", TTL)
    /\ next' = IF o \in Untracked THEN next ELSE Track(next, TTL)
    /\ UNCHANGED <<reopened, checkouts, since, job, faults>>
(* The transaction of a create ends.                                        *)
EndCreate(o) ==
    /\ row[o] = "open"
    /\ Becomes(o, "pending", left[o]) \/ Becomes(o, "none", NoExpiry)
    /\ UNCHANGED <<reopened, checkouts, sweepState, job, faults>>
(* Paid or cancelled; or expired by a request, that finds it stale or       *)
(* replaces it by another.                                                  *)
Settle(o) ==
    /\ row[o] = "pending"
    /\ \E status \in {"settled", "expired"} : Becomes(o, status, NoExpiry)
    /\ UNCHANGED <<reopened, checkouts, sweepState, job, faults>>
(* reconcile-abacate-payments.ts, another process, opens a new window.      *)
Reopen(o) ==
    /\ row[o] = "expired" /\ o \in Reopenable \ reopened
    /\ Becomes(o, "pending", TTL)
    /\ reopened' = reopened \cup {o}
    /\ UNCHANGED <<checkouts, sweepState, job, faults>>

(* checkout reads a pending order that is not stale and asks the gateway for*)
(* a charge.                                                                *)
AskCharge(c, o) ==
    /\ c \notin saved /\ charging[c] = NoCharge
    /\ row[o] = "pending" /\ left[o] >= 0
    /\ charging' = [charging EXCEPT ![c] = [order |-> o, left |-> left[o]]]
    /\ UNCHANGED <<row, left, reopened, saved, sweepState, job, faults>>
(* It saves the entity it read: whatever happened to the order meanwhile, it*)
(* is PENDING again, with the deadline it had, and nobody tells the sweep.  *)
SaveOrder(c) ==
    /\ charging[c] # NoCharge
    /\ charging' = [charging EXCEPT ![c] = NoCharge]
    /\ saved' = saved \cup {c}
    /\ Becomes(charging[c].order, "pending", charging[c].left)
    /\ UNCHANGED <<reopened, sweepState, job, faults>>
(* The gateway or the save fails.                                           *)
ChargeFails(c) ==
    /\ charging[c] # NoCharge
    /\ charging' = [charging EXCEPT ![c] = NoCharge]
    /\ UNCHANGED <<row, left, reopened, saved, sweepState, job, faults>>

----------------------------------------------------------------------------
(* The sweep *)

Fault == faults < MaxFaults /\ faults' = faults + 1

OneMinute(x) == IF x \in {NoExpiry, Floor} THEN x ELSE x - 1
Older(x) == IF x < Safety THEN x + 1 ELSE x

(* The job the cron starts: a sweep that has not ended keeps its own.       *)
FreeJob == CHOOSE j \in Jobs : job[j].pc = "off"

(* A minute passes and the cron fires.  Transactions end before their order *)
(* is due, sweeps within JobMinutes, and the gateway answers within Late.   *)
Minute ==
    LET next1 == OneMinute(next)  since1 == Older(since)
        aged == [j \in Jobs |-> IF job[j].pc = "off" THEN Off
                                ELSE [job[j] EXCEPT !.age = @ + 1, !.next = OneMinute(@)]]
    IN
    /\ \A o \in Orders : row[o] = "open" => left[o] > 0
    /\ \A j \in Jobs : job[j].pc # "off" => job[j].age < JobMinutes
    /\ \A c \in Checkouts : charging[c] # NoCharge => charging[c].left > -Late
    /\ left' = [o \in Orders |-> OneMinute(left[o])]
    /\ charging' = [c \in Checkouts |-> IF charging[c] = NoCharge THEN NoCharge
                                        ELSE [charging[c] EXCEPT !.left = OneMinute(@)]]
    /\ next' = next1 /\ since' = since1
    /\ IF ShouldSweep(next1, since1)
       THEN job' = [aged EXCEPT ![FreeJob].pc = "find"]
       ELSE job' = aged
    /\ UNCHANGED <<row, reopened, saved, faults>>

(* The overdue orders at the time the sweep started, PageSize of them.      *)
Stale(j) == {o \in Pending : left[o] + job[j].age < 0}
Find(j) ==
    /\ job[j].pc = "find"
    /\ \E page \in SUBSET Stale(j) :
         /\ Cardinality(page) <= PageSize
         /\ Cardinality(page) < PageSize => page = Stale(j)
         /\ job' = [job EXCEPT ![j].page = page, ![j].pc = "expire"]
    /\ UNCHANGED <<row, left, reopened, checkouts, sweepState, faults>>
(* expireIfStale of the next order of the page.  It reads the status again  *)
(* but not the deadline; an error is logged.                                *)
ExpireOne(j) ==
    /\ job[j].pc = "expire"
    /\ \E o \in job[j].page :
         /\ job' = [job EXCEPT ![j].page = @ \ {o}]
         /\ \/ /\ IF row[o] = "pending"
                  THEN Becomes(o, "expired", NoExpiry) ELSE UNCHANGED <<row, left>>
               /\ UNCHANGED faults
            \/ Fault /\ UNCHANGED <<row, left>>
    /\ UNCHANGED <<reopened, checkouts, sweepState>>
ReadNext(j) ==
    /\ job[j].pc = "expire" /\ job[j].page = {}
    /\ \E until \in NextExpiry : job' = [job EXCEPT ![j].pc = "assign", ![j].next = until]
    /\ UNCHANGED <<row, left, reopened, checkouts, sweepState, faults>>
Assign(j) ==
    /\ job[j].pc = "assign"
    /\ AfterSweep(job[j].next, job[j].age)
    /\ job' = [job EXCEPT ![j] = Off]
    /\ UNCHANGED <<row, left, reopened, checkouts, faults>>
(* One of the sweep's own queries fails: it ends, sweepState stays.         *)
QueryFails(j) ==
    /\ job[j].pc = "find" \/ (job[j].pc = "expire" /\ job[j].page = {})
    /\ Fault
    /\ job' = [job EXCEPT ![j] = Off]
    /\ UNCHANGED <<row, left, reopened, checkouts, sweepState>>

(* Sweeps, checkouts and open transactions are lost, and sweepState too.    *)
Restart ==
    /\ Fault
    /\ row' = [o \in Orders |-> IF row[o] = "open" THEN "none" ELSE row[o]]
    /\ left' = [o \in Orders |-> IF row[o] = "open" THEN NoExpiry ELSE left[o]]
    /\ next' = NoExpiry /\ since' = Safety
    /\ job' = [j \in Jobs |-> Off]
    /\ charging' = [c \in Checkouts |-> NoCharge]
    /\ UNCHANGED <<reopened, saved>>

Sweep(j) == Find(j) \/ ExpireOne(j) \/ ReadNext(j) \/ Assign(j) \/ QueryFails(j)
Next ==
    \/ Minute \/ Restart
    \/ \E j \in Jobs : Sweep(j)
    \/ \E o \in Orders : Insert(o) \/ EndCreate(o) \/ Settle(o) \/ Reopen(o)
    \/ \E c \in Checkouts : (\E o \in Orders : AskCharge(c, o)) \/ SaveOrder(c) \/ ChargeFails(c)

Spec == Init /\ [][Next]_vars
(* The clock runs; transactions, sweeps and checkouts do not stop half-way:  *)
(* it is enough that of two sweeps one goes on, since each has an end.      *)
FairSpec ==
    /\ Spec
    /\ WF_vars(Minute)
    /\ WF_vars(\E j \in Jobs : Sweep(j))
    /\ \A o \in Orders : WF_vars(EndCreate(o))
    /\ \A c \in Checkouts : WF_vars(SaveOrder(c) \/ ChargeFails(c))

----------------------------------------------------------------------------
(* Properties *)

(* A reservation outlives its deadline by at most the safety interval, the  *)
(* delay of a checkout that puts it back, and the time of one sweep for each*)
(* page of due orders and for each fault, whoever created it and whatever   *)
(* the sweeps overwrote.                                                    *)
Deadlines == Cardinality(Orders) + Cardinality(reopened) + Cardinality(saved)
Pages == (Deadlines + PageSize - 1) \div PageSize
OverdueBounded ==
    \A o \in Pending :
        -left[o] <= Safety + Late + (Pages + faults) * (JobMinutes + 1)

(* Every overdue reservation ends, even the untracked and the forgotten.    *)
OverdueEnds ==
    \A o \in Orders :
        (row[o] = "pending" /\ left[o] < 0) ~> (row[o] # "pending" \/ left[o] >= 0)
=============================================================================
