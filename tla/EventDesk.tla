------------------------------- MODULE EventDesk -------------------------------
(***************************************************************************)
(* Events behind the desk: created, edited and published by a producer     *)
(* (producer-events.service.ts), handed to another producer, archived,     *)
(* brought back and featured by the administrator (admin.service.ts).      *)
(*                                                                         *)
(* Every request reads the event without a lock, decides, and writes.  A   *)
(* producer's request is events.update(patch), which writes the columns of *)
(* the patch; an administrator's is save(entity), which reads the row      *)
(* again and writes every column that differs, also one that somebody else *)
(* has changed since the entity was read.                                  *)
(***************************************************************************)
EXTENDS Naturals, FiniteSets

CONSTANTS
    Workers,    \* requests at once
    Events,     \* all of the same artist and title
    Producers,
    Keys,       \* values of what routes a payout: PIX key, provider
    LastTime,   \* bound: times an event may start or open, 0 is the past
    Openings,   \* what the rows may be at first
    MaxWrites   \* bound: requests that write

Times == 0..LastTime
None == "none"
Statuses == {None, "DRAFT", "PUBLISHED", "ARCHIVED"}
Columns == {"status", "payout", "featured", "starts", "doors", "owner"}
NoSlug == 0
Slugs == 1..Cardinality(Events)
Event == [status: Statuses, slug: {NoSlug} \cup Slugs, payout: Keys \cup {None},
          featured: BOOLEAN, starts: Times, doors: Times, owner: Producers \cup {None}]
NoEvent == [status |-> None, slug |-> NoSlug, payout |-> None, featured |-> FALSE,
            starts |-> 0, doors |-> 0, owner |-> None]
Idle == [pc |-> "idle", event |-> None, snap |-> NoEvent, dirty |-> {},
         clears |-> FALSE, cleared |-> {}]

ASSUME EventDeskAssumption ==
    /\ IsFiniteSet(Workers) /\ IsFiniteSet(Events)
    /\ Keys # {} /\ None \notin Keys /\ LastTime \in Nat /\ MaxWrites \in Nat
    /\ Openings \subseteq [Events -> Event]
(* At first an event is not there, or has been created, and perhaps         *)
(* published; none is featured.                                             *)
ASSUME OpeningsAssumption ==
    \A r \in Openings : \A e \in Events : r[e] # NoEvent =>
        /\ r[e].status \in {"DRAFT", "PUBLISHED"} /\ ~r[e].featured
        /\ r[e].payout # None /\ r[e].doors <= r[e].starts /\ r[e].slug # NoSlug
        /\ \A f \in Events \ {e} : r[f].slug # r[e].slug

VARIABLES
    row,        \* the rows of events
    work,       \* what each worker is doing
    writes,     \* requests so far
    stale,      \* history: workers whose read another commit has outdated
    disturbed,  \* history: a stale save since the last undisturbed feature
    crossed,    \* history: the columns of events that a stale write changed
    live        \* history: what routed the payout when the event left DRAFT

vars == <<row, work, writes, stale, disturbed, crossed, live>>
history == <<stale, disturbed, crossed, live>>

(* Slugs are unique, and the doors open before the start unless two updates *)
(* that each checked it crossed.                                            *)
TypeOK ==
    /\ \A e \in Events :
         /\ row[e] \in Event
         /\ live[e] \in {{}} \cup {{k} : k \in Keys}
         /\ <<e, "times">> \notin crossed => row[e].doors <= row[e].starts
         /\ \A f \in Events \ {e} : row[e].slug = row[f].slug => row[e].slug = NoSlug
    /\ writes \in 0..MaxWrites /\ stale \subseteq Workers /\ disturbed \in BOOLEAN
    /\ crossed \subseteq (Events \X {"payout", "times"})

Init ==
    /\ row \in Openings
    /\ work = [w \in Workers |-> Idle] /\ writes = 0
    /\ stale = {} /\ disturbed = FALSE /\ crossed = {}
    /\ live = [e \in Events |-> IF row[e].status = "PUBLISHED" THEN {row[e].payout} ELSE {}]

At(w, pc) == work[w].pc = pc
Exists(e) == row[e].status # None
OnSale(e) == row[e].status = "PUBLISHED"
Begin(w, e, pc, snap, dirty) ==
    /\ At(w, "idle") /\ writes < MaxWrites /\ writes' = writes + 1
    /\ work' = [work EXCEPT ![w] = [Idle EXCEPT !.pc = pc, !.event = e, !.snap = snap,
                                                !.dirty = dirty]]

----------------------------------------------------------------------------
(* create *)

(* The first slug no event has, found by a query for each ...               *)
Taken == {row[e].slug : e \in Events}
FindSlug(w, e, k, t, d, p) ==
    /\ ~Exists(e) /\ d <= t
    /\ \E s \in Slugs \ Taken :
         /\ \A r \in Slugs \ Taken : s <= r
         /\ Begin(w, e, "insert",
                  [NoEvent EXCEPT !.status = "DRAFT", !.slug = s, !.payout = k,
                                  !.starts = t, !.doors = d, !.owner = p], {})
    /\ UNCHANGED <<row, history>>
(* ... and the insert of the event, its sectors and batches, which fails if *)
(* another has taken it since.                                              *)
SlugIsFreeAlways(s) == TRUE   \* variant: no unique index
SlugIsFree(s) == s \notin Taken
Insert(w) ==
    LET e == work[w].event IN
    /\ At(w, "insert") /\ ~Exists(e)
    /\ IF SlugIsFree(work[w].snap.slug)
       THEN row' = [row EXCEPT ![e] = work[w].snap]
       ELSE UNCHANGED row
    /\ work' = [work EXCEPT ![w] = Idle]
    /\ UNCHANGED <<writes, history>>

----------------------------------------------------------------------------
(* The producer *)

(* updateEvent: what routes the payout only while it is read as a DRAFT, a  *)
(* time only if the doors still open before the start.                      *)
PatchesUnlocked(r) ==   \* variant: the payout is never locked
    {<<"payout", [r EXCEPT !.payout = k]>> : k \in Keys}
Patches(r) ==
    {p \in {<<"payout", [r EXCEPT !.payout = k]>> : k \in Keys} : r.status = "DRAFT"}
    \cup {p \in {<<"starts", [r EXCEPT !.starts = t]>> : t \in Times}
              \cup {<<"doors", [r EXCEPT !.doors = t]>> : t \in Times} :
            p[2].doors <= p[2].starts}
UpdateEvent(w, e) ==
    /\ Exists(e)
    /\ \E p \in Patches(row[e]) : Begin(w, e, "write", p[2], {p[1]})
    /\ UNCHANGED <<row, history>>
(* publish: a DRAFT with stock (StockDesk) that has not started.            *)
Publish(w, e) ==
    /\ row[e].status = "DRAFT" /\ row[e].starts > 0
    /\ Begin(w, e, "write", [row[e] EXCEPT !.status = "PUBLISHED"], {"status"})
    /\ UNCHANGED <<row, history>>

----------------------------------------------------------------------------
(* The administrator *)

ReassignEvent(w, e, p) ==
    /\ Exists(e)
    /\ Begin(w, e, "write", [row[e] EXCEPT !.owner = p], {"owner"})
    /\ UNCHANGED <<row, history>>

ArchivedFeatured(r) == [r EXCEPT !.status = "ARCHIVED"]   \* variant: still featured
Archived(r) == [r EXCEPT !.status = "ARCHIVED", !.featured = FALSE]
ArchiveEvent(w, e) ==
    /\ OnSale(e) /\ Begin(w, e, "diff", Archived(row[e]), {})
    /\ UNCHANGED <<row, history>>
UnarchiveEvent(w, e) ==
    /\ row[e].status = "ARCHIVED"
    /\ Begin(w, e, "diff", [row[e] EXCEPT !.status = "PUBLISHED"], {})
    /\ UNCHANGED <<row, history>>

(* featureEvent: resolveFeatureToggle on the event that was read; then, in  *)
(* a transaction, every featured event is cleared and the entity saved.     *)
FeatureEvent(w, e) ==
    /\ OnSale(e) /\ Begin(w, e, "clear", [row[e] EXCEPT !.featured = TRUE], {})
    /\ UNCHANGED <<row, history>>
UnfeatureEvent(w, e) ==
    /\ Exists(e) /\ Begin(w, e, "diff", [row[e] EXCEPT !.featured = FALSE], {})
    /\ UNCHANGED <<row, history>>
(* The UPDATE that clears sees the events featured when it starts, waits    *)
(* for those another feature holds, and holds them until its own commit.    *)
Cleared == {e \in Events : row[e].featured}
Clear(w) ==
    /\ At(w, "clear")
    /\ work' = [work EXCEPT ![w].pc = "hold", ![w].clears = TRUE, ![w].cleared = Cleared]
    /\ UNCHANGED <<row, writes, history>>
Locked(e, w) == \E v \in Workers \ {w} : work[v].pc \in {"diff", "write"} /\ e \in work[v].cleared
Hold(w) ==
    /\ At(w, "hold") /\ \A e \in work[w].cleared : ~Locked(e, w)
    /\ work' = [work EXCEPT ![w].pc = "diff"]
    /\ UNCHANGED <<row, writes, history>>

(* save: the columns that differ, in the row as its transaction sees it ... *)
Seen(w) ==
    LET e == work[w].event IN
    [row[e] EXCEPT !.featured = @ /\ e \notin work[w].cleared]
Diff(w) ==
    /\ At(w, "diff")
    /\ work' = [work EXCEPT ![w].pc = "write",
                  ![w].dirty = {x \in Columns : work[w].snap[x] # Seen(w)[x]}]
    /\ UNCHANGED <<row, writes, history>>

----------------------------------------------------------------------------
(* ... and the UPDATE, of a save as of a patch, with its commit *)

Written(w) ==
    LET e == work[w].event
        base == [f \in Events |-> [row[f] EXCEPT !.featured = @ /\ f \notin work[w].cleared]] IN
    [base EXCEPT ![e] = [x \in DOMAIN NoEvent |->
        IF x \in work[w].dirty THEN work[w].snap[x] ELSE base[e][x]]]
(* Outdated: who has read this event, or is to save a featured one that     *)
(* this has cleared; and who has cleared the events that were featured when *)
(* this one becomes featured.                                               *)
Outdates(w) ==
    {v \in Workers \ {w} : ~At(v, "idle") /\ work[v].event = work[w].event}
    \cup {v \in Workers \ {w} :
            At(v, "diff") /\ work[v].snap.featured /\ work[v].event \in work[w].cleared}
    \cup {v \in Workers \ {w} :
            work[v].clears /\ "featured" \in work[w].dirty /\ work[w].snap.featured}
IsSave(w) == work[w].dirty \cap {"status", "featured"} # {}
Crosses(w) ==
    {x \in {"payout", "times"} :
        \/ x = "payout" /\ "payout" \in work[w].dirty
        \/ x = "payout" /\ "status" \in work[w].dirty /\ work[w].snap.status = "DRAFT"
        \/ x = "times" /\ work[w].dirty \cap {"starts", "doors"} # {}}
Write(w) ==
    LET e == work[w].event IN
    /\ At(w, "write") /\ ~Locked(e, w)
    /\ row' = Written(w) /\ work' = [work EXCEPT ![w] = Idle]
    /\ stale' = (stale \cup Outdates(w)) \ {w}
    /\ disturbed' = CASE w \in stale /\ IsSave(w) -> TRUE
                      [] w \notin stale /\ work[w].clears -> FALSE
                      [] OTHER -> disturbed
    /\ crossed' = IF w \in stale THEN crossed \cup ({e} \X Crosses(w)) ELSE crossed
    /\ live' = IF row[e].status = "DRAFT" /\ row'[e].status # "DRAFT"
               THEN [live EXCEPT ![e] = {row[e].payout}] ELSE live
    /\ UNCHANGED writes

(* An error, a crash: the transaction has no effect.                        *)
Fail(w) ==
    /\ ~At(w, "idle") /\ work' = [work EXCEPT ![w] = Idle] /\ stale' = stale \ {w}
    /\ UNCHANGED <<row, writes, disturbed, crossed, live>>

Next ==
    \E w \in Workers :
        \/ \E e \in Events, k \in Keys, t \in Times, d \in Times, p \in Producers :
              FindSlug(w, e, k, t, d, p)
        \/ \E e \in Events :
              \/ UpdateEvent(w, e) \/ Publish(w, e) \/ ArchiveEvent(w, e)
              \/ UnarchiveEvent(w, e) \/ FeatureEvent(w, e) \/ UnfeatureEvent(w, e)
              \/ \E p \in Producers : ReassignEvent(w, e, p)
        \/ Insert(w) \/ Clear(w) \/ Hold(w) \/ Diff(w) \/ Write(w) \/ Fail(w)
Spec == Init /\ [][Next]_vars

----------------------------------------------------------------------------
(* Properties *)

(* At most one event is featured, and it is on sale: each feature clears    *)
(* the others and archiving clears its own.  Only a write of a request that *)
(* was outdated by then, or two features at once, can break this, until the *)
(* next feature that nobody disturbs.                                       *)
FrontPage ==
    ~disturbed => /\ \A e \in Cleared : OnSale(e)
                  /\ Cardinality(Cleared) <= 1

(* Once an event has left DRAFT what routes its payout stays as it was, and *)
(* it is no DRAFT again, except for an update of it that had read the DRAFT *)
(* before the publication, and a save that writes an outdated entity back.  *)
PayoutLocked ==
    \A e \in Events :
        (live[e] # {} /\ <<e, "payout">> \notin crossed)
            => row[e].status # "DRAFT" /\ live[e] = {row[e].payout}
=============================================================================
