---------------------------- MODULE EventDeskProofs ----------------------------
(***************************************************************************)
(* Proofs about EventDesk, for any number of requests, events and times:   *)
(* its type invariant, the featured event, and the payout.                 *)
(*                                                                         *)
(* The inductive invariant adds what a request in progress knows of its    *)
(* event: that it exists (SnapOK), and, while no other commit has outdated *)
(* the request, that the row is still what it decided on (FreshOK), so     *)
(* that its save touches only the columns it means to.                     *)
(***************************************************************************)
EXTENDS EventDesk, FiniteSetTheorems, TLAPS

Work == [pc: {"idle", "insert", "clear", "hold", "diff", "write"}, event: Events \cup {None},
         snap: Event, dirty: SUBSET Columns, clears: BOOLEAN, cleared: SUBSET Events]

Typed ==
    /\ row \in [Events -> Event] /\ work \in [Workers -> Work]
    /\ live \in [Events -> {{}} \cup {{k} : k \in Keys}]
    /\ writes \in 0..MaxWrites /\ stale \subseteq Workers /\ disturbed \in BOOLEAN
    /\ crossed \subseteq (Events \X {"payout", "times"})

Rows ==
    \A e \in Events :
        /\ Exists(e) => row[e].payout \in Keys
        /\ ~Exists(e) => live[e] = {}
        /\ <<e, "times">> \notin crossed => row[e].doors <= row[e].starts
        /\ \A f \in Events \ {e} : row[e].slug = row[f].slug => row[e].slug = NoSlug

(* What a request is about. *)
SnapOK(r, rows) ==
    /\ r.pc \notin {"idle", "insert"} =>
         r.event \in Events /\ rows[r.event].status # None /\ r.snap.status # None /\ r.snap.payout \in Keys
    /\ r.pc = "insert" =>
         /\ r.event \in Events /\ r.snap.status = "DRAFT" /\ ~r.snap.featured
         /\ r.snap.payout \in Keys /\ r.snap.doors <= r.snap.starts
    /\ r.pc \in {"idle", "insert", "clear"} => ~r.clears
    /\ r.pc = "hold" => r.clears
    /\ ~r.clears => r.cleared = {}

(* What it has read still holds, of the columns it writes. *)
ReadOK(r, rows) ==
    r.pc \in {"clear", "hold", "diff"} =>
        /\ r.snap.payout = rows[r.event].payout
        /\ r.snap.starts = rows[r.event].starts /\ r.snap.doors = rows[r.event].doors
        /\ r.snap.status = "DRAFT" => rows[r.event].status = "DRAFT"
FeatureOK(r, rows) ==
    r.pc = "clear" \/ r.clears =>
        r.snap.status = "PUBLISHED" /\ rows[r.event].status = "PUBLISHED" /\ r.snap.featured
EntityOK(r, rows) ==
    r.pc = "diff" /\ ~r.clears =>
        /\ r.snap.featured => rows[r.event].featured
        /\ \/ r.snap.status \in {rows[r.event].status, "PUBLISHED"}
           \/ r.snap.status = "ARCHIVED" /\ ~r.snap.featured
PayoutOK(r, rows) ==
    r.pc = "write" /\ "payout" \in r.dirty => rows[r.event].status = "DRAFT" /\ "status" \notin r.dirty
StatusOK(r, rows) ==
    r.pc = "write" /\ "status" \in r.dirty =>
        \/ r.snap.status = "PUBLISHED"
        \/ /\ r.snap.status = "ARCHIVED" /\ ~r.snap.featured
           /\ "featured" \in r.dirty \/ ~rows[r.event].featured
FeaturedOK(r, rows) ==
    r.pc = "write" /\ ~r.clears /\ "featured" \in r.dirty => ~r.snap.featured
TimesOK(r, rows) ==
    r.pc = "write" /\ r.dirty \cap {"starts", "doors"} # {} =>
        (IF "doors" \in r.dirty THEN r.snap.doors ELSE rows[r.event].doors)
            <= (IF "starts" \in r.dirty THEN r.snap.starts ELSE rows[r.event].starts)
ClearedOK(r, rows) == r.clears => {e \in Events : rows[e].featured} \subseteq r.cleared

FreshOK(r, rows) ==
    /\ ReadOK(r, rows) /\ FeatureOK(r, rows) /\ EntityOK(r, rows) /\ PayoutOK(r, rows)
    /\ StatusOK(r, rows) /\ FeaturedOK(r, rows) /\ TimesOK(r, rows) /\ ClearedOK(r, rows)

Requests ==
    /\ \A w \in Workers : SnapOK(work[w], row)
    /\ \A w \in Workers \ stale : FreshOK(work[w], row)

Front ==
    ~disturbed => /\ \A e \in Cleared : OnSale(e)
                  /\ \A e, f \in Cleared : e = f

IInv == Typed /\ Rows /\ Requests /\ Front /\ PayoutLocked

LEMMA FrontGives == ASSUME Front PROVE FrontPage
<1> SUFFICES ASSUME ~disturbed PROVE Cardinality(Cleared) <= 1
  BY DEF Front, FrontPage
<1>1. CASE Cleared = {}
  BY <1>1, FS_EmptySet
<1>2. CASE Cleared # {}
  <2>1. PICK e \in Cleared : Cleared = {e}
    BY <1>2 DEF Front
  <2> QED
    BY <2>1, FS_Singleton
<1> QED
  BY <1>1, <1>2

LEMMA TypedGives == ASSUME Typed, Rows PROVE TypeOK
BY DEF Typed, Rows, TypeOK

LEMMA IdleType ==
    /\ NoEvent \in Event /\ Idle \in Work
    /\ Idle.pc = "idle" /\ Idle.dirty = {} /\ ~Idle.clears /\ Idle.cleared = {}
    /\ \A rows : SnapOK(Idle, rows) /\ FreshOK(Idle, rows)
<1>1. NoEvent \in Event
  BY EventDeskAssumption DEF NoEvent, Event, Statuses, Times
<1>2. Idle \in Work /\ Idle.pc = "idle" /\ Idle.dirty = {} /\ ~Idle.clears /\ Idle.cleared = {}
  BY <1>1 DEF Idle, Work
<1> QED
  BY <1>1, <1>2 DEF SnapOK, FreshOK, ReadOK, FeatureOK, EntityOK, PayoutOK, StatusOK, FeaturedOK,
                    TimesOK, ClearedOK

LEMMA InitInv == ASSUME Init PROVE IInv
<1>1. /\ row \in [Events -> Event]
      /\ \A e \in Events : row[e].status \in {None, "DRAFT", "PUBLISHED"} /\ ~row[e].featured
      /\ \A e \in Events : row[e] = NoEvent \/
           /\ row[e].status # None /\ row[e].payout # None /\ row[e].doors <= row[e].starts
           /\ \A f \in Events \ {e} : row[f].slug # row[e].slug
  <2>1. row \in Openings /\ row \in [Events -> Event]
    BY EventDeskAssumption DEF Init
  <2>2. ASSUME NEW e \in Events, row[e] # NoEvent
        PROVE  /\ row[e].status \in {"DRAFT", "PUBLISHED"} /\ ~row[e].featured
               /\ row[e].payout # None /\ row[e].doors <= row[e].starts
               /\ \A f \in Events \ {e} : row[f].slug # row[e].slug
    BY <2>1, <2>2, OpeningsAssumption
  <2>3. NoEvent.status = None /\ ~NoEvent.featured /\ None \notin {"DRAFT", "PUBLISHED"}
    BY DEF NoEvent, None
  <2> QED
    BY <2>1, <2>2, <2>3
<1>2. \A e \in Events : row[e].payout \in Keys \cup {None}
  BY <1>1 DEF Event
<1>3. Typed
  <2>1. \A e \in Events : live[e] \in {{}} \cup {{k} : k \in Keys}
    BY <1>1, <1>2 DEF Init, NoEvent, None
  <2>2. live \in [Events -> {{}} \cup {{k} : k \in Keys}]
    BY <2>1 DEF Init
  <2>3. work \in [Workers -> Work]
    BY IdleType DEF Init
  <2>4. writes \in 0..MaxWrites
    BY EventDeskAssumption DEF Init
  <2>5. row \in [Events -> Event]
    BY <1>1
  <2> QED
    BY <2>2, <2>3, <2>4, <2>5 DEF Init, Typed
<1>4. Rows
  <2> SUFFICES ASSUME NEW e \in Events
               PROVE  /\ Exists(e) => row[e].payout \in Keys
                      /\ ~Exists(e) => live[e] = {}
                      /\ row[e].doors <= row[e].starts
                      /\ \A f \in Events \ {e} : row[e].slug = row[f].slug => row[e].slug = NoSlug
    BY DEF Rows
  <2>1. CASE row[e] = NoEvent
    BY <2>1 DEF Init, NoEvent, Exists, None
  <2>2. CASE row[e] # NoEvent
    BY <2>2, <1>1, <1>2 DEF Exists
  <2> QED
    BY <2>1, <2>2
<1>5. Requests
  BY IdleType DEF Init, Requests
<1>6. Front /\ PayoutLocked
  BY <1>1 DEF Init, Front, Cleared, PayoutLocked
<1> QED
  BY <1>3, <1>4, <1>5, <1>6 DEF IInv

----------------------------------------------------------------------------
(* Steps of a request that write nothing *)

LEMMA MoveInv ==
    ASSUME IInv, NEW w \in Workers, NEW r \in Work, SnapOK(r, row), FreshOK(r, row) \/ w \in stale',
           work' = [work EXCEPT ![w] = r], UNCHANGED <<row, disturbed, crossed, live>>,
           writes' \in 0..MaxWrites, stale' = stale \/ stale' = stale \ {w}
    PROVE  IInv'
<1>1. Typed' /\ Rows'
  BY DEF IInv, Typed, Rows, Exists
<1>2. Front' /\ PayoutLocked'
  BY DEF IInv, Front, PayoutLocked, Cleared, OnSale
<1>3. Requests'
  <2> SUFFICES ASSUME NEW v \in Workers
               PROVE  SnapOK(work'[v], row) /\ (v \notin stale' => FreshOK(work'[v], row))
    BY DEF Requests
  <2>1. CASE v = w
    <3>1. work'[v] = r
      BY <2>1 DEF IInv, Typed
    <3> QED
      BY <3>1, <2>1
  <2>2. CASE v # w
    <3>1. work'[v] = work[v] /\ (v \notin stale' => v \notin stale)
      BY <2>2 DEF IInv, Typed
    <3> QED
      BY <3>1 DEF IInv, Requests
  <2> QED
    BY <2>1, <2>2
<1> QED
  BY <1>1, <1>2, <1>3 DEF IInv

Begun(e, pc, snap, dirty) == [Idle EXCEPT !.pc = pc, !.event = e, !.snap = snap, !.dirty = dirty]

LEMMA BegunType ==
    ASSUME NEW e \in Events, NEW pc \in {"insert", "clear", "diff", "write"}, NEW snap \in Event,
           NEW dirty \in SUBSET Columns
    PROVE  LET r == Begun(e, pc, snap, dirty) IN
           /\ r \in Work /\ r.pc = pc /\ r.event = e /\ r.snap = snap /\ r.dirty = dirty
           /\ ~r.clears /\ r.cleared = {}
BY IdleType DEF Begun, Idle, Work

LEMMA BeginInv ==
    ASSUME IInv, NEW w \in Workers, NEW e \in Events, NEW pc \in {"insert", "clear", "diff", "write"},
           NEW snap \in Event, NEW dirty \in SUBSET Columns,
           Begin(w, e, pc, snap, dirty), UNCHANGED <<row, history>>,
           SnapOK(Begun(e, pc, snap, dirty), row), FreshOK(Begun(e, pc, snap, dirty), row)
    PROVE  IInv'
<1>1. writes' \in 0..MaxWrites
  BY EventDeskAssumption DEF Begin, IInv, Typed
<1>2. Begun(e, pc, snap, dirty) \in Work
  BY BegunType
<1>3. work' = [work EXCEPT ![w] = Begun(e, pc, snap, dirty)]
  BY DEF Begin, Begun
<1> QED
  BY <1>1, <1>2, <1>3, MoveInv DEF history

LEMMA RowType ==
    ASSUME IInv, NEW e \in Events
    PROVE  row[e] \in Event /\ (Exists(e) => row[e].payout \in Keys)
BY DEF IInv, Typed, Rows

LEMMA FindSlugInv ==
    ASSUME IInv, NEW w \in Workers, NEW e \in Events, NEW k \in Keys, NEW t \in Times, NEW d \in Times,
           NEW p \in Producers, FindSlug(w, e, k, t, d, p)
    PROVE  IInv'
<1>1. PICK s \in Slugs :
        Begin(w, e, "insert", [NoEvent EXCEPT !.status = "DRAFT", !.slug = s, !.payout = k,
                                              !.starts = t, !.doors = d, !.owner = p], {})
  BY DEF FindSlug
<1> DEFINE snap == [NoEvent EXCEPT !.status = "DRAFT", !.slug = s, !.payout = k,
                                   !.starts = t, !.doors = d, !.owner = p]
           r == Begun(e, "insert", snap, {})
<1>2. /\ snap \in Event /\ snap.status = "DRAFT" /\ ~snap.featured /\ snap.payout = k
      /\ snap.starts = t /\ snap.doors = d
  BY IdleType DEF NoEvent, Event, Statuses
<1>3. d <= t /\ UNCHANGED <<row, history>>
  BY DEF FindSlug
<1>4. Begin(w, e, "insert", snap, {})
  BY <1>1
<1> HIDE DEF snap
<1>5. /\ r.pc = "insert" /\ r.event = e /\ r.snap = snap /\ r.dirty = {} /\ ~r.clears /\ r.cleared = {}
  BY <1>2, BegunType
<1> HIDE DEF r
<1>6. SnapOK(r, row) /\ FreshOK(r, row)
  BY <1>2, <1>3, <1>5 DEF SnapOK, FreshOK, ReadOK, FeatureOK, EntityOK, PayoutOK, StatusOK, FeaturedOK,
                          TimesOK, ClearedOK
<1> QED
  BY <1>2, <1>3, <1>4, <1>6, BeginInv DEF r

(* A patch: what it changes, and what it leaves. *)
LEMMA PatchInv ==
    ASSUME IInv, NEW w \in Workers, NEW e \in Events, Exists(e), NEW x \in Columns, NEW snap \in Event,
           Begin(w, e, "write", snap, {x}), UNCHANGED <<row, history>>,
           snap.status # None, snap.payout \in Keys,
           x = "payout" => row[e].status = "DRAFT",
           x = "status" => snap.status = "PUBLISHED",
           x # "featured",
           x = "starts" => row[e].doors <= snap.starts,
           x = "doors" => snap.doors <= row[e].starts
    PROVE  IInv'
<1> DEFINE r == Begun(e, "write", snap, {x})
<1>1. /\ r.pc = "write" /\ r.event = e /\ r.snap = snap /\ r.dirty = {x} /\ ~r.clears /\ r.cleared = {}
  BY BegunType
<1> HIDE DEF r
<1>2. SnapOK(r, row)
  BY <1>1 DEF SnapOK, Exists
<1>3. FreshOK(r, row)
  BY <1>1 DEF FreshOK, ReadOK, FeatureOK, EntityOK, PayoutOK, StatusOK, FeaturedOK, TimesOK, ClearedOK
<1> QED
  BY <1>2, <1>3, BeginInv DEF r

LEMMA UpdateEventInv ==
    ASSUME IInv, NEW w \in Workers, NEW e \in Events, UpdateEvent(w, e)
    PROVE  IInv'
<1>1. PICK p \in Patches(row[e]) : Begin(w, e, "write", p[2], {p[1]})
  BY DEF UpdateEvent
<1>2. Exists(e) /\ UNCHANGED <<row, history>> /\ row[e] \in Event /\ row[e].payout \in Keys
  BY RowType DEF UpdateEvent
<1>3. CASE \E k \in Keys : p = <<"payout", [row[e] EXCEPT !.payout = k]>> /\ row[e].status = "DRAFT"
  <2>1. PICK k \in Keys : p = <<"payout", [row[e] EXCEPT !.payout = k]>>
    BY <1>3
  <2> DEFINE snap == [row[e] EXCEPT !.payout = k]
  <2>2. snap \in Event /\ snap.status = row[e].status /\ snap.payout = k
    BY <1>2 DEF Event
  <2>3. Begin(w, e, "write", snap, {"payout"})
    BY <1>1, <2>1
  <2> HIDE DEF snap
  <2> QED
    BY <1>2, <1>3, <2>2, <2>3, PatchInv DEF Columns, Exists
<1>4. CASE \E t \in Times : p = <<"starts", [row[e] EXCEPT !.starts = t]>> /\ p[2].doors <= p[2].starts
  <2>1. PICK t \in Times : p = <<"starts", [row[e] EXCEPT !.starts = t]>> /\ p[2].doors <= p[2].starts
    BY <1>4
  <2> DEFINE snap == [row[e] EXCEPT !.starts = t]
  <2>2. /\ snap \in Event /\ snap.status = row[e].status /\ snap.payout = row[e].payout
        /\ snap.starts = t /\ snap.doors = row[e].doors
    BY <1>2 DEF Event
  <2>3. Begin(w, e, "write", snap, {"starts"}) /\ snap.doors <= snap.starts
    BY <1>1, <2>1
  <2> HIDE DEF snap
  <2> QED
    BY <1>2, <2>2, <2>3, PatchInv DEF Columns, Exists
<1>5. CASE \E t \in Times : p = <<"doors", [row[e] EXCEPT !.doors = t]>> /\ p[2].doors <= p[2].starts
  <2>1. PICK t \in Times : p = <<"doors", [row[e] EXCEPT !.doors = t]>> /\ p[2].doors <= p[2].starts
    BY <1>5
  <2> DEFINE snap == [row[e] EXCEPT !.doors = t]
  <2>2. /\ snap \in Event /\ snap.status = row[e].status /\ snap.payout = row[e].payout
        /\ snap.doors = t /\ snap.starts = row[e].starts
    BY <1>2 DEF Event
  <2>3. Begin(w, e, "write", snap, {"doors"}) /\ snap.doors <= snap.starts
    BY <1>1, <2>1
  <2> HIDE DEF snap
  <2> QED
    BY <1>2, <2>2, <2>3, PatchInv DEF Columns, Exists
<1> QED
  BY <1>3, <1>4, <1>5 DEF Patches

LEMMA PublishInv ==
    ASSUME IInv, NEW w \in Workers, NEW e \in Events, Publish(w, e)
    PROVE  IInv'
<1>1. /\ row[e] \in Event /\ Exists(e) /\ row[e].payout \in Keys
  BY RowType DEF Publish, Exists, None
<1> DEFINE snap == [row[e] EXCEPT !.status = "PUBLISHED"]
<1>2. /\ snap \in Event /\ snap.status = "PUBLISHED" /\ snap.payout = row[e].payout
  BY <1>1 DEF Event, Statuses
<1>3. Begin(w, e, "write", snap, {"status"}) /\ UNCHANGED <<row, history>>
  BY DEF Publish
<1> HIDE DEF snap
<1> QED
  BY <1>1, <1>2, <1>3, PatchInv DEF Columns, None

LEMMA ReassignInv ==
    ASSUME IInv, NEW w \in Workers, NEW e \in Events, NEW p \in Producers, ReassignEvent(w, e, p)
    PROVE  IInv'
<1>1. row[e] \in Event /\ Exists(e) /\ row[e].payout \in Keys
  BY RowType DEF ReassignEvent
<1> DEFINE snap == [row[e] EXCEPT !.owner = p]
<1>2. snap \in Event /\ snap.status = row[e].status /\ snap.payout = row[e].payout
  BY <1>1 DEF Event
<1>3. Begin(w, e, "write", snap, {"owner"}) /\ UNCHANGED <<row, history>>
  BY DEF ReassignEvent
<1> HIDE DEF snap
<1> QED
  BY <1>1, <1>2, <1>3, PatchInv DEF Columns, Exists

(* An entity that differs from its row in status and featured at most. *)
LEMMA EntityInv ==
    ASSUME IInv, NEW w \in Workers, NEW e \in Events, Exists(e), NEW pc \in {"clear", "diff"},
           NEW snap \in Event, Begin(w, e, pc, snap, {}), UNCHANGED <<row, history>>,
           snap.payout = row[e].payout, snap.starts = row[e].starts, snap.doors = row[e].doors,
           snap.status # None, snap.status \in {row[e].status, "PUBLISHED", "ARCHIVED"},
           pc = "clear" => snap.status = "PUBLISHED" /\ row[e].status = "PUBLISHED" /\ snap.featured,
           pc = "diff" => /\ snap.featured => row[e].featured
                          /\ \/ snap.status \in {row[e].status, "PUBLISHED"}
                             \/ snap.status = "ARCHIVED" /\ ~snap.featured
    PROVE  IInv'
<1> DEFINE r == Begun(e, pc, snap, {})
<1>1. /\ r.pc = pc /\ r.event = e /\ r.snap = snap /\ r.dirty = {} /\ ~r.clears /\ r.cleared = {}
  BY BegunType
<1> HIDE DEF r
<1>2. SnapOK(r, row)
  BY <1>1, RowType DEF SnapOK, Exists
<1>3. FreshOK(r, row)
  BY <1>1 DEF FreshOK, ReadOK, FeatureOK, EntityOK, PayoutOK, StatusOK, FeaturedOK, TimesOK, ClearedOK
<1> QED
  BY <1>2, <1>3, BeginInv DEF r

LEMMA AdministratorInv ==
    ASSUME IInv, NEW w \in Workers, NEW e \in Events,
           ArchiveEvent(w, e) \/ UnarchiveEvent(w, e) \/ FeatureEvent(w, e) \/ UnfeatureEvent(w, e)
    PROVE  IInv'
<1>1. /\ row[e] \in Event /\ Exists(e) /\ UNCHANGED <<row, history>>
  BY RowType DEF ArchiveEvent, UnarchiveEvent, FeatureEvent, UnfeatureEvent, OnSale, Exists, None
<1>2. ASSUME NEW s \in Statuses, NEW b \in BOOLEAN
      PROVE  LET snap == [row[e] EXCEPT !.status = s, !.featured = b] IN
             /\ snap \in Event /\ snap.status = s /\ snap.featured = b
             /\ snap.payout = row[e].payout /\ snap.starts = row[e].starts /\ snap.doors = row[e].doors
  BY <1>1 DEF Event
<1>3. {"ARCHIVED", "PUBLISHED"} \subseteq Statuses \ {None} /\ row[e].status \in Statuses \ {None}
      /\ row[e].featured \in BOOLEAN
  BY <1>1 DEF Statuses, None, Exists, Event
<1>4. CASE ArchiveEvent(w, e)
  <2> DEFINE snap == [row[e] EXCEPT !.status = "ARCHIVED", !.featured = FALSE]
  <2>1. /\ snap \in Event /\ snap.status = "ARCHIVED" /\ snap.featured = FALSE
        /\ snap.payout = row[e].payout /\ snap.starts = row[e].starts /\ snap.doors = row[e].doors
    BY <1>2, <1>3
  <2>2. Begin(w, e, "diff", snap, {})
    BY <1>4 DEF ArchiveEvent, Archived
  <2> HIDE DEF snap
  <2> QED
    BY <1>1, <1>3, <2>1, <2>2, EntityInv
<1>5. CASE UnarchiveEvent(w, e)
  <2> DEFINE snap == [row[e] EXCEPT !.status = "PUBLISHED"]
  <2>1. /\ snap \in Event /\ snap.status = "PUBLISHED" /\ snap.featured = row[e].featured
        /\ snap.payout = row[e].payout /\ snap.starts = row[e].starts /\ snap.doors = row[e].doors
    BY <1>1, <1>3 DEF Event
  <2>2. Begin(w, e, "diff", snap, {})
    BY <1>5 DEF UnarchiveEvent
  <2> HIDE DEF snap
  <2> QED
    BY <1>1, <1>3, <2>1, <2>2, EntityInv
<1>6. CASE FeatureEvent(w, e)
  <2> DEFINE snap == [row[e] EXCEPT !.featured = TRUE]
  <2>1. /\ snap \in Event /\ snap.status = row[e].status /\ snap.featured = TRUE
        /\ snap.payout = row[e].payout /\ snap.starts = row[e].starts /\ snap.doors = row[e].doors
    BY <1>1 DEF Event
  <2>2. Begin(w, e, "clear", snap, {}) /\ row[e].status = "PUBLISHED"
    BY <1>6 DEF FeatureEvent, OnSale
  <2> HIDE DEF snap
  <2> QED
    BY <1>1, <1>3, <2>1, <2>2, EntityInv
<1>7. CASE UnfeatureEvent(w, e)
  <2> DEFINE snap == [row[e] EXCEPT !.featured = FALSE]
  <2>1. /\ snap \in Event /\ snap.status = row[e].status /\ snap.featured = FALSE
        /\ snap.payout = row[e].payout /\ snap.starts = row[e].starts /\ snap.doors = row[e].doors
    BY <1>1 DEF Event
  <2>2. Begin(w, e, "diff", snap, {})
    BY <1>7 DEF UnfeatureEvent
  <2> HIDE DEF snap
  <2> QED
    BY <1>1, <1>3, <2>1, <2>2, EntityInv
<1> QED
  BY <1>4, <1>5, <1>6, <1>7

LEMMA WorkType ==
    ASSUME IInv, NEW w \in Workers
    PROVE  work[w] \in Work /\ SnapOK(work[w], row) /\ (w \notin stale => FreshOK(work[w], row))
BY DEF IInv, Typed, Requests

Clearing(q, c) == [q EXCEPT !.pc = "hold", !.clears = TRUE, !.cleared = c]
Differing(q) == [q EXCEPT !.pc = "diff"]
Saving(q, d) == [q EXCEPT !.pc = "write", !.dirty = d]

LEMMA ClearingType ==
    ASSUME NEW q \in Work, NEW c \in SUBSET Events
    PROVE  LET r == Clearing(q, c) IN
           /\ r \in Work /\ r.pc = "hold" /\ r.event = q.event /\ r.snap = q.snap
           /\ r.dirty = q.dirty /\ r.clears /\ r.cleared = c
BY DEF Work, Clearing
LEMMA DifferingType ==
    ASSUME NEW q \in Work
    PROVE  LET r == Differing(q) IN
           /\ r \in Work /\ r.pc = "diff" /\ r.event = q.event /\ r.snap = q.snap
           /\ r.dirty = q.dirty /\ r.clears = q.clears /\ r.cleared = q.cleared
BY DEF Work, Differing
LEMMA SavingType ==
    ASSUME NEW q \in Work, NEW d \in SUBSET Columns
    PROVE  LET r == Saving(q, d) IN
           /\ r \in Work /\ r.pc = "write" /\ r.event = q.event /\ r.snap = q.snap
           /\ r.dirty = d /\ r.clears = q.clears /\ r.cleared = q.cleared
BY DEF Work, Saving

LEMMA ClearInv ==
    ASSUME IInv, NEW w \in Workers, Clear(w)
    PROVE  IInv'
<1> DEFINE c == Cleared
<1>1. c \in SUBSET Events /\ c = {f \in Events : row[f].featured}
  BY DEF Cleared
<1>0. work[w] \in Work
  BY WorkType
<1> HIDE DEF c
<1> DEFINE r == Clearing(work[w], c)
<1>2. /\ r \in Work /\ r.pc = "hold" /\ r.event = work[w].event /\ r.snap = work[w].snap
      /\ r.dirty = work[w].dirty /\ r.clears /\ r.cleared = c
  BY <1>0, <1>1, ClearingType
<1>3. work' = [work EXCEPT ![w] = r] /\ UNCHANGED <<row, writes, history>>
  BY DEF Clear, Clearing, c
<1>4. writes' \in 0..MaxWrites
  BY <1>3 DEF IInv, Typed
<1> HIDE DEF r
<1>5. SnapOK(r, row)
  BY <1>2, WorkType DEF SnapOK, Clear, At
<1>6. w \notin stale => FreshOK(r, row)
  BY <1>1, <1>2, WorkType
     DEF Clear, At, FreshOK, ReadOK, FeatureOK, EntityOK, PayoutOK, StatusOK, FeaturedOK, TimesOK, ClearedOK
<1> QED
  BY <1>2, <1>3, <1>4, <1>5, <1>6, MoveInv DEF history

LEMMA HoldInv ==
    ASSUME IInv, NEW w \in Workers, Hold(w)
    PROVE  IInv'
<1> DEFINE r == Differing(work[w])
<1>0. work[w] \in Work /\ work[w].pc = "hold"
  BY WorkType DEF Hold, At
<1>1. /\ r \in Work /\ r.pc = "diff" /\ r.event = work[w].event /\ r.snap = work[w].snap
      /\ r.dirty = work[w].dirty /\ r.clears = work[w].clears /\ r.cleared = work[w].cleared
  BY <1>0, DifferingType
<1>2. work' = [work EXCEPT ![w] = r] /\ UNCHANGED <<row, writes, history>>
  BY DEF Hold, Differing
<1>3. writes' \in 0..MaxWrites
  BY <1>2 DEF IInv, Typed
<1> HIDE DEF r
<1>4. SnapOK(r, row) /\ r.clears
  BY <1>1, WorkType DEF SnapOK, Hold, At
<1>5. ASSUME w \notin stale PROVE FreshOK(r, row)
  <2>1. ReadOK(work[w], row) /\ FeatureOK(work[w], row) /\ ClearedOK(work[w], row)
    BY <1>5, WorkType DEF FreshOK
  <2>2. ReadOK(r, row) /\ FeatureOK(r, row) /\ ClearedOK(r, row)
    BY <2>1, <1>0, <1>1, <1>4 DEF ReadOK, FeatureOK, ClearedOK
  <2>3. EntityOK(r, row) /\ PayoutOK(r, row) /\ StatusOK(r, row) /\ FeaturedOK(r, row) /\ TimesOK(r, row)
    BY <1>1, <1>4 DEF EntityOK, PayoutOK, StatusOK, FeaturedOK, TimesOK
  <2> QED
    BY <2>2, <2>3 DEF FreshOK
<1> QED
  BY <1>1, <1>2, <1>3, <1>4, <1>5, MoveInv DEF history

(* A save of an entity that is not outdated touches status and featured at  *)
(* most: the row still has the other columns as they were read.             *)
LEMMA DiffInv ==
    ASSUME IInv, NEW w \in Workers, Diff(w)
    PROVE  IInv'
<1> DEFINE e == work[w].event
           d == {x \in Columns : work[w].snap[x] # Seen(w)[x]}
           r == Saving(work[w], d)
<1>1. work[w] \in Work /\ SnapOK(work[w], row) /\ work[w].pc = "diff" /\ e \in Events
  BY WorkType DEF Diff, At, SnapOK
<1>2. row[e] \in Event
  BY <1>1 DEF IInv, Typed
<1>3. /\ r \in Work /\ r.pc = "write" /\ r.event = e /\ r.snap = work[w].snap
      /\ r.dirty = d /\ r.clears = work[w].clears /\ r.cleared = work[w].cleared
  <2>1. d \in SUBSET Columns
    OBVIOUS
  <2> HIDE DEF d
  <2> QED
    BY <1>1, <2>1, SavingType
<1>4. work' = [work EXCEPT ![w] = r] /\ UNCHANGED <<row, writes, history>>
  <2>1. work' = [work EXCEPT ![w].pc = "write", ![w].dirty = d] /\ UNCHANGED <<row, writes, history>>
    BY DEF Diff
  <2> HIDE DEF d
  <2>2. work \in [Workers -> Work]
    BY DEF IInv, Typed
  <2> QED
    BY <2>1, <2>2 DEF Saving
<1>5. writes' \in 0..MaxWrites
  BY <1>4 DEF IInv, Typed
<1>6. /\ "payout" \in d => r.snap.payout # row[e].payout
      /\ "status" \in d => r.snap.status # row[e].status
      /\ "starts" \in d => r.snap.starts # row[e].starts
      /\ "doors" \in d => r.snap.doors # row[e].doors
      /\ "featured" \in d <=> r.snap.featured # (row[e].featured /\ e \notin work[w].cleared)
  <2>1. /\ Seen(w).payout = row[e].payout /\ Seen(w).status = row[e].status
        /\ Seen(w).starts = row[e].starts /\ Seen(w).doors = row[e].doors
        /\ Seen(w).featured = (row[e].featured /\ e \notin work[w].cleared)
    BY <1>2 DEF Seen, Event
  <2> DEFINE s == work[w].snap
             z == Seen(w)
  <2>2. d = {x \in Columns : s[x] # z[x]} /\ r.snap = s
    BY <1>3
  <2> HIDE DEF d, r, s
  <2>3. \A x \in Columns : x \in d <=> s[x] # z[x]
    BY <2>2
  <2>4. {"payout", "status", "starts", "doors", "featured"} \subseteq Columns
    BY DEF Columns
  <2> QED
    BY <2>1, <2>2, <2>3, <2>4
<1> HIDE DEF d, r, e
<1>7. SnapOK(r, row)
  BY <1>1, <1>3 DEF SnapOK, e
<1>8. ASSUME w \notin stale PROVE FreshOK(r, row)
  <2>1. /\ ReadOK(work[w], row) /\ FeatureOK(work[w], row) /\ EntityOK(work[w], row)
        /\ ClearedOK(work[w], row)
    BY <1>8, WorkType DEF FreshOK
  <2>2. /\ r.snap.payout = row[e].payout /\ r.snap.starts = row[e].starts /\ r.snap.doors = row[e].doors
    BY <2>1, <1>1, <1>3 DEF ReadOK, e
  <2>3. ReadOK(r, row) /\ FeatureOK(r, row) /\ EntityOK(r, row) /\ PayoutOK(r, row) /\ ClearedOK(r, row)
    BY <2>1, <2>2, <1>3, <1>6 DEF ReadOK, FeatureOK, EntityOK, PayoutOK, ClearedOK, e
  <2>4. TimesOK(r, row)
    BY <2>2, <1>3, <1>6 DEF TimesOK
  <2>5. CASE work[w].clears
    BY <2>1, <2>3, <2>4, <2>5, <1>3, <1>6 DEF FreshOK, FeatureOK, StatusOK, FeaturedOK, e
  <2>6. CASE ~work[w].clears
    <3>1. /\ r.snap.featured => row[e].featured
          /\ \/ r.snap.status \in {row[e].status, "PUBLISHED"}
             \/ r.snap.status = "ARCHIVED" /\ ~r.snap.featured
      BY <2>1, <2>6, <1>1, <1>3 DEF EntityOK, e
    <3>2. "featured" \in d <=> r.snap.featured # row[e].featured
      BY <2>6, <1>1, <1>2, <1>6 DEF SnapOK, Event
    <3>3. r.snap.featured \in BOOLEAN /\ row[e].featured \in BOOLEAN
      BY <1>2, <1>3 DEF Work, Event
    <3>4. FeaturedOK(r, row)
      BY <3>1, <3>2, <3>3, <1>3 DEF FeaturedOK
    <3>5. StatusOK(r, row)
      BY <3>1, <3>2, <3>3, <1>3, <1>6 DEF StatusOK
    <3> QED
      BY <3>4, <3>5, <2>3, <2>4 DEF FreshOK
  <2> QED
    BY <2>5, <2>6
<1> QED
  BY <1>3, <1>4, <1>5, <1>7, <1>8, MoveInv DEF history

LEMMA FailInv ==
    ASSUME IInv, NEW w \in Workers, Fail(w)
    PROVE  IInv'
<1>1. writes' \in 0..MaxWrites
  BY DEF Fail, IInv, Typed
<1> QED
  BY <1>1, IdleType, MoveInv DEF Fail

----------------------------------------------------------------------------
(* Steps that write *)

(* An event nobody has, or its slug taken: no other request knows it.       *)
LEMMA InsertInv ==
    ASSUME IInv, NEW w \in Workers, Insert(w)
    PROVE  IInv'
<1> DEFINE e == work[w].event
           snap == work[w].snap
<1>1. /\ work[w] \in Work /\ SnapOK(work[w], row) /\ work[w].pc = "insert" /\ ~Exists(e)
      /\ work' = [work EXCEPT ![w] = Idle] /\ UNCHANGED <<writes, stale, disturbed, crossed, live>>
  BY WorkType DEF Insert, At, history
<1>2. e \in Events /\ snap \in Event /\ snap.status = "DRAFT" /\ ~snap.featured /\ snap.payout \in Keys
      /\ snap.doors <= snap.starts
  BY <1>1 DEF SnapOK, Work
<1>3. CASE row' = row
  <2>1. writes' \in 0..MaxWrites
    BY <1>1 DEF IInv, Typed
  <2> QED
    BY <1>1, <1>3, <2>1, IdleType, MoveInv
<1>4. CASE row' = [row EXCEPT ![e] = snap] /\ \A f \in Events : row[f].slug # snap.slug
  <2>1. /\ row \in [Events -> Event] /\ row' \in [Events -> Event] /\ row'[e] = snap
        /\ \A f \in Events \ {e} : row'[f] = row[f]
    BY <1>2, <1>4 DEF IInv, Typed
  <2>2. work' \in [Workers -> Work] /\ work'[w] = Idle /\ \A v \in Workers \ {w} : work'[v] = work[v]
    BY <1>1, IdleType DEF IInv, Typed
  <2> HIDE DEF e, snap
  <2>3. Typed'
    BY <1>1, <2>1, <2>2 DEF IInv, Typed
  <2>4. Rows'
    <3>1. ASSUME NEW f \in Events
          PROVE  /\ Exists(f)' => row'[f].payout \in Keys
                 /\ ~Exists(f)' => live'[f] = {}
                 /\ <<f, "times">> \notin crossed' => row'[f].doors <= row'[f].starts
      <4>1. CASE f = e
        BY <4>1, <1>2, <2>1 DEF Exists, None
      <4>2. CASE f # e
        BY <4>2, <1>1, <2>1 DEF IInv, Rows, Exists
      <4> QED
        BY <4>1, <4>2
    <3>2. ASSUME NEW f \in Events, NEW g \in Events \ {f}, row'[f].slug = row'[g].slug
          PROVE  row'[f].slug = NoSlug
      <4>1. f # e /\ g # e
        BY <3>2, <1>4, <2>1
      <4> QED
        BY <4>1, <3>2, <2>1 DEF IInv, Rows
    <3> QED
      BY <3>1, <3>2 DEF Rows
  <2>5. Cleared' \subseteq Cleared /\ \A f \in Cleared' : row'[f] = row[f]
    BY <1>2, <2>1 DEF Cleared
  <2>6. Front'
    BY <1>1, <2>5 DEF IInv, Front, OnSale, Cleared
  <2>7. PayoutLocked'
    <3> SUFFICES ASSUME NEW f \in Events, live[f] # {}, <<f, "payout">> \notin crossed
                 PROVE  row'[f].status # "DRAFT" /\ live[f] = {row'[f].payout}
      BY <1>1 DEF PayoutLocked
    <3>1. live[e] = {}
      BY <1>1, <1>2 DEF IInv, Rows, e
    <3> QED
      BY <3>1, <2>1 DEF IInv, PayoutLocked
  <2>8. Requests'
    <3> SUFFICES ASSUME NEW v \in Workers
                 PROVE  SnapOK(work'[v], row') /\ (v \notin stale => FreshOK(work'[v], row'))
      BY <1>1 DEF Requests
    <3>1. CASE v = w
      BY <3>1, <2>2, IdleType
    <3>2. CASE v # w
      <4> DEFINE q == work[v]
      <4>1. work'[v] = q /\ q \in Work /\ SnapOK(q, row) /\ (v \notin stale => FreshOK(q, row))
        BY <3>2, <2>2, WorkType
      <4>2. q.pc \in {"idle", "insert", "clear", "hold", "diff", "write"}
        BY <4>1 DEF Work
      <4> HIDE DEF q
      <4>3. CASE q.pc \in {"idle", "insert"}
        <5>1. SnapOK(q, row') /\ ~q.clears
          BY <4>1, <4>3 DEF SnapOK
        <5>2. FreshOK(q, row')
          BY <4>3, <5>1 DEF FreshOK, ReadOK, FeatureOK, EntityOK, PayoutOK, StatusOK, FeaturedOK, TimesOK,
                            ClearedOK
        <5> QED
          BY <4>1, <5>1, <5>2
      <4>4. CASE q.pc \notin {"idle", "insert"}
        <5>1. q.event \in Events /\ row[q.event].status # None
          BY <4>1, <4>4 DEF SnapOK
        <5>2. q.event # e
          BY <5>1, <1>1 DEF Exists, e
        <5>3. row'[q.event] = row[q.event]
          BY <5>1, <5>2, <2>1
        <5>4. SnapOK(q, row')
          BY <4>1, <5>3 DEF SnapOK
        <5>5. ASSUME v \notin stale PROVE FreshOK(q, row')
          <6>1. FreshOK(q, row)
            BY <5>5, <4>1
          <6>2. ClearedOK(q, row')
            BY <6>1, <2>5 DEF FreshOK, ClearedOK, Cleared
          <6>3. ReadOK(q, row') /\ FeatureOK(q, row') /\ EntityOK(q, row')
            BY <6>1, <5>3 DEF FreshOK, ReadOK, FeatureOK, EntityOK
          <6>4. PayoutOK(q, row') /\ StatusOK(q, row') /\ FeaturedOK(q, row') /\ TimesOK(q, row')
            BY <6>1, <5>3 DEF FreshOK, PayoutOK, StatusOK, FeaturedOK, TimesOK
          <6> QED
            BY <6>2, <6>3, <6>4 DEF FreshOK
        <5> QED
          BY <4>1, <5>4, <5>5
      <4> QED
        BY <4>3, <4>4
    <3> QED
      BY <3>1, <3>2
  <2> QED
    BY <2>3, <2>4, <2>6, <2>7, <2>8 DEF IInv
<1> QED
  BY <1>3, <1>4 DEF Insert, SlugIsFree, Taken

(* What the UPDATE leaves: the other events, but for the flag it clears;    *)
(* and of its own, the columns that are not dirty.                          *)
LEMMA WrittenIs ==
    ASSUME row \in [Events -> Event], NEW w \in Workers, work[w] \in Work, work[w].event \in Events
    PROVE  LET q == work[w]
               e == work[w].event
               R == Written(w) IN
           /\ R \in [Events -> Event]
           /\ \A f \in Events \ {e} :
                /\ R[f].status = row[f].status /\ R[f].slug = row[f].slug
                /\ R[f].payout = row[f].payout /\ R[f].starts = row[f].starts
                /\ R[f].doors = row[f].doors
                /\ R[f].featured = (row[f].featured /\ f \notin q.cleared)
           /\ R[e].slug = row[e].slug
           /\ R[e].status = IF "status" \in q.dirty THEN q.snap.status ELSE row[e].status
           /\ R[e].payout = IF "payout" \in q.dirty THEN q.snap.payout ELSE row[e].payout
           /\ R[e].starts = IF "starts" \in q.dirty THEN q.snap.starts ELSE row[e].starts
           /\ R[e].doors = IF "doors" \in q.dirty THEN q.snap.doors ELSE row[e].doors
           /\ R[e].featured = IF "featured" \in q.dirty THEN q.snap.featured
                                                        ELSE row[e].featured /\ e \notin q.cleared
<1> DEFINE q == work[w]
           e == work[w].event
           b(f) == row[f].featured /\ f \notin q.cleared
           base == [f \in Events |-> [row[f] EXCEPT !.featured = b(f)]]
           own == [x \in DOMAIN NoEvent |-> IF x \in q.dirty THEN q.snap[x] ELSE base[e][x]]
<1>1. Written(w) = [base EXCEPT ![e] = own]
  BY DEF Written
<1>2. /\ q.snap \in Event /\ q.dirty \subseteq Columns /\ e \in Events
  BY DEF Work
<1>3. \A f \in Events : b(f) \in BOOLEAN /\ row[f] \in Event
  OBVIOUS
<1>4. ASSUME NEW f \in Events
      PROVE  /\ base[f] \in Event
             /\ base[f].status = row[f].status /\ base[f].slug = row[f].slug
             /\ base[f].payout = row[f].payout /\ base[f].starts = row[f].starts
             /\ base[f].doors = row[f].doors /\ base[f].owner = row[f].owner
             /\ base[f].featured = b(f)
  <2> DEFINE c == b(f)
  <2>1. c \in BOOLEAN /\ row[f] \in Event
    BY <1>3
  <2> HIDE DEF c
  <2>2. LET z == [row[f] EXCEPT !.featured = c] IN
        /\ z \in Event
        /\ z.status = row[f].status /\ z.slug = row[f].slug
        /\ z.payout = row[f].payout /\ z.starts = row[f].starts
        /\ z.doors = row[f].doors /\ z.owner = row[f].owner
        /\ z.featured = c
    BY <2>1 DEF Event
  <2>3. base[f] = [row[f] EXCEPT !.featured = c]
    BY DEF c
  <2> HIDE DEF base
  <2> QED
    BY <2>2, <2>3 DEF c
<1> HIDE DEF base
<1>5. /\ own \in Event
      /\ own.slug = row[e].slug
      /\ own.status = IF "status" \in q.dirty THEN q.snap.status ELSE row[e].status
      /\ own.payout = IF "payout" \in q.dirty THEN q.snap.payout ELSE row[e].payout
      /\ own.starts = IF "starts" \in q.dirty THEN q.snap.starts ELSE row[e].starts
      /\ own.doors = IF "doors" \in q.dirty THEN q.snap.doors ELSE row[e].doors
      /\ own.featured = IF "featured" \in q.dirty THEN q.snap.featured ELSE b(e)
  <2> DEFINE y == base[e]
             s == q.snap
             d == q.dirty
  <2>1. y \in Event /\ s \in Event
    BY <1>2, <1>4
  <2>2. "slug" \notin d
    BY <1>2 DEF Columns
  <2>3. own = [x \in DOMAIN NoEvent |-> IF x \in d THEN s[x] ELSE y[x]]
    OBVIOUS
  <2> HIDE DEF y, s, d, own
  <2>4. own = [status |-> IF "status" \in d THEN s.status ELSE y.status,
               slug |-> y.slug,
               payout |-> IF "payout" \in d THEN s.payout ELSE y.payout,
               featured |-> IF "featured" \in d THEN s.featured ELSE y.featured,
               starts |-> IF "starts" \in d THEN s.starts ELSE y.starts,
               doors |-> IF "doors" \in d THEN s.doors ELSE y.doors,
               owner |-> IF "owner" \in d THEN s.owner ELSE y.owner]
    BY <2>2, <2>3 DEF NoEvent
  <2>5. own \in Event
    BY <2>1, <2>4 DEF Event
  <2>6. /\ own.slug = y.slug
        /\ own.status = IF "status" \in d THEN s.status ELSE y.status
        /\ own.payout = IF "payout" \in d THEN s.payout ELSE y.payout
        /\ own.starts = IF "starts" \in d THEN s.starts ELSE y.starts
        /\ own.doors = IF "doors" \in d THEN s.doors ELSE y.doors
        /\ own.featured = IF "featured" \in d THEN s.featured ELSE y.featured
    BY <2>4
  <2> QED
    BY <1>2, <1>4, <2>5, <2>6 DEF y, s, d
<1> HIDE DEF own
<1>6. base \in [Events -> Event]
  BY <1>4 DEF base
<1>7. /\ Written(w) \in [Events -> Event] /\ Written(w)[e] = own
      /\ \A f \in Events \ {e} : Written(w)[f] = base[f]
  BY <1>1, <1>2, <1>5, <1>6
<1> QED
  BY <1>4, <1>5, <1>7

(* What another request in progress keeps, of an event that is not this one *)
(* and that this write does not take from under its save.                   *)
LEMMA ApartInv ==
    ASSUME NEW rows, NEW q, q.event \in Events,
           rows[q.event].status = row[q.event].status, rows[q.event].payout = row[q.event].payout,
           rows[q.event].starts = row[q.event].starts, rows[q.event].doors = row[q.event].doors,
           rows[q.event].featured => row[q.event].featured,
           FreshOK(q, row),
           q.pc = "diff" /\ q.snap.featured /\ row[q.event].featured => rows[q.event].featured,
           q.clears => \A f \in Events : rows[f].featured => row[f].featured
    PROVE  FreshOK(q, rows)
<1>1. ReadOK(q, rows) /\ FeatureOK(q, rows)
  BY DEF FreshOK, ReadOK, FeatureOK
<1>2. EntityOK(q, rows)
  BY DEF FreshOK, EntityOK
<1>3. PayoutOK(q, rows) /\ StatusOK(q, rows) /\ FeaturedOK(q, rows)
  BY DEF FreshOK, PayoutOK, StatusOK, FeaturedOK
<1>4. TimesOK(q, rows)
  BY DEF FreshOK, TimesOK
<1>5. ClearedOK(q, rows)
  BY DEF FreshOK, ClearedOK
<1> QED
  BY <1>1, <1>2, <1>3, <1>4, <1>5 DEF FreshOK

LEMMA WriteInv ==
    ASSUME IInv, NEW w \in Workers, Write(w)
    PROVE  IInv'
<1> DEFINE q == work[w]
           e == work[w].event
           D == q.dirty
           S == q.snap
           R == Written(w)
<1>1. /\ q \in Work /\ SnapOK(q, row) /\ (w \notin stale => FreshOK(q, row)) /\ q.pc = "write"
  BY WorkType DEF Write, At
<1>2. /\ e \in Events /\ row[e].status # None /\ S.status # None /\ S.payout \in Keys
      /\ S \in Event /\ D \subseteq Columns /\ q.cleared \subseteq Events /\ q.clears \in BOOLEAN
      /\ (~q.clears => q.cleared = {})
  BY <1>1 DEF SnapOK, Work
<1>3. row \in [Events -> Event] /\ row[e] \in Event /\ row[e].payout \in Keys
  BY <1>2 DEF IInv, Typed, Rows, Exists
<1>4. /\ R \in [Events -> Event]
      /\ \A f \in Events \ {e} :
           /\ R[f].status = row[f].status /\ R[f].slug = row[f].slug
           /\ R[f].payout = row[f].payout /\ R[f].starts = row[f].starts
           /\ R[f].doors = row[f].doors
           /\ R[f].featured = (row[f].featured /\ f \notin q.cleared)
      /\ R[e].slug = row[e].slug
      /\ R[e].status = IF "status" \in D THEN S.status ELSE row[e].status
      /\ R[e].payout = IF "payout" \in D THEN S.payout ELSE row[e].payout
      /\ R[e].starts = IF "starts" \in D THEN S.starts ELSE row[e].starts
      /\ R[e].doors = IF "doors" \in D THEN S.doors ELSE row[e].doors
      /\ R[e].featured = IF "featured" \in D THEN S.featured ELSE row[e].featured /\ e \notin q.cleared
  BY <1>1, <1>2, <1>3, WrittenIs
<1>5. /\ row' = R /\ work' = [work EXCEPT ![w] = Idle] /\ writes' = writes
      /\ stale' = (stale \cup Outdates(w)) \ {w}
      /\ disturbed' = CASE w \in stale /\ IsSave(w) -> TRUE
                        [] w \notin stale /\ q.clears -> FALSE
                        [] OTHER -> disturbed
      /\ crossed' = IF w \in stale THEN crossed \cup ({e} \X Crosses(w)) ELSE crossed
      /\ live' = IF row[e].status = "DRAFT" /\ row'[e].status # "DRAFT"
                 THEN [live EXCEPT ![e] = {row[e].payout}] ELSE live
  BY DEF Write
<1>6. /\ work' \in [Workers -> Work] /\ work'[w] = Idle /\ \A v \in Workers \ {w} : work'[v] = work[v]
  BY <1>5, IdleType DEF IInv, Typed
<1>7. /\ live' \in [Events -> {{}} \cup {{k} : k \in Keys}]
      /\ live'[e] = IF row[e].status = "DRAFT" /\ R[e].status # "DRAFT" THEN {row[e].payout} ELSE live[e]
      /\ \A f \in Events \ {e} : live'[f] = live[f]
  BY <1>2, <1>3, <1>5 DEF IInv, Typed
<1>8. IsSave(w) <=> D \cap {"status", "featured"} # {}
  BY DEF IsSave
<1>9. /\ "payout" \in Crosses(w) <=> "payout" \in D \/ ("status" \in D /\ S.status = "DRAFT")
      /\ "times" \in Crosses(w) <=> "starts" \in D \/ "doors" \in D
      /\ Crosses(w) \subseteq {"payout", "times"}
  BY DEF Crosses
<1>10. Typed'
  <2>1. stale' \subseteq Workers
    BY <1>5 DEF Outdates, IInv, Typed
  <2>2. disturbed' \in BOOLEAN
    BY <1>5 DEF IInv, Typed
  <2>3. crossed' \subseteq (Events \X {"payout", "times"})
    BY <1>2, <1>5, <1>9 DEF IInv, Typed
  <2>4. writes' \in 0..MaxWrites /\ row' \in [Events -> Event]
    BY <1>4, <1>5 DEF IInv, Typed
  <2> QED
    BY <1>6, <1>7, <2>1, <2>2, <2>3, <2>4 DEF Typed
<1> HIDE DEF R, S, D, q, e
<1>11. crossed \subseteq crossed'
  BY <1>5
<1>12. ASSUME <<e, "payout">> \notin crossed', w \in stale
       PROVE  "payout" \notin D /\ ~("status" \in D /\ S.status = "DRAFT")
  BY <1>12, <1>5, <1>9
<1>13. ASSUME <<e, "times">> \notin crossed', w \in stale
       PROVE  "starts" \notin D /\ "doors" \notin D
  BY <1>13, <1>5, <1>9
<1>14. Rows'
  <2>1. ASSUME NEW f \in Events
        PROVE  /\ Exists(f)' => row'[f].payout \in Keys
               /\ ~Exists(f)' => live'[f] = {}
               /\ \A g \in Events \ {f} : row'[f].slug = row'[g].slug => row'[f].slug = NoSlug
    <3>1. /\ R[f].slug = row[f].slug /\ \A g \in Events : R[g].slug = row[g].slug
      BY <1>4
    <3>2. CASE f = e
      BY <3>1, <3>2, <1>2, <1>3, <1>4, <1>5 DEF Exists, IInv, Rows
    <3>3. CASE f # e
      BY <3>1, <3>3, <1>4, <1>5, <1>7 DEF Exists, IInv, Rows
    <3> QED
      BY <3>2, <3>3
  <2>2. ASSUME NEW f \in Events, <<f, "times">> \notin crossed'
        PROVE  row'[f].doors <= row'[f].starts
    <3>1. row[f].doors <= row[f].starts
      BY <2>2, <1>11 DEF IInv, Rows
    <3>2. CASE f # e
      BY <3>1, <3>2, <1>4, <1>5
    <3>3. CASE f = e /\ "starts" \notin D /\ "doors" \notin D
      BY <3>1, <3>3, <1>4, <1>5
    <3>4. CASE f = e /\ ("starts" \in D \/ "doors" \in D)
      <4>1. w \notin stale
        BY <2>2, <3>4, <1>13
      <4>2. TimesOK(q, row)
        BY <4>1, <1>1 DEF FreshOK
      <4>3. (IF "doors" \in D THEN S.doors ELSE row[e].doors)
              <= (IF "starts" \in D THEN S.starts ELSE row[e].starts)
        BY <3>4, <4>2, <1>1 DEF TimesOK, D, S, e, q
      <4> QED
        BY <3>4, <4>3, <1>4, <1>5
    <3> QED
      BY <3>2, <3>3, <3>4
  <2> QED
    BY <2>1, <2>2 DEF Rows
<1>15. PayoutLocked'
  <2> SUFFICES ASSUME NEW f \in Events, live'[f] # {}, <<f, "payout">> \notin crossed'
               PROVE  row'[f].status # "DRAFT" /\ live'[f] = {row'[f].payout}
    BY DEF PayoutLocked
  <2>1. live[f] # {} => row[f].status # "DRAFT" /\ live[f] = {row[f].payout}
    BY <1>11 DEF IInv, PayoutLocked
  <2>2. CASE f # e
    BY <2>1, <2>2, <1>4, <1>5, <1>7
  <2>3. CASE f = e /\ w \in stale
    BY <2>1, <2>3, <1>4, <1>5, <1>7, <1>12
  <2>4. CASE f = e /\ w \notin stale
    <3>1. PayoutOK(q, row) /\ StatusOK(q, row)
      BY <2>4, <1>1 DEF FreshOK
    <3>2. "payout" \in D => row[e].status = "DRAFT" /\ "status" \notin D
      BY <3>1, <1>1 DEF PayoutOK, D, e, q
    <3>3. "status" \in D => S.status # "DRAFT"
      BY <3>1, <1>1 DEF StatusOK, D, S, e, q
    <3> QED
      BY <2>1, <2>4, <3>2, <3>3, <1>4, <1>5, <1>7
  <2> QED
    BY <2>2, <2>3, <2>4
<1>16. Front'
  <2> SUFFICES ASSUME ~disturbed'
               PROVE  /\ \A f \in Events : R[f].featured => R[f].status = "PUBLISHED"
                      /\ \A f, g \in Events : R[f].featured /\ R[g].featured => f = g
    BY <1>5 DEF Front, Cleared, OnSale
  <2>1. CASE w \notin stale /\ q.clears
    <3>1. FeatureOK(q, row) /\ ClearedOK(q, row)
      BY <2>1, <1>1 DEF FreshOK
    <3>2. S.status = "PUBLISHED" /\ row[e].status = "PUBLISHED" /\ \A f \in Events : row[f].featured => f \in q.cleared
      BY <3>1, <2>1 DEF FeatureOK, ClearedOK, S, e, q
    <3> QED
      BY <3>2, <1>4
  <2>2. CASE (w \in stale /\ ~IsSave(w)) \/ (w \notin stale /\ ~q.clears)
    <3>1. ~disturbed
      BY <2>2, <1>5
    <3>2. /\ \A f \in Events : row[f].featured => row[f].status = "PUBLISHED"
          /\ \A f, g \in Events : row[f].featured /\ row[g].featured => f = g
      BY <3>1 DEF IInv, Front, Cleared, OnSale
    <3>3. R[e].featured => row[e].featured /\ R[e].status = "PUBLISHED"
      <4>1. CASE w \in stale
        BY <4>1, <2>2, <3>2, <1>2, <1>4, <1>8
      <4>2. CASE w \notin stale /\ ~q.clears
        <5>1. StatusOK(q, row) /\ FeaturedOK(q, row)
          BY <4>2, <1>1 DEF FreshOK
        <5>2. "featured" \in D => ~S.featured
          BY <4>2, <5>1, <1>1 DEF FeaturedOK, D, S, q
        <5>3. "status" \in D => \/ S.status = "PUBLISHED"
                                \/ ~S.featured /\ ("featured" \in D \/ ~row[e].featured)
          BY <5>1, <1>1 DEF StatusOK, D, S, e, q
        <5> QED
          BY <5>2, <5>3, <3>2, <1>2, <1>4
      <4> QED
        BY <4>1, <4>2, <2>2
    <3> QED
      BY <3>2, <3>3, <1>4
  <2> QED
    BY <2>1, <2>2, <1>2, <1>5
<1>17. Requests'
  <2> SUFFICES ASSUME NEW v \in Workers
               PROVE  SnapOK(work'[v], R) /\ (v \notin stale' => FreshOK(work'[v], R))
    BY <1>5 DEF Requests
  <2>1. CASE v = w
    BY <2>1, <1>6, IdleType
  <2>2. CASE v # w
    <3> DEFINE p == work[v]
    <3>1. /\ work'[v] = p /\ p \in Work /\ SnapOK(p, row) /\ (v \notin stale => FreshOK(p, row))
      BY <2>2, <1>6, WorkType
    <3>2. ASSUME v \notin stale'
          PROVE  /\ v \notin stale
                 /\ p.pc = "idle" \/ p.event # e
                 /\ ~(p.pc = "diff" /\ p.snap.featured /\ p.event \in q.cleared)
                 /\ ~(p.clears /\ "featured" \in D /\ S.featured)
      <4>1. v \notin Outdates(w) /\ v \notin stale
        BY <2>2, <3>2, <1>5
      <4> QED
        BY <2>2, <4>1 DEF Outdates, At, D, S, e, q
    <3>3. p.pc \in {"idle", "insert", "clear", "hold", "diff", "write"}
      BY <3>1 DEF Work
    <3> HIDE DEF p
    <3>4. CASE p.pc \in {"idle", "insert"}
      <4>1. SnapOK(p, R) /\ ~p.clears
        BY <3>1, <3>4 DEF SnapOK
      <4>2. FreshOK(p, R)
        BY <3>4, <4>1 DEF FreshOK, ReadOK, FeatureOK, EntityOK, PayoutOK, StatusOK, FeaturedOK, TimesOK,
                          ClearedOK
      <4> QED
        BY <3>1, <4>1, <4>2
    <3>5. CASE p.pc \notin {"idle", "insert"} /\ p.event = e
      <4>1. SnapOK(p, R)
        BY <3>1, <3>5, <1>2, <1>4 DEF SnapOK
      <4> QED
        BY <3>1, <3>2, <3>5, <4>1
    <3>6. CASE p.pc \notin {"idle", "insert"} /\ p.event # e
      <4>1. p.event \in Events
        BY <3>1, <3>6 DEF SnapOK
      <4>2. /\ R[p.event].status = row[p.event].status /\ R[p.event].payout = row[p.event].payout
            /\ R[p.event].starts = row[p.event].starts /\ R[p.event].doors = row[p.event].doors
            /\ R[p.event].featured = (row[p.event].featured /\ p.event \notin q.cleared)
        BY <4>1, <3>6, <1>4
      <4>3. SnapOK(p, R)
        BY <3>1, <4>2 DEF SnapOK
      <4>4. ASSUME v \notin stale' PROVE FreshOK(p, R)
        <5>1. FreshOK(p, row)
          BY <4>4, <3>1, <3>2
        <5>2. p.pc = "diff" /\ p.snap.featured /\ row[p.event].featured => R[p.event].featured
          BY <4>4, <3>2, <4>2
        <5>3. p.clears => \A f \in Events : R[f].featured => row[f].featured
          BY <4>4, <3>2, <1>2, <1>4
        <5> QED
          BY <5>1, <5>2, <5>3, <4>1, <4>2, ApartInv
      <4> QED
        BY <3>1, <4>3, <4>4
    <3> QED
      BY <3>4, <3>5, <3>6
  <2> QED
    BY <2>1, <2>2
<1> QED
  BY <1>10, <1>14, <1>15, <1>16, <1>17 DEF IInv

----------------------------------------------------------------------------
LEMMA StutterInv ==
    ASSUME IInv, UNCHANGED vars
    PROVE  IInv'
<1> USE DEF vars
<1>1. Typed' /\ Rows'
  BY DEF IInv, Typed, Rows, Exists
<1>2. Front' /\ PayoutLocked'
  BY DEF IInv, Front, PayoutLocked, Cleared, OnSale
<1>3. Requests'
  BY DEF IInv, Requests
<1> QED
  BY <1>1, <1>2, <1>3 DEF IInv

LEMMA NextInv ==
    ASSUME IInv, [Next]_vars
    PROVE  IInv'
<1>1. CASE UNCHANGED vars
  BY <1>1, StutterInv
<1>2. ASSUME NEW w \in Workers, NEW e \in Events, NEW k \in Keys, NEW t \in Times, NEW d \in Times,
             NEW p \in Producers, FindSlug(w, e, k, t, d, p)
      PROVE  IInv'
  BY <1>2, FindSlugInv
<1>3. ASSUME NEW w \in Workers, NEW e \in Events, UpdateEvent(w, e) \/ Publish(w, e) PROVE IInv'
  BY <1>3, UpdateEventInv, PublishInv
<1>4. ASSUME NEW w \in Workers, NEW e \in Events,
             ArchiveEvent(w, e) \/ UnarchiveEvent(w, e) \/ FeatureEvent(w, e) \/ UnfeatureEvent(w, e)
      PROVE  IInv'
  BY <1>4, AdministratorInv
<1>5. ASSUME NEW w \in Workers, NEW e \in Events, NEW p \in Producers, ReassignEvent(w, e, p) PROVE IInv'
  BY <1>5, ReassignInv
<1>6. ASSUME NEW w \in Workers, Insert(w) \/ Clear(w) \/ Hold(w) PROVE IInv'
  BY <1>6, InsertInv, ClearInv, HoldInv
<1>7. ASSUME NEW w \in Workers, Diff(w) \/ Write(w) \/ Fail(w) PROVE IInv'
  BY <1>7, DiffInv, WriteInv, FailInv
<1> QED
  BY <1>1, <1>2, <1>3, <1>4, <1>5, <1>6, <1>7 DEF Next

(* What requests in progress know of the rows they are about to write is    *)
(* true as long as nobody has outdated them.                                *)
THEOREM Invariant == Spec => []IInv
<1>1. Init => IInv
  BY InitInv
<1>2. IInv /\ [Next]_vars => IInv'
  BY NextInv
<1> QED
  BY <1>1, <1>2, PTL DEF Spec

(* An event's slug is its own, and its doors open before it starts unless   *)
(* updates of the two times crossed.                                        *)
THEOREM TypeCorrect == Spec => []TypeOK
<1>1. IInv => TypeOK
  BY TypedGives DEF IInv
<1> QED
  BY <1>1, Invariant, PTL

(* featureEvent and archiveEvent leave at most one event featured, one that *)
(* is on sale, however many administrators and producers are at work, until *)
(* a request that another commit has outdated writes status or featured.    *)
THEOREM OneFrontPage == Spec => []FrontPage
<1>1. IInv => FrontPage
  BY FrontGives DEF IInv
<1> QED
  BY <1>1, Invariant, PTL

(* The PIX key and provider that an event had when it was published are     *)
(* those its payouts go to ever after, whatever updateEvent, publish and    *)
(* the administrator do, unless an outdated update or save wrote them.      *)
THEOREM PayoutsStay == Spec => []PayoutLocked
<1>1. IInv => PayoutLocked
  BY DEF IInv
<1> QED
  BY <1>1, Invariant, PTL
=============================================================================
