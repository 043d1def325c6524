--------------------------- MODULE OrderStreamProofs ---------------------------
(***************************************************************************)
(* Proofs about OrderStream, for any number of connections and of changes: *)
(* who is still attached when an order ends, what a payment that was told  *)
(* says of the committed status, and how many streams a count that takes   *)
(* two for each end can cut off.                                           *)
(*                                                                         *)
(* The inductive invariant: what is left of a change is the end of its     *)
(* statements (Typed), whoever is attached after a change was told has     *)
(* come after it (Heard), and a payment past its commit is seen (Settled). *)
(* For the count (KInv): the streams that are open or cut off are no more  *)
(* than those that ended and the count together (Balance), so that when it *)
(* falls to zero it cuts off no more than have ended (Lost).               *)
(***************************************************************************)
EXTENDS OrderStream, FiniteSetTheorems, TLAPS

(* What may be left of a change. *)
Lefts(kind) ==
    CASE kind = "payment" -> {<<"claim", "commit", "tell">>, <<"commit", "tell">>, <<"tell">>, <<>>}
      [] kind = "manual"  -> {<<"claim", "tell", "commit">>, <<"tell", "commit">>, <<"commit">>, <<>>}
      [] kind = "expiry"  -> {<<"read", "save", "tell", "commit">>, <<"save", "tell", "commit">>,
                              <<"tell", "commit">>, <<"tell">>, <<"commit">>, <<>>}
      [] kind \in {"cancel", "script"} -> {<<"claim", "commit">>, <<"commit">>, <<>>}
      [] kind = "checkout" -> {<<"read", "save", "commit">>, <<"save", "commit">>, <<"commit">>, <<>>}
      [] OTHER            -> {<<>>}
Change == [kind: AllKinds \cup {None}, left: UNION {Lefts(k) : k \in AllKinds}]

Stream == [pc: {"new", "read", "open", "deaf", "told", "gone"},
           seen: Ended \cup {"PENDING", None}, late: SUBSET Ends]

Typed ==
    /\ status \in Ended \cup {"PENDING"} /\ reopened \in Nat /\ putBack \in BOOLEAN
    /\ status \in Ended => endedBy \in Ends
    /\ work \in [Ends -> Change]
    /\ \A e \in Ends : work[e].left \in Lefts(work[e].kind)
    /\ line \in Seq(Streams)
    /\ stream \in [Streams -> Stream]
Heard ==
    \A s \in ToSet(line), e \in Ends : Told(e) /\ ~Silent(e) => e \in stream[s].late
Settled ==
    \A e \in Ends :
        work[e].kind = "payment" /\ work[e].left \in {<<"tell">>, <<>>} /\ ~putBack
            => status # "PENDING"
IInv == Typed /\ Heard /\ Settled

----------------------------------------------------------------------------
(* Sequences *)

LEMMA Sets ==
    /\ ToSet(<<>>) = {}
    /\ \A a : ToSet(<<a>>) = {a}
    /\ \A a, b : ToSet(<<a, b>>) = {a, b}
    /\ \A a, b, c : ToSet(<<a, b, c>>) = {a, b, c}
    /\ \A a, b, c, d : ToSet(<<a, b, c, d>>) = {a, b, c, d}
BY DEF ToSet

LEMMA Same ==
    ASSUME NEW S, NEW x \in Seq(S), NEW y \in Seq(S), Len(x) = Len(y),
           \A i \in 1..Len(x) : x[i] = y[i]
    PROVE  x = y
OBVIOUS

LEMMA Tails ==
    /\ \A a : Tail(<<a>>) = <<>> /\ Head(<<a>>) = a
    /\ \A a, b : Tail(<<a, b>>) = <<b>> /\ Head(<<a, b>>) = a
    /\ \A a, b, c : Tail(<<a, b, c>>) = <<b, c>> /\ Head(<<a, b, c>>) = a
    /\ \A a, b, c, d : Tail(<<a, b, c, d>>) = <<b, c, d>> /\ Head(<<a, b, c, d>>) = a
OBVIOUS

(* A statement of a change is followed by the rest; only "tell" makes it    *)
(* told, and only "commit" takes a payment to where it is told.             *)
LEMMA StepLeft ==
    ASSUME NEW k \in AllKinds, NEW q \in Lefts(k), q # <<>>
    PROVE  /\ Tail(q) \in Lefts(k)
           /\ Head(q) # "tell" => ("tell" \in ToSet(q) <=> "tell" \in ToSet(Tail(q)))
           /\ k = "payment" /\ Head(q) # "commit" /\ Tail(q) \in {<<"tell">>, <<>>}
                => q = <<"tell">>
<1> USE Sets, Tails
<1>1. CASE k = "payment"
  <2>1. q \in {<<"claim", "commit", "tell">>, <<"commit", "tell">>, <<"tell">>}
    BY <1>1 DEF Lefts
  <2>2. CASE q = <<"claim", "commit", "tell">>
    BY <1>1, <2>2 DEF Lefts
  <2>3. CASE q = <<"commit", "tell">>
    BY <1>1, <2>3 DEF Lefts
  <2>4. CASE q = <<"tell">>
    BY <1>1, <2>4 DEF Lefts
  <2> QED
    BY <2>1, <2>2, <2>3, <2>4
<1>2. CASE k = "manual"
  <2>1. q \in {<<"claim", "tell", "commit">>, <<"tell", "commit">>, <<"commit">>}
    BY <1>2 DEF Lefts
  <2>2. CASE q = <<"claim", "tell", "commit">>
    BY <1>2, <2>2 DEF Lefts
  <2>3. CASE q = <<"tell", "commit">>
    BY <1>2, <2>3 DEF Lefts
  <2>4. CASE q = <<"commit">>
    BY <1>2, <2>4 DEF Lefts
  <2> QED
    BY <2>1, <2>2, <2>3, <2>4
<1>3. CASE k = "expiry"
  <2>1. q \in {<<"read", "save", "tell", "commit">>, <<"save", "tell", "commit">>,
               <<"tell", "commit">>, <<"tell">>, <<"commit">>}
    BY <1>3 DEF Lefts
  <2>2. CASE q = <<"read", "save", "tell", "commit">>
    BY <1>3, <2>2 DEF Lefts
  <2>3. CASE q = <<"save", "tell", "commit">>
    BY <1>3, <2>3 DEF Lefts
  <2>4. CASE q = <<"tell", "commit">>
    BY <1>3, <2>4 DEF Lefts
  <2>5. CASE q = <<"commit">>
    BY <1>3, <2>5 DEF Lefts
  <2>6. CASE q = <<"tell">>
    BY <1>3, <2>6 DEF Lefts
  <2> QED
    BY <2>1, <2>2, <2>3, <2>4, <2>5, <2>6
<1>4. CASE k \in {"cancel", "script"}
  <2>1. q \in {<<"claim", "commit">>, <<"commit">>}
    BY <1>4 DEF Lefts
  <2>2. CASE q = <<"claim", "commit">>
    BY <1>4, <2>2 DEF Lefts
  <2>3. CASE q = <<"commit">>
    BY <1>4, <2>3 DEF Lefts
  <2> QED
    BY <2>1, <2>2, <2>3
<1>5. CASE k = "checkout"
  <2>1. q \in {<<"read", "save", "commit">>, <<"save", "commit">>, <<"commit">>}
    BY <1>5 DEF Lefts
  <2>2. CASE q = <<"read", "save", "commit">>
    BY <1>5, <2>2 DEF Lefts
  <2>3. CASE q = <<"save", "commit">>
    BY <1>5, <2>3 DEF Lefts
  <2>4. CASE q = <<"commit">>
    BY <1>5, <2>4 DEF Lefts
  <2> QED
    BY <2>1, <2>2, <2>3, <2>4
<1> QED
  BY <1>1, <1>2, <1>3, <1>4, <1>5 DEF AllKinds

(* A change begins with all of its statements, untold unless it never tells. *)
LEMMA AllLeft ==
    ASSUME NEW k \in AllKinds
    PROVE  /\ Steps(k) \in Lefts(k)
           /\ k \notin {"cancel", "script", "checkout"} => "tell" \in ToSet(Steps(k))
           /\ k = "payment" => Steps(k) \notin {<<"tell">>, <<>>}
BY Sets DEF Steps, Lefts, AllKinds

(* Attached streams: one more, one less. *)
LEMMA OneMore ==
    ASSUME NEW q \in Seq(Streams), NEW s \in Streams
    PROVE  Append(q, s) \in Seq(Streams) /\ ToSet(Append(q, s)) \subseteq ToSet(q) \cup {s}
<1> DEFINE r == Append(q, s)
<1>1. r \in Seq(Streams) /\ Len(r) = Len(q) + 1 /\ r[Len(r)] = s
  OBVIOUS
<1>2. \A i \in 1..Len(q) : r[i] = q[i]
  OBVIOUS
<1> HIDE DEF r
<1>3. \A i \in DOMAIN r : i \in 1..Len(q) \/ i = Len(r)
  BY <1>1
<1>4. ToSet(r) \subseteq ToSet(q) \cup {s}
  BY <1>1, <1>2, <1>3 DEF ToSet
<1> QED
  BY <1>1, <1>4 DEF r

LEMMA OneLess ==
    ASSUME NEW q \in Seq(Streams), NEW i \in DOMAIN q
    PROVE  RemoveAt(q, i) \in Seq(Streams) /\ ToSet(RemoveAt(q, i)) \subseteq ToSet(q)
<1>1. i \in 1..Len(q)
  OBVIOUS
<1> DEFINE a == SubSeq(q, 1, i - 1)  b == SubSeq(q, i + 1, Len(q))
<1>2. a \in Seq(Streams) /\ ToSet(a) \subseteq ToSet(q)
  BY <1>1 DEF ToSet
<1>3. b \in Seq(Streams) /\ ToSet(b) \subseteq ToSet(q)
  BY <1>1 DEF ToSet
<1> HIDE DEF a, b
<1>4. a \o b \in Seq(Streams) /\ ToSet(a \o b) \subseteq ToSet(a) \cup ToSet(b)
  BY <1>2, <1>3 DEF ToSet
<1> QED
  BY <1>2, <1>3, <1>4 DEF RemoveAt, a, b

----------------------------------------------------------------------------
(* The invariant *)

LEMMA InitInv == Init => IInv
<1> SUFFICES ASSUME Init PROVE IInv
  OBVIOUS
<1>1. <<>> \in Lefts(None) /\ <<>> \in Lefts("cancel") /\ "cancel" \in AllKinds
  BY DEF Lefts, None, AllKinds
<1>2. [kind |-> None, left |-> <<>>] \in Change
  BY <1>1 DEF Change
<1>3. NewStream \in Stream
  BY DEF NewStream, Stream
<1>4. Typed
  <2>1. putBack \in BOOLEAN
    BY DEF Init
  <2> QED
    BY <1>1, <1>2, <1>3, <2>1 DEF Init, Typed, Ended
<1>5. Heard
  BY Sets DEF Init, Heard
<1>6. Settled
  BY DEF Init, Settled, None
<1> QED
  BY <1>4, <1>5, <1>6 DEF IInv

(* The parts of a step: what changes of the changes, and what of the maps.  *)
NoneNewlyTold == \A e \in Ends : Told(e)' /\ ~Silent(e)' => Told(e) /\ ~Silent(e)

(* A change executes a statement. *)
LEMMA StepInv ==
    ASSUME IInv, NEW e \in Ends, work[e].left # <<>>, Next1(e)
    PROVE  /\ work' \in [Ends -> Change]
           /\ \A f \in Ends : work'[f].left \in Lefts(work'[f].kind)
           /\ Head(work[e].left) # "tell" => NoneNewlyTold
           /\ Head(work[e].left) # "commit" =>
                \A f \in Ends :
                    work'[f].kind = "payment" /\ work'[f].left \in {<<"tell">>, <<>>}
                      => work[f].kind = "payment" /\ work[f].left \in {<<"tell">>, <<>>}
<1> DEFINE k == work[e].kind  q == work[e].left
<1>1. work \in [Ends -> Change] /\ k \in AllKinds \cup {None} /\ q \in Lefts(k)
  BY DEF IInv, Typed, Change
<1>2. k \in AllKinds
  BY <1>1 DEF Lefts, AllKinds, None
<1>3. /\ Tail(q) \in Lefts(k)
      /\ Head(q) # "tell" => ("tell" \in ToSet(q) <=> "tell" \in ToSet(Tail(q)))
      /\ k = "payment" /\ Head(q) # "commit" /\ Tail(q) \in {<<"tell">>, <<>>} => q = <<"tell">>
  BY <1>1, <1>2, StepLeft
<1>4. work[e] = [kind |-> k, left |-> q] /\ work' = [work EXCEPT ![e] = [kind |-> k, left |-> Tail(q)]]
  <2>1. work[e] \in Change
    BY <1>1
  <2>2. work[e] = [kind |-> k, left |-> q]
    BY <2>1 DEF Change
  <2>3. [work[e] EXCEPT !.left = Tail(@)] = [kind |-> k, left |-> Tail(q)]
    BY <2>1 DEF Change
  <2> QED
    BY <2>2, <2>3 DEF Next1
<1>5. [kind |-> k, left |-> Tail(q)] \in Change
  BY <1>2, <1>3 DEF Change
<1> HIDE DEF k, q
<1>6. \A f \in Ends : /\ f # e => work'[f] = work[f]
                      /\ f = e => work'[f].kind = k /\ work'[f].left = Tail(q)
                      /\ f = e => work[f].kind = k /\ work[f].left = q
  BY <1>1, <1>4
<1>7. work' \in [Ends -> Change]
  BY <1>1, <1>4, <1>5
<1>8. \A f \in Ends : work'[f].left \in Lefts(work'[f].kind)
  BY <1>3, <1>6 DEF IInv, Typed
<1>9. Head(q) # "tell" => NoneNewlyTold
  BY <1>3, <1>6 DEF NoneNewlyTold, Told, Silent
<1>10. Head(q) # "commit" =>
         \A f \in Ends :
            work'[f].kind = "payment" /\ work'[f].left \in {<<"tell">>, <<>>}
              => work[f].kind = "payment" /\ work[f].left \in {<<"tell">>, <<>>}
  BY <1>3, <1>6
<1> QED
  BY <1>7, <1>8, <1>9, <1>10 DEF q

(* Nobody comes, no list is rewritten, nothing is newly told: who was owed  *)
(* nothing is owed nothing.                                                 *)
LEMMA HeardFrame ==
    ASSUME Heard, NoneNewlyTold, ToSet(line') \subseteq ToSet(line),
           \A s \in ToSet(line') : stream'[s].late = stream[s].late
    PROVE  Heard'
BY DEF Heard, NoneNewlyTold

LEMMA SameTold == ASSUME work' = work PROVE NoneNewlyTold
BY DEF NoneNewlyTold, Told, Silent

LEMMA OnTheLine == ASSUME Typed PROVE ToSet(line) \subseteq Streams
BY DEF Typed, ToSet

(* The streams' own steps. *)
LEMMA ReadInv == ASSUME IInv, NEW s \in Streams, Read(s) PROVE IInv'
<1>1. /\ stream' = [stream EXCEPT ![s].pc = "read", ![s].seen = status]
      /\ UNCHANGED <<status, endedBy, work, reopened, putBack, line>>
  BY DEF Read, rows
<1>2. stream' \in [Streams -> Stream] /\ \A t \in Streams : stream'[t].late = stream[t].late
  BY <1>1 DEF IInv, Typed, Stream
<1>3. Typed' /\ Settled'
  BY <1>1, <1>2 DEF IInv, Typed, Settled
<1>4. Heard'
  BY <1>1, <1>2, SameTold, OnTheLine, HeardFrame DEF IInv
<1> QED
  BY <1>3, <1>4 DEF IInv

LEMMA SubscribeInv == ASSUME IInv, NEW s \in Streams, Subscribe(s) PROVE IInv'
<1> DEFINE now == {e \in Ends : Told(e)}
<1>1. /\ \E pc \in {"told", "open"} :
            stream' = [stream EXCEPT ![s].pc = pc, ![s].late = now]
      /\ line' = line \/ line' = Append(line, s)
      /\ UNCHANGED <<status, endedBy, work, reopened, putBack>>
  BY DEF Subscribe, rows
<1>2. /\ stream' \in [Streams -> Stream] /\ stream'[s].late = now
      /\ \A t \in Streams \ {s} : stream'[t] = stream[t]
  <2>1. PICK pc \in {"told", "open"} : stream' = [stream EXCEPT ![s].pc = pc, ![s].late = now]
    BY <1>1
  <2>2. now \subseteq Ends /\ stream \in [Streams -> Stream]
    BY DEF IInv, Typed
  <2> HIDE DEF now
  <2>3. [[stream[s] EXCEPT !.pc = pc] EXCEPT !.late = now] \in Stream
    BY <2>2 DEF Stream
  <2>4. stream' = [stream EXCEPT ![s] = [[stream[s] EXCEPT !.pc = pc] EXCEPT !.late = now]]
    BY <2>1, <2>2
  <2>5. [[stream[s] EXCEPT !.pc = pc] EXCEPT !.late = now].late = now
    BY <2>2 DEF Stream
  <2> QED
    BY <2>2, <2>3, <2>4, <2>5
<1>3. line' \in Seq(Streams) /\ ToSet(line') \subseteq ToSet(line) \cup {s}
  <2>1. line \in Seq(Streams)
    BY DEF IInv, Typed
  <2>2. Append(line, s) \in Seq(Streams) /\ ToSet(Append(line, s)) \subseteq ToSet(line) \cup {s}
    BY <2>1, OneMore
  <2>3. CASE line' = line
    BY <2>1, <2>3
  <2>4. CASE line' = Append(line, s)
    BY <2>2, <2>4
  <2> QED
    BY <1>1, <2>3, <2>4
<1>4. Typed' /\ Settled'
  BY <1>1, <1>2, <1>3 DEF IInv, Typed, Settled
<1>5. Heard'
  <2> SUFFICES ASSUME NEW t \in ToSet(line'), NEW e \in Ends, Told(e)', ~Silent(e)'
               PROVE  e \in stream'[t].late
    BY DEF Heard
  <2>1. Told(e) /\ ~Silent(e)
    BY <1>1 DEF Told, Silent
  <2>2. CASE t = s
    BY <1>2, <2>1, <2>2
  <2>3. CASE t # s
    BY <1>2, <1>3, <2>1, <2>3, OnTheLine DEF IInv, Heard
  <2> QED
    BY <2>2, <2>3
<1> QED
  BY <1>4, <1>5 DEF IInv

(* Streams that end, or are cut off, keep their history. *)
LEMMA Tagged ==
    ASSUME stream \in [Streams -> Stream], NEW S, NEW T,
           stream' = [s \in Streams |->
             [stream[s] EXCEPT !.pc = IF s \in S THEN "gone" ELSE IF s \in T THEN "deaf" ELSE @]]
    PROVE  stream' \in [Streams -> Stream] /\ \A s \in Streams : stream'[s].late = stream[s].late
BY DEF Stream

LEMMA LeaveInv == ASSUME IInv, NEW s \in Streams, Leave(s) PROVE IInv'
<1>1. UNCHANGED <<status, endedBy, work, reopened, putBack>> /\ stream \in [Streams -> Stream]
  BY DEF Leave, rows, IInv, Typed
<1>2. /\ stream' \in [Streams -> Stream] /\ \A t \in Streams : stream'[t].late = stream[t].late
      /\ line' \in Seq(Streams) /\ ToSet(line') \subseteq ToSet(line)
  <2>1. CASE Detach(s)
    <3>1. PICK i \in DOMAIN line : line' = <<>> \/ line' = RemoveAt(line, i)
      BY <2>1 DEF Detach
    <3>2. line' \in Seq(Streams) /\ ToSet(line') \subseteq ToSet(line)
      <4>1. line \in Seq(Streams)
        BY DEF IInv, Typed
      <4>2. CASE line' = <<>>
        BY <4>2, Sets
      <4>3. CASE line' = RemoveAt(line, i)
        BY <4>1, <4>3, OneLess
      <4> QED
        BY <3>1, <4>2, <4>3
    <3>3. stream' \in [Streams -> Stream] /\ \A t \in Streams : stream'[t].late = stream[t].late
      BY <1>1, <2>1 DEF Detach, Stream
    <3> QED
      BY <3>2, <3>3
  <2>2. CASE stream' = Tag({s}, "gone") /\ UNCHANGED <<line, count>>
    BY <1>1, <2>2 DEF Tag, Stream, IInv, Typed
  <2> QED
    BY <2>1, <2>2 DEF Leave
<1>3. Typed' /\ Settled'
  BY <1>1, <1>2 DEF IInv, Typed, Settled
<1>4. Heard'
  BY <1>1, <1>2, SameTold, OnTheLine, HeardFrame DEF IInv
<1> QED
  BY <1>3, <1>4 DEF IInv

(* The steps of a change. *)
LEMMA QuietChangeInv ==
    ASSUME IInv, NEW e \in Ends, Claim(e) \/ ReadFresh(e) PROVE IInv'
<1>1. /\ work[e].left # <<>> /\ Head(work[e].left) \notin {"tell", "commit"} /\ Next1(e)
      /\ UNCHANGED <<status, endedBy, reopened, putBack, line, stream>>
  BY DEF Claim, ReadFresh, At, maps
<1>2. /\ work' \in [Ends -> Change]
      /\ \A f \in Ends : work'[f].left \in Lefts(work'[f].kind)
      /\ NoneNewlyTold
      /\ \A f \in Ends :
            work'[f].kind = "payment" /\ work'[f].left \in {<<"tell">>, <<>>}
              => work[f].kind = "payment" /\ work[f].left \in {<<"tell">>, <<>>}
  BY <1>1, StepInv
<1>3. Typed' /\ Settled'
  BY <1>1, <1>2 DEF IInv, Typed, Settled
<1>4. Heard'
  BY <1>1, <1>2, HeardFrame DEF IInv
<1> QED
  BY <1>3, <1>4 DEF IInv

(* A save goes on to its commit, or has found nothing to write.             *)
LEMMA SavedLeft ==
    ASSUME NEW k \in AllKinds, NEW q \in Lefts(k), q # <<>>, Head(q) = "save"
    PROVE  /\ k \in {"expiry", "checkout"}
           /\ Tail(q) \in Lefts(k) /\ Front(Tail(q)) \in Lefts(k)
           /\ k = "expiry" => "tell" \in ToSet(Tail(q)) /\ "tell" \in ToSet(Front(Tail(q)))
<1> USE Sets, Tails
<1>1. \/ k = "expiry" /\ q = <<"save", "tell", "commit">>
      \/ k = "checkout" /\ q = <<"save", "commit">>
  <2>1. CASE k = "payment"
    BY <2>1 DEF Lefts
  <2>2. CASE k = "manual"
    BY <2>2 DEF Lefts
  <2>3. CASE k = "expiry"
    BY <2>3 DEF Lefts
  <2>4. CASE k \in {"cancel", "script"}
    BY <2>4 DEF Lefts
  <2>5. CASE k = "checkout"
    BY <2>5 DEF Lefts
  <2> QED
    BY <2>1, <2>2, <2>3, <2>4, <2>5 DEF AllKinds
<1>2. Front(<<"tell", "commit">>) = <<"tell">> /\ Front(<<"commit">>) = <<>>
  <2> DEFINE Q == {"tell", "commit"}
             a == <<"tell", "commit">>  b == <<"tell">>  c == <<"commit">>
  <2>1. a \in Seq(Q) /\ Len(a) = 2 /\ Front(a) = SubSeq(a, 1, 1) /\ a[1] = "tell"
    BY DEF Front
  <2>2. b \in Seq(Q) /\ Len(b) = 1 /\ b[1] = "tell"
    OBVIOUS
  <2>3. Front(c) = SubSeq(c, 1, 0)
    BY DEF Front
  <2>4. SubSeq(a, 1, 1) = b
    <3> DEFINE z == SubSeq(a, 1, 1)
    <3>1. z \in Seq(Q) /\ Len(z) = 1 /\ z[1] = a[1]
      OBVIOUS
    <3> HIDE DEF z, a, b, Q
    <3> QED
      BY <2>1, <2>2, <3>1, Same DEF z
  <2>5. SubSeq(c, 1, 0) = <<>>
    OBVIOUS
  <2> QED
    BY <2>1, <2>3, <2>4, <2>5
<1>3. CASE k = "expiry" /\ q = <<"save", "tell", "commit">>
  BY <1>2, <1>3 DEF Lefts
<1>4. CASE k = "checkout" /\ q = <<"save", "commit">>
  BY <1>2, <1>4 DEF Lefts
<1> QED
  BY <1>1, <1>3, <1>4

LEMMA SaveInv == ASSUME IInv, NEW e \in Ends, Save(e) PROVE IInv'
<1> DEFINE k == work[e].kind  q == work[e].left
<1>1. /\ work \in [Ends -> Change] /\ k \in AllKinds \cup {None} /\ q \in Lefts(k)
      /\ q # <<>> /\ Head(q) = "save"
      /\ UNCHANGED <<status, endedBy, reopened, putBack, line, stream>>
  BY DEF IInv, Typed, Change, Save, At, maps
<1>2. k \in AllKinds
  BY <1>1 DEF Lefts, AllKinds, None
<1>3. /\ k \in {"expiry", "checkout"}
      /\ Tail(q) \in Lefts(k) /\ Front(Tail(q)) \in Lefts(k)
      /\ k = "expiry" => "tell" \in ToSet(Tail(q)) /\ "tell" \in ToSet(Front(Tail(q)))
  BY <1>1, <1>2, SavedLeft
<1>4. PICK rest \in {Tail(q), Front(Tail(q))} : work' = [work EXCEPT ![e].left = rest]
  <2>1. work' = [work EXCEPT ![e].left = IF status # To(k) THEN Tail(q) ELSE Front(Tail(q))]
    BY <1>1 DEF Save
  <2> QED
    BY <2>1
<1>5. rest \in Lefts(k) /\ (k = "expiry" => "tell" \in ToSet(rest))
  BY <1>3, <1>4
<1>6. work' = [work EXCEPT ![e] = [kind |-> k, left |-> rest]] /\ [kind |-> k, left |-> rest] \in Change
  <2>1. work[e] \in Change
    BY <1>1
  <2>2. [work[e] EXCEPT !.left = rest] = [kind |-> k, left |-> rest]
    BY <2>1 DEF Change
  <2> QED
    BY <1>1, <1>2, <1>4, <1>5, <2>2 DEF Change
<1> HIDE DEF k, q
<1>7. \A f \in Ends : /\ f # e => work'[f] = work[f]
                      /\ f = e => work'[f].kind = k /\ work'[f].left = rest
  BY <1>1, <1>6
<1>8. work' \in [Ends -> Change] /\ \A f \in Ends : work'[f].left \in Lefts(work'[f].kind)
  BY <1>1, <1>5, <1>6, <1>7 DEF IInv, Typed
<1>9. NoneNewlyTold
  BY <1>3, <1>5, <1>7 DEF NoneNewlyTold, Told, Silent
<1>10. Typed' /\ Settled'
  BY <1>1, <1>3, <1>7, <1>8 DEF IInv, Typed, Settled
<1>11. Heard'
  BY <1>1, <1>9, HeardFrame DEF IInv
<1> QED
  BY <1>10, <1>11 DEF IInv

LEMMA CommitInv == ASSUME IInv, NEW e \in Ends, Commit(e) PROVE IInv'
<1> DEFINE to == To(work[e].kind)
<1>1. /\ work[e].left # <<>> /\ Head(work[e].left) = "commit" /\ Next1(e)
      /\ status' = to /\ endedBy' = IF to = "PENDING" THEN None ELSE e
      /\ putBack' = (to = "PENDING" \/ (to # "PAID" /\ putBack))
      /\ UNCHANGED <<reopened, line, stream>>
  BY DEF Commit, At, maps
<1>2. /\ work' \in [Ends -> Change]
      /\ \A f \in Ends : work'[f].left \in Lefts(work'[f].kind)
      /\ NoneNewlyTold
  BY <1>1, StepInv
<1>3. work[e].kind \in AllKinds
  BY <1>1 DEF IInv, Typed, Change, Lefts, AllKinds, None
<1>4. to \in Ended \cup {"PENDING"}
  BY <1>3 DEF To, AllKinds, Ended
<1> HIDE DEF to
<1>5. Typed'
  BY <1>1, <1>2, <1>4 DEF IInv, Typed, Ended
<1>6. Settled'
  <2>1. to # "PENDING" \/ putBack'
    BY <1>1
  <2> QED
    BY <1>1, <2>1 DEF Settled
<1>7. Heard'
  BY <1>1, <1>2, HeardFrame DEF IInv
<1> QED
  BY <1>5, <1>6, <1>7 DEF IInv

LEMMA TellInv == ASSUME IInv, NEW e \in Ends, Tell(e) PROVE IInv'
<1>1. /\ work[e].left # <<>> /\ Head(work[e].left) = "tell" /\ Next1(e)
      /\ line' = <<>> /\ UNCHANGED <<status, endedBy, reopened, putBack>>
      /\ stream' = [s \in Streams |-> [stream[s] EXCEPT !.pc =
           IF s \in Served.closed THEN "gone" ELSE IF s \in ToSet(line) THEN "deaf" ELSE @]]
  BY DEF Tell, At, Notify
<1>2. /\ work' \in [Ends -> Change]
      /\ \A f \in Ends : work'[f].left \in Lefts(work'[f].kind)
      /\ \A f \in Ends :
            work'[f].kind = "payment" /\ work'[f].left \in {<<"tell">>, <<>>}
              => work[f].kind = "payment" /\ work[f].left \in {<<"tell">>, <<>>}
  BY <1>1, StepInv
<1>3. stream' \in [Streams -> Stream]
  <2> DEFINE S == Served.closed  T == ToSet(line)
  <2>1. /\ stream \in [Streams -> Stream]
        /\ stream' = [s \in Streams |->
             [stream[s] EXCEPT !.pc = IF s \in S THEN "gone" ELSE IF s \in T THEN "deaf" ELSE @]]
    BY <1>1 DEF IInv, Typed
  <2> HIDE DEF S, T
  <2> QED
    BY <2>1, Tagged
<1>4. Typed' /\ Settled'
  BY <1>1, <1>2, <1>3 DEF IInv, Typed, Settled
<1>5. Heard'
  BY <1>1, Sets DEF Heard
<1> QED
  BY <1>4, <1>5 DEF IInv

LEMMA BeginInv == ASSUME IInv, NEW e \in Ends, Begin(e) PROVE IInv'
<1>1. PICK k \in Kinds : work' = [work EXCEPT ![e] = [kind |-> k, left |-> Steps(k)]]
  BY DEF Begin
<1>2. /\ k \in AllKinds /\ Steps(k) \in Lefts(k)
      /\ k \notin {"cancel", "script", "checkout"} => "tell" \in ToSet(Steps(k))
      /\ k = "payment" => Steps(k) \notin {<<"tell">>, <<>>}
  BY AllLeft, StreamAssumption
<1> DEFINE q == Steps(k)
<1> HIDE DEF q
<1>3. work' = [work EXCEPT ![e] = [kind |-> k, left |-> q]] /\ [kind |-> k, left |-> q] \in Change
  BY <1>1, <1>2 DEF Change, q
<1>4. UNCHANGED <<status, endedBy, reopened, putBack, line, stream>> /\ work \in [Ends -> Change]
  BY DEF Begin, maps, IInv, Typed
<1>5. \A f \in Ends : /\ f # e => work'[f] = work[f]
                      /\ f = e => work'[f].kind = k /\ work'[f].left = q
  BY <1>3, <1>4
<1>6. Typed' /\ Settled'
  BY <1>2, <1>3, <1>4, <1>5 DEF IInv, Typed, Settled, q
<1>7. NoneNewlyTold
  <2>1. k \notin {"cancel", "script", "checkout"} => "tell" \in ToSet(q)
    BY <1>2 DEF q
  <2> SUFFICES ASSUME NEW f \in Ends, Told(f)', ~Silent(f)' PROVE Told(f) /\ ~Silent(f)
    BY DEF NoneNewlyTold
  <2>2. CASE f = e
    BY <1>5, <2>1, <2>2 DEF Told, Silent
  <2>3. CASE f # e
    BY <1>5, <2>3 DEF Told, Silent
  <2> QED
    BY <2>2, <2>3
<1>8. Heard'
  BY <1>4, <1>7, HeardFrame DEF IInv
<1> QED
  BY <1>6, <1>8 DEF IInv

(* A change without its commit is as if it had not begun. *)
LEMMA NoChange ==
    /\ [kind |-> None, left |-> <<>>] \in Change /\ <<>> \in Lefts(None)
    /\ None # "payment" /\ None \notin AllKinds
    /\ \A k \in AllKinds : <<>> \in Lefts(k)
    /\ \A q \in Lefts("payment") : "commit" \notin ToSet(q) => q \in {<<"tell">>, <<>>}
BY Sets DEF Change, Lefts, AllKinds, None

LEMMA RollbackInv == ASSUME IInv, NEW e \in Ends, Rollback(e) PROVE IInv'
<1>1. /\ work' = [work EXCEPT ![e] = [kind |-> None, left |-> <<>>]]
      /\ UNCHANGED <<status, endedBy, reopened, putBack, line, stream>>
  BY DEF Rollback, maps
<1>2. \A f \in Ends : /\ f # e => work'[f] = work[f]
                      /\ f = e => work'[f].kind = None /\ work'[f].left = <<>>
  BY <1>1 DEF IInv, Typed
<1>3. Typed' /\ Settled'
  BY <1>1, <1>2, NoChange DEF IInv, Typed, Settled
<1>4. NoneNewlyTold
  BY <1>2 DEF NoneNewlyTold, Told, Silent
<1>5. Heard'
  BY <1>1, <1>4, HeardFrame DEF IInv
<1> QED
  BY <1>3, <1>5 DEF IInv

LEMMA ReopenInv == ASSUME IInv, Reopen PROVE IInv'
<1>1. /\ status' = "PENDING" /\ reopened' = reopened + 1 /\ reopened \in Nat /\ putBack' = TRUE
      /\ UNCHANGED <<work, line, stream>>
  BY DEF Reopen, maps, IInv, Typed
<1>2. Typed' /\ Settled'
  BY <1>1 DEF IInv, Typed, Settled, Ended
<1>3. Heard'
  BY <1>1, SameTold, HeardFrame DEF IInv
<1> QED
  BY <1>2, <1>3 DEF IInv

LEMMA RestartInv == ASSUME IInv, Restart PROVE IInv'
<1>1. /\ line' = <<>> /\ UNCHANGED <<status, endedBy, reopened, putBack>>
      /\ work' = [e \in Ends |-> IF "commit" \in ToSet(work[e].left)
                                 THEN [kind |-> None, left |-> <<>>]
                                 ELSE [work[e] EXCEPT !.left = <<>>]]
      /\ stream' = Tag({s \in Streams : stream[s].pc \in {"read", "open", "deaf"}}, "gone")
  BY DEF Restart
<1>2. \A e \in Ends : /\ work'[e] \in Change
                      /\ work'[e].left = <<>> /\ work'[e].kind \in AllKinds \cup {None}
                      /\ work'[e].kind # None =>
                           work'[e].kind = work[e].kind /\ "commit" \notin ToSet(work[e].left)
  <2> SUFFICES ASSUME NEW e \in Ends
               PROVE  /\ work'[e] \in Change
                      /\ work'[e].left = <<>> /\ work'[e].kind \in AllKinds \cup {None}
                      /\ work'[e].kind # None =>
                           work'[e].kind = work[e].kind /\ "commit" \notin ToSet(work[e].left)
    OBVIOUS
  <2>1. work[e] \in Change
    BY DEF IInv, Typed
  <2>2. [work[e] EXCEPT !.left = <<>>] \in Change
    BY <2>1, NoChange DEF Change
  <2>3. CASE "commit" \in ToSet(work[e].left)
    BY <1>1, <2>3, NoChange
  <2>4. CASE "commit" \notin ToSet(work[e].left)
    <3>1. work'[e] = [work[e] EXCEPT !.left = <<>>]
      BY <1>1, <2>4
    <3> QED
      BY <2>1, <2>2, <2>4, <3>1 DEF Change
  <2> QED
    BY <2>3, <2>4
<1>3. work' \in [Ends -> Change] /\ \A e \in Ends : work'[e].left \in Lefts(work'[e].kind)
  <2>1. \A e \in Ends : work'[e].left \in Lefts(work'[e].kind)
    BY <1>2, NoChange
  <2>2. \A e \in Ends : work'[e] \in Change
    BY <1>2
  <2> QED
    BY <1>1, <2>1, <2>2
<1>4. stream' \in [Streams -> Stream]
  BY <1>1 DEF Tag, Stream, IInv, Typed
<1>5. Typed'
  BY <1>1, <1>3, <1>4 DEF IInv, Typed
<1>6. Settled'
  BY <1>1, <1>2, NoChange DEF IInv, Typed, Settled
<1>7. Heard'
  BY <1>1, Sets DEF Heard
<1> QED
  BY <1>5, <1>6, <1>7 DEF IInv

LEMMA NextInv == IInv /\ [Next]_vars => IInv'
<1> SUFFICES ASSUME IInv, [Next]_vars PROVE IInv'
  OBVIOUS
<1>1. CASE UNCHANGED vars
  BY <1>1 DEF vars, IInv, Typed, Heard, Settled, Told, Silent
<1> QED
  BY <1>1, ReadInv, SubscribeInv, LeaveInv, QuietChangeInv, SaveInv, CommitInv, TellInv, BeginInv,
     RollbackInv, ReopenInv, RestartInv DEF Next

----------------------------------------------------------------------------
(* Theorems *)

THEOREM Invariant == Spec => []IInv
BY InitInv, NextInv, PTL DEF Spec

(* Who is still attached to the stream of an order that has ended, although *)
(* notify was called for the end, attached after that call: the window      *)
(* between the controller's read and its subscription is the only one.      *)
THEOREM EndsAreHeard == Spec => []EndIsHeard
<1>1. IInv => EndIsHeard
  BY DEF IInv, Typed, Heard, EndIsHeard
<1> QED
  BY <1>1, Invariant, PTL

(* markPaidByPaymentId tells after its transaction: nobody who was told of  *)
(* a payment can find the order PENDING, except while it is put back by the *)
(* script or by the save of a checkout that had read it PENDING.            *)
THEOREM ToldPaymentsAreCommitted == Spec => []ToldPaymentIsCommitted
<1>1. ASSUME NEW q \in Lefts("payment"), "tell" \notin ToSet(q) PROVE q = <<>>
  BY <1>1, Sets DEF Lefts
<1>2. IInv => ToldPaymentIsCommitted
  BY <1>1 DEF IInv, Typed, Settled, Told, ToldPaymentIsCommitted
<1> QED
  BY <1>2, Invariant, PTL

----------------------------------------------------------------------------
(* Types and counts                                                         *)

(***************************************************************************)
(* The controller's double subscription takes two from the count for each  *)
(* stream that ends, and subscribe added one: a stream that ended before   *)
(* makes up for each one that is attached without being counted, or was    *)
(* cut off (Balance).  The count cannot exceed the streams that came.      *)
(***************************************************************************)
Of(pcs) == {s \in Streams : stream[s].pc \in pcs}
Came == Of({"open", "deaf", "told", "gone"})
Balance ==
    Cardinality(Of({"open"})) + Cardinality(Of({"deaf"})) <= Cardinality(Of({"gone"})) + count
Lost == Cardinality(Of({"deaf"})) <= Cardinality(Of({"gone"}))
Once(q) == \A i, j \in DOMAIN q : q[i] = q[j] => i = j
Sizes ==
    /\ count \in Nat /\ count <= Cardinality(Came) /\ Balance /\ Lost
    /\ endedBy \in Ends \cup {None} /\ reopened \in 0..MaxReopen
    /\ Of({"open"}) = ToSet(line) /\ Once(line)
    /\ line # <<>> => count > 0
KInv == IInv /\ Sizes

LEMMA Finite ==
    ASSUME NEW T, T \subseteq Streams
    PROVE  IsFiniteSet(T) /\ Cardinality(T) \in Nat /\ Cardinality(T) <= Cardinality(Streams)
BY StreamAssumption, FS_Subset, FS_CardinalityType

LEMMA FiniteOf ==
    ASSUME NEW pcs
    PROVE  /\ IsFiniteSet(Of(pcs)) /\ Cardinality(Of(pcs)) \in Nat /\ Of(pcs) \subseteq Streams
           /\ IsFiniteSet(Of(pcs)') /\ Cardinality(Of(pcs)') \in Nat /\ Of(pcs)' \subseteq Streams
BY Finite DEF Of

LEMMA Disjoint ==
    ASSUME NEW S, IsFiniteSet(S), NEW T, IsFiniteSet(T), S \cap T = {}
    PROVE  IsFiniteSet(S \cup T) /\ Cardinality(S \cup T) = Cardinality(S) + Cardinality(T)
BY FS_Union, FS_EmptySet, FS_CardinalityType

LEMMA Without ==
    ASSUME NEW S, IsFiniteSet(S), NEW T, T \subseteq S
    PROVE  Cardinality(S \ T) = Cardinality(S) - Cardinality(T)
<1>1. S \cap T = T
  OBVIOUS
<1> QED
  BY <1>1, FS_Difference

(* Streams of C end, and those of X are cut off: the count may lose two for *)
(* each of C, no more.                                                      *)
LEMMA Closing ==
    ASSUME KInv, NEW C, NEW X, X = {} \/ count' = 0, C \cap X = {}, C \cup X \subseteq Of({"open"}),
           \A t \in Streams : stream'[t].pc = IF t \in C THEN "gone" ELSE IF t \in X THEN "deaf"
                                              ELSE stream[t].pc,
           count' \in Nat, count' <= count, count <= 2 * Cardinality(C) + count'
    PROVE  /\ Of({"open"})' = Of({"open"}) \ (C \cup X)
           /\ Balance' /\ Lost' /\ count' <= Cardinality(Came)'
<1>1. /\ Of({"open"})' = Of({"open"}) \ (C \cup X)
      /\ Of({"gone"})' = Of({"gone"}) \cup C /\ Of({"gone"}) \cap C = {}
      /\ Of({"deaf"})' = Of({"deaf"}) \cup X /\ Of({"deaf"}) \cap X = {}
      /\ Came \subseteq Came'
  BY DEF Of, Came
<1>2. IsFiniteSet(C) /\ IsFiniteSet(X) /\ C \subseteq Streams /\ X \subseteq Streams
      /\ Cardinality(C) \in Nat /\ Cardinality(X) \in Nat
  BY FiniteOf, Finite
<1>3. Cardinality(C \cup X) = Cardinality(C) + Cardinality(X)
  BY <1>2, Disjoint
<1>4. /\ Cardinality(Of({"open"})') = Cardinality(Of({"open"})) - (Cardinality(C) + Cardinality(X))
      /\ Cardinality(Of({"gone"})') = Cardinality(Of({"gone"})) + Cardinality(C)
      /\ Cardinality(Of({"deaf"})') = Cardinality(Of({"deaf"})) + Cardinality(X)
  BY <1>1, <1>2, <1>3, FiniteOf, Without, Disjoint
<1>5. Balance'
  <2>1. /\ Cardinality(Of({"open"})) \in Nat /\ Cardinality(Of({"gone"})) \in Nat
        /\ Cardinality(Of({"deaf"})) \in Nat /\ count \in Nat
        /\ Cardinality(Of({"open"})) + Cardinality(Of({"deaf"})) <= Cardinality(Of({"gone"})) + count
    BY FiniteOf DEF KInv, Sizes, Balance
  <2> QED
    BY <1>2, <1>4, <2>1 DEF Balance
<1>7. Lost'
  <2>1. /\ Cardinality(Of({"open"})') \in Nat /\ Cardinality(Of({"gone"})') \in Nat
        /\ Cardinality(Of({"deaf"})') \in Nat /\ Cardinality(Of({"gone"})) \in Nat
        /\ Cardinality(Of({"deaf"})) \in Nat
    BY FiniteOf
  <2>2. CASE count' = 0
    BY <1>5, <2>1, <2>2 DEF Balance, Lost
  <2>3. CASE X = {}
    BY <1>2, <1>4, <2>1, <2>3, FS_EmptySet DEF Lost, KInv, Sizes
  <2> QED
    BY <2>2, <2>3
<1>6. count' <= Cardinality(Came)'
  <2>1. IsFiniteSet(Came') /\ Cardinality(Came) \in Nat /\ Cardinality(Came') \in Nat
    BY FiniteOf DEF Came
  <2>2. Cardinality(Came) <= Cardinality(Came')
    BY <1>1, <2>1, FS_Subset
  <2> QED
    BY <2>1, <2>2 DEF KInv, Sizes
<1> QED
  BY <1>1, <1>5, <1>6, <1>7

(* Nobody comes or goes. *)
LEMMA SameSizes ==
    ASSUME KInv, UNCHANGED <<line, count>>,
           \A t \in Streams : stream'[t].pc = stream[t].pc
                              \/ (stream[t].pc \in {"new", "read"} /\ stream'[t].pc \in {"new", "read"}),
           endedBy' \in Ends \cup {None}, reopened' \in 0..MaxReopen
    PROVE  Sizes'
<1>1. /\ Of({"open"})' = Of({"open"}) /\ Of({"gone"})' = Of({"gone"})
      /\ Of({"deaf"})' = Of({"deaf"}) /\ Came' = Came
  BY DEF Of, Came
<1> QED
  BY <1>1 DEF KInv, Sizes, Balance, Lost

(* The line: one more, one less. *)
LEMMA OneIn ==
    ASSUME NEW q \in Seq(Streams), Once(q), NEW s \in Streams, s \notin ToSet(q)
    PROVE  Once(Append(q, s)) /\ ToSet(Append(q, s)) = ToSet(q) \cup {s}
<1> DEFINE r == Append(q, s)
<1>1. r \in Seq(Streams) /\ Len(r) = Len(q) + 1 /\ r[Len(r)] = s /\ Len(q) \in Nat
  OBVIOUS
<1>2. \A i \in 1..Len(q) : r[i] = q[i] /\ q[i] # s
  BY DEF ToSet
<1>3. DOMAIN q = 1..Len(q)
  OBVIOUS
<1> HIDE DEF r
<1>4. \A i \in DOMAIN r : i \in 1..Len(q) \/ i = Len(r)
  BY <1>1
<1>5. DOMAIN r = 1..Len(r)
  BY <1>1
<1>6. Once(r)
  BY <1>1, <1>2, <1>3, <1>4 DEF Once
<1>7. ToSet(r) = ToSet(q) \cup {s}
  BY <1>1, <1>2, <1>3, <1>4, <1>5 DEF ToSet
<1> QED
  BY <1>6, <1>7 DEF r

LEMMA Joined ==
    ASSUME NEW S, NEW x \in Seq(S), NEW y \in Seq(S)
    PROVE  /\ x \o y \in Seq(S) /\ Len(x \o y) = Len(x) + Len(y)
           /\ \A j \in 1..Len(x \o y) : (x \o y)[j] = IF j <= Len(x) THEN x[j] ELSE y[j - Len(x)]
OBVIOUS

LEMMA OneOut ==
    ASSUME NEW q \in Seq(Streams), Once(q), NEW i \in DOMAIN q
    PROVE  Once(RemoveAt(q, i)) /\ ToSet(RemoveAt(q, i)) = ToSet(q) \ {q[i]}
<1> DEFINE r == RemoveAt(q, i)
<1>1. i \in 1..Len(q) /\ Len(q) \in Nat /\ DOMAIN q = 1..Len(q)
  OBVIOUS
<1> DEFINE a == SubSeq(q, 1, i - 1)  b == SubSeq(q, i + 1, Len(q))
<1>2. a \in Seq(Streams) /\ Len(a) = i - 1 /\ \A j \in 1..(i - 1) : a[j] = q[j]
  BY <1>1
<1>3. b \in Seq(Streams) /\ Len(b) = Len(q) - i /\ \A j \in 1..(Len(q) - i) : b[j] = q[i + j]
  BY <1>1
<1>4. r = a \o b
  BY DEF RemoveAt
<1> HIDE DEF a, b, r
<1>5. /\ r \in Seq(Streams) /\ Len(r) = Len(q) - 1 /\ DOMAIN r = 1..(Len(q) - 1)
      /\ \A j \in 1..(i - 1) : r[j] = q[j]
      /\ \A j \in i..(Len(q) - 1) : r[j] = q[j + 1]
  <2>1. /\ r \in Seq(Streams) /\ Len(r) = Len(a) + Len(b)
        /\ \A j \in 1..Len(r) : r[j] = IF j <= Len(a) THEN a[j] ELSE b[j - Len(a)]
    BY <1>2, <1>3, <1>4, Joined
  <2>2. Len(r) = Len(q) - 1 /\ DOMAIN r = 1..(Len(q) - 1)
    BY <1>1, <1>2, <1>3, <2>1
  <2>3. ASSUME NEW j \in 1..(i - 1) PROVE r[j] = q[j]
    BY <1>1, <1>2, <1>3, <2>1
  <2>4. ASSUME NEW j \in i..(Len(q) - 1) PROVE r[j] = q[j + 1]
    <3>1. j \in 1..Len(r) /\ ~(j <= Len(a)) /\ j - Len(a) = j - i + 1 /\ j - i + 1 \in 1..(Len(q) - i)
      BY <1>1, <1>2, <2>2, <2>1
    <3>2. r[j] = b[j - i + 1] /\ b[j - i + 1] = q[i + (j - i + 1)] /\ i + (j - i + 1) = j + 1
      BY <1>1, <1>3, <2>1, <3>1
    <3> QED
      BY <3>2
  <2> QED
    BY <2>1, <2>2, <2>3, <2>4
<1>6. Once(r)
  <2>1. \A j \in DOMAIN r : \E k \in DOMAIN q : r[j] = q[k] /\ k = IF j < i THEN j ELSE j + 1
    BY <1>1, <1>5
  <2> SUFFICES ASSUME NEW j \in DOMAIN r, NEW k \in DOMAIN r, r[j] = r[k] PROVE j = k
    BY DEF Once
  <2>2. PICK m \in DOMAIN q : r[j] = q[m] /\ m = IF j < i THEN j ELSE j + 1
    BY <2>1
  <2>3. PICK n \in DOMAIN q : r[k] = q[n] /\ n = IF k < i THEN k ELSE k + 1
    BY <2>1
  <2>4. m = n
    BY <2>2, <2>3 DEF Once
  <2> QED
    BY <1>1, <1>5, <2>2, <2>3, <2>4
<1>7. ASSUME NEW x \in ToSet(r) PROVE x \in ToSet(q) \ {q[i]}
  BY <1>1, <1>5 DEF Once, ToSet
<1>8. ASSUME NEW x \in ToSet(q) \ {q[i]} PROVE x \in ToSet(r)
  <2>1. PICK j \in 1..Len(q) : q[j] = x /\ j # i
    BY <1>1 DEF ToSet
  <2>2. CASE j < i
    <3>1. j \in 1..(i - 1) /\ j \in 1..(Len(q) - 1)
      BY <1>1, <2>1, <2>2
    <3> QED
      BY <1>5, <2>1, <3>1 DEF ToSet
  <2>3. CASE j > i
    <3>1. j - 1 \in i..(Len(q) - 1) /\ j - 1 \in 1..(Len(q) - 1) /\ (j - 1) + 1 = j
      BY <1>1, <2>1, <2>3
    <3>2. r[j - 1] = x
      BY <1>5, <2>1, <3>1
    <3> QED
      BY <1>5, <3>1, <3>2 DEF ToSet
  <2> QED
    BY <1>1, <2>1, <2>2, <2>3
<1>9. ToSet(r) = ToSet(q) \ {q[i]}
  BY <1>7, <1>8
<1> QED
  BY <1>6, <1>9 DEF r

(* The first n of the line are n streams. *)
LEMMA FirstOnes ==
    ASSUME NEW q \in Seq(Streams), Once(q), NEW n \in Nat, n <= Len(q)
    PROVE  Cardinality({q[i] : i \in 1..n}) = n
<1> DEFINE T == {q[i] : i \in 1..n}  f == [i \in 1..n |-> q[i]]
<1>1. \A i \in 1..n : i \in DOMAIN q
  OBVIOUS
<1>2. f \in Bijection(1..n, T)
  BY <1>1 DEF Bijection, Injection, Surjection, IsInjective, Once
<1>3. ExistsBijection(1..n, T)
  BY <1>2 DEF ExistsBijection
<1>4. IsFiniteSet(1..n) /\ Cardinality(1..n) = n
  BY FS_Interval
<1> QED
  BY <1>3, <1>4, FS_Bijection

----------------------------------------------------------------------------
(* The counts through each step *)

LEMMA Line ==
    ASSUME KInv
    PROVE  /\ line \in Seq(Streams) /\ DOMAIN line = 1..Len(line) /\ Len(line) \in Nat
           /\ \A s \in Streams : stream[s].pc = "open" <=> s \in ToSet(line)
           /\ ToSet(line) = Of({"open"}) /\ ToSet(line) \subseteq Streams /\ count \in Nat
           /\ stream \in [Streams -> Stream]
<1>1. line \in Seq(Streams) /\ ToSet(line) = Of({"open"}) /\ count \in Nat
      /\ stream \in [Streams -> Stream]
  BY DEF KInv, IInv, Typed, Sizes
<1>2. DOMAIN line = 1..Len(line) /\ Len(line) \in Nat
  BY <1>1
<1>3. \A s \in Streams : s \in Of({"open"}) <=> stream[s].pc = "open"
  BY DEF Of
<1> QED
  BY <1>1, <1>2, <1>3 DEF Of

LEMMA NoLine == ToSet(<<>>) = {} /\ Once(<<>>)
BY Sets DEF Once

LEMMA Steady ==
    ASSUME KInv, UNCHANGED <<endedBy, reopened>>
    PROVE  endedBy' \in Ends \cup {None} /\ reopened' \in 0..MaxReopen
BY DEF KInv, Sizes

LEMMA ReadSizes == ASSUME KInv, NEW s \in Streams, Read(s) PROVE Sizes'
<1>1. /\ stream' = [stream EXCEPT ![s].pc = "read", ![s].seen = status] /\ stream[s].pc = "new"
      /\ UNCHANGED <<line, count, endedBy, reopened>>
  BY DEF Read, rows
<1>2. \A t \in Streams : stream'[t].pc = IF t = s THEN "read" ELSE stream[t].pc
  BY <1>1, Line DEF Stream
<1> QED
  BY <1>1, <1>2, SameSizes, Steady

LEMMA SubscribeSizes == ASSUME KInv, NEW s \in Streams, Subscribe(s) PROVE Sizes'
<1> DEFINE end == stream[s].seen \in Ended
           pc == IF end THEN "told" ELSE "open"
<1>1. /\ stream' = [stream EXCEPT ![s].pc = pc, ![s].late = {e \in Ends : Told(e)}]
      /\ stream[s].pc = "read" /\ count' = count + 1
      /\ line' = IF end THEN line ELSE Append(line, s)
      /\ UNCHANGED <<endedBy, reopened>>
  BY DEF Subscribe, Counted, rows
<1>2. \A t \in Streams : stream'[t].pc = IF t = s THEN pc ELSE stream[t].pc
  BY <1>1, Line DEF Stream
<1>8. pc \in {"told", "open"} /\ (pc = "open" <=> ~end)
  OBVIOUS
<1> HIDE DEF pc, end
<1>3. /\ Came' = Came \cup {s} /\ s \notin Came
      /\ Of({"gone"})' = Of({"gone"}) /\ Of({"deaf"})' = Of({"deaf"})
      /\ Of({"open"})' = (IF end THEN Of({"open"}) ELSE Of({"open"}) \cup {s}) /\ s \notin Of({"open"})
  <2>1. CASE pc = "told"
    BY <1>1, <1>2, <1>8, <2>1 DEF Of, Came
  <2>2. CASE pc = "open"
    BY <1>1, <1>2, <1>8, <2>2 DEF Of, Came
  <2> QED
    BY <1>8, <2>1, <2>2
<1>4. Once(line') /\ ToSet(line') = Of({"open"})'
  <2>1. CASE end
    BY <1>1, <1>3, <2>1 DEF KInv, Sizes
  <2>2. CASE ~end
    BY <1>1, <1>3, <2>2, Line, OneIn DEF KInv, Sizes
  <2> QED
    BY <2>1, <2>2
<1>5. count' <= Cardinality(Came')
  BY <1>1, <1>3, FiniteOf, FS_AddElement DEF KInv, Sizes, Came
<1>6. Balance'
  <2>1. Cardinality(Of({"open"})') <= Cardinality(Of({"open"})) + 1
    BY <1>3, FiniteOf, FS_AddElement
  <2>2. /\ Cardinality(Of({"open"})) + Cardinality(Of({"deaf"})) <= Cardinality(Of({"gone"})) + count
        /\ count \in Nat
    BY DEF KInv, Sizes, Balance
  <2>3. /\ Cardinality(Of({"open"})) \in Nat /\ Cardinality(Of({"gone"})) \in Nat
        /\ Cardinality(Of({"deaf"})) \in Nat /\ Cardinality(Of({"open"})') \in Nat
    BY FiniteOf
  <2> QED
    BY <1>1, <1>3, <2>1, <2>2, <2>3 DEF Balance
<1>7. count' \in Nat /\ count' > 0
  BY <1>1, Line
<1>9. Lost'
  BY <1>3 DEF Lost, KInv, Sizes
<1> QED
  BY <1>1, <1>4, <1>5, <1>6, <1>7, <1>9, Steady DEF Sizes

LEMMA DetachSizes ==
    ASSUME KInv, NEW s \in Streams, stream[s].pc = "open", Detach(s), UNCHANGED <<endedBy, reopened>>
    PROVE  Sizes'
<1> DEFINE left == Finalize(count)
           X == IF left = 0 THEN ToSet(line) \ {s} ELSE {}
<1>1. PICK i \in DOMAIN line : line[i] = s /\ line' = IF left = 0 THEN <<>> ELSE RemoveAt(line, i)
  BY DEF Detach
<1>2. count' = left /\ left \in Nat /\ left <= count /\ count <= 2 + left
  BY Line DEF Detach, Finalize
<1>3. s \in ToSet(line) /\ ToSet(line) = Of({"open"}) /\ Once(line)
  BY Line DEF KInv, Sizes
<1>4. \A t \in Streams : stream'[t].pc = IF t \in {s} THEN "gone" ELSE IF t \in X THEN "deaf"
                                         ELSE stream[t].pc
  BY Line DEF Detach, Stream
<1>9. X = {} \/ count' = 0
  BY <1>2
<1>5. {s} \cap X = {} /\ {s} \cup X \subseteq Of({"open"})
      /\ Of({"open"}) \ ({s} \cup X) = IF left = 0 THEN {} ELSE ToSet(line) \ {s}
  BY <1>3
<1> HIDE DEF X, left
<1>6. Cardinality({s}) = 1 /\ count <= 2 * Cardinality({s}) + count' /\ count' \in Nat /\ count' <= count
  <2>1. Cardinality({s}) = 1
    BY FS_Singleton
  <2>2. count' \in Nat /\ count' <= count /\ count <= 2 + count'
    BY <1>2
  <2> QED
    BY <2>1, <2>2
<1>7. /\ Of({"open"})' = Of({"open"}) \ ({s} \cup X)
      /\ Balance' /\ Lost' /\ count' <= Cardinality(Came)'
  <2> DEFINE C == {s}
  <2>1. /\ C \cap X = {} /\ C \cup X \subseteq Of({"open"}) /\ count <= 2 * Cardinality(C) + count'
        /\ \A t \in Streams : stream'[t].pc = IF t \in C THEN "gone" ELSE IF t \in X THEN "deaf"
                                            ELSE stream[t].pc
    BY <1>4, <1>5, <1>6
  <2> HIDE DEF C
  <2>2. /\ Of({"open"})' = Of({"open"}) \ (C \cup X)
        /\ Balance' /\ Lost' /\ count' <= Cardinality(Came)'
    BY <1>6, <1>9, <2>1, Closing
  <2> QED
    BY <2>2 DEF C
<1>8. Once(line') /\ ToSet(line') = Of({"open"})' /\ (line' # <<>> => count' > 0)
  <2>1. CASE left = 0
    BY <1>1, <1>5, <1>7, <2>1, NoLine
  <2>2. CASE left # 0
    <3>1. line' = RemoveAt(line, i) /\ Of({"open"})' = ToSet(line) \ {line[i]} /\ count' > 0
      BY <1>1, <1>2, <1>5, <1>7, <2>2
    <3>2. Once(RemoveAt(line, i)) /\ ToSet(RemoveAt(line, i)) = ToSet(line) \ {line[i]}
      BY <1>1, <1>3, Line, OneOut
    <3> QED
      BY <3>1, <3>2
  <2> QED
    BY <2>1, <2>2
<1> QED
  BY <1>2, <1>7, <1>8, Steady DEF Sizes

LEMMA LeaveSizes == ASSUME KInv, NEW s \in Streams, Leave(s) PROVE Sizes'
<1>1. UNCHANGED <<endedBy, reopened>>
  BY DEF Leave, rows
<1>2. CASE stream[s].pc = "open" /\ Detach(s)
  BY <1>1, <1>2, DetachSizes
<1>3. CASE stream[s].pc = "deaf" /\ stream' = Tag({s}, "gone") /\ UNCHANGED <<line, count>>
  <2>1. \A t \in Streams : stream'[t].pc = IF t = s THEN "gone" ELSE stream[t].pc
    BY <1>3, Line DEF Tag, Stream
  <2>2. /\ Of({"open"})' = Of({"open"}) /\ Came' = Came
        /\ Of({"deaf"})' = Of({"deaf"}) \ {s} /\ s \in Of({"deaf"})
        /\ Of({"gone"})' = Of({"gone"}) \cup {s}
    BY <1>3, <2>1 DEF Of, Came
  <2>3. /\ Cardinality(Of({"open"})) \in Nat /\ Cardinality(Of({"gone"})) \in Nat
        /\ Cardinality(Of({"deaf"})) \in Nat /\ count \in Nat
        /\ Cardinality(Of({"deaf"})') = Cardinality(Of({"deaf"})) - 1
        /\ Cardinality(Of({"gone"})') >= Cardinality(Of({"gone"}))
    <3>1. Cardinality(Of({"deaf"}) \ {s}) = Cardinality(Of({"deaf"})) - 1
      BY <2>2, FiniteOf, FS_RemoveElement
    <3>2. Cardinality(Of({"gone"})) \in Nat
          /\ Cardinality(Of({"gone"}) \cup {s}) \in {Cardinality(Of({"gone"})), Cardinality(Of({"gone"})) + 1}
      BY FiniteOf, FS_AddElement
    <3>3. Cardinality(Of({"gone"}) \cup {s}) >= Cardinality(Of({"gone"}))
      BY <3>2
    <3>4. /\ Cardinality(Of({"open"})) \in Nat /\ Cardinality(Of({"gone"})) \in Nat
          /\ Cardinality(Of({"deaf"})) \in Nat /\ count \in Nat
      BY FiniteOf, Line
    <3> QED
      BY <2>2, <3>1, <3>3, <3>4
  <2>4. Cardinality(Of({"gone"})') \in Nat
    BY FiniteOf
  <2>5. Balance' /\ Lost'
    BY <1>3, <2>2, <2>3, <2>4 DEF Balance, Lost, KInv, Sizes
  <2> QED
    BY <1>1, <1>3, <2>2, <2>5, Steady DEF KInv, Sizes
<1> QED
  BY <1>2, <1>3 DEF Leave

(* Each stream that notify closes takes its two, until nothing is left. *)
LEMMA ServedCounts ==
    ASSUME KInv
    PROVE  /\ Served.count \in Nat /\ Served.count <= count /\ Served.closed \subseteq ToSet(line)
           /\ count <= 2 * Cardinality(Served.closed) + Served.count
           /\ Served.closed = ToSet(line) \/ Served.count = 0
<1> DEFINE L == Len(line)  h == (count + 1) \div 2  n == IF L <= h THEN L ELSE h
<1>1. line \in Seq(Streams) /\ Once(line) /\ L \in Nat /\ count \in Nat /\ DOMAIN line = 1..L
  BY Line DEF KInv, Sizes
<1>2. h \in Nat /\ count <= 2 * h /\ \A j \in Nat : 2 * (j - 1) < count <=> j <= h
  BY <1>1
<1> HIDE DEF h, L
<1>11. n = IF L <= h THEN L ELSE h
  OBVIOUS
<1>3. n \in Nat /\ n <= L /\ \A j \in 1..L : 2 * (j - 1) < count <=> j <= n
  BY <1>1, <1>2
<1>4. {j \in DOMAIN line : 2 * (j - 1) < count} = 1..n
  BY <1>1, <1>3
<1>5. Served.closed = {line[i] : i \in 1..n}
  BY <1>4 DEF Served
<1>6. Cardinality(Served.closed) = n
  BY <1>1, <1>3, <1>5, FirstOnes
<1>7. Served.closed \subseteq ToSet(line)
  BY <1>1, <1>3, <1>5 DEF ToSet
<1>8. Served.count = IF count <= 2 * L THEN 0 ELSE count - 2 * L
  BY DEF Served, L
<1>9. n = L => Served.closed = ToSet(line)
  BY <1>1, <1>5 DEF ToSet
<1>10. /\ Served.count \in Nat /\ Served.count <= count /\ count <= 2 * n + Served.count
       /\ n = L \/ Served.count = 0
  <2>1. CASE n = L
    <3>1. count <= 2 * L \/ (count > 2 * L /\ count - 2 * L \in Nat)
      BY <1>1
    <3> QED
      BY <1>1, <1>8, <2>1, <3>1
  <2>2. CASE n # L
    <3>1. n = h /\ n < L
      BY <1>1, <1>2, <1>11, <2>2
    <3>2. count <= 2 * n /\ count <= 2 * L
      BY <1>1, <1>2, <3>1
    <3> QED
      BY <1>1, <1>2, <1>8, <3>1, <3>2
  <2> QED
    BY <2>1, <2>2
<1> HIDE DEF n
<1> QED
  BY <1>6, <1>7, <1>9, <1>10

LEMMA NotifySizes == ASSUME KInv, Notify, UNCHANGED <<endedBy, reopened>> PROVE Sizes'
<1> DEFINE C == Served.closed  X == ToSet(line) \ C
<1>1. /\ count' \in Nat /\ count' <= count /\ C \subseteq ToSet(line)
      /\ count <= 2 * Cardinality(C) + count' /\ line' = <<>>
  BY ServedCounts DEF Notify
<1>2. \A t \in Streams : stream'[t].pc = IF t \in C THEN "gone" ELSE IF t \in X THEN "deaf"
                                         ELSE stream[t].pc
  BY Line DEF Notify, Stream
<1>3. C \cap X = {} /\ C \cup X = Of({"open"}) /\ (X = {} \/ count' = 0)
  BY <1>1, Line, ServedCounts DEF Notify
<1> HIDE DEF C, X
<1>4. /\ Of({"open"})' = {} /\ Balance' /\ Lost' /\ count' <= Cardinality(Came)'
  BY <1>1, <1>2, <1>3, Closing
<1>5. Once(line)' /\ ToSet(line)' = {} /\ line' = <<>>
  BY <1>1, NoLine DEF Once
<1> QED
  BY <1>1, <1>4, <1>5, Steady DEF Sizes

LEMMA ChangeSizes ==
    ASSUME KInv, NEW e \in Ends,
           \/ Begin(e) \/ Claim(e) \/ ReadFresh(e) \/ Save(e) \/ Commit(e) \/ Rollback(e)
    PROVE  Sizes'
<1>1. UNCHANGED <<line, count, stream, reopened>> /\ endedBy' \in {endedBy, e, None}
  BY DEF Begin, Claim, ReadFresh, Save, Commit, Rollback, maps
<1> QED
  BY <1>1, SameSizes DEF KInv, Sizes

LEMMA ReopenSizes == ASSUME KInv, Reopen PROVE Sizes'
<1>1. UNCHANGED <<line, count, stream>> /\ endedBy' = None /\ reopened' \in 0..MaxReopen
  BY StreamAssumption DEF Reopen, maps, KInv, Sizes
<1> QED
  BY <1>1, SameSizes

LEMMA RestartSizes == ASSUME KInv, Restart PROVE Sizes'
<1>1. line' = <<>> /\ count' = 0 /\ UNCHANGED <<endedBy, reopened>>
      /\ stream' = Tag({s \in Streams : stream[s].pc \in {"read", "open", "deaf"}}, "gone")
  BY DEF Restart
<1>2. \A s \in Streams : stream'[s].pc \notin {"open", "deaf"}
  BY <1>1, Line DEF Tag, Stream
<1>3. Of({"open"})' = {} /\ Of({"deaf"})' = {}
  BY <1>2 DEF Of
<1>4. Balance' /\ Lost' /\ count' <= Cardinality(Came)'
  <2>1. Cardinality(Of({"gone"})') \in Nat /\ Cardinality(Came') \in Nat
    BY FiniteOf DEF Came
  <2>2. Cardinality(Of({"open"})') = 0 /\ Cardinality(Of({"deaf"})') = 0
    BY <1>3, FS_EmptySet
  <2> QED
    BY <1>1, <2>1, <2>2 DEF Balance, Lost
<1>5. Once(line)' /\ ToSet(line)' = {} /\ line' = <<>>
  BY <1>1, NoLine DEF Once
<1> QED
  BY <1>1, <1>3, <1>4, <1>5, Steady DEF Sizes

LEMMA InitK == Init => KInv
<1> SUFFICES ASSUME Init PROVE Sizes
  BY InitInv DEF KInv
<1>1. \A s \in Streams : stream[s].pc = "new"
  BY DEF Init, NewStream
<1>2. Of({"open"}) = {} /\ Of({"deaf"}) = {}
  BY <1>1 DEF Of
<1>3. Cardinality(Of({"gone"})) \in Nat /\ Cardinality(Came) \in Nat
  BY FiniteOf DEF Came
<1>4. Cardinality(Of({"open"})) = 0 /\ Cardinality(Of({"deaf"})) = 0
  BY <1>2, FS_EmptySet
<1>5. count = 0 /\ line = <<>> /\ endedBy = None /\ reopened = 0 /\ MaxReopen \in Nat
  BY StreamAssumption DEF Init
<1>6. Balance /\ Lost /\ count <= Cardinality(Came)
  BY <1>3, <1>4, <1>5 DEF Balance, Lost
<1>7. Once(line) /\ Of({"open"}) = ToSet(line) /\ ~(line # <<>>)
  BY <1>2, <1>5, NoLine DEF Once
<1>8. endedBy \in Ends \cup {None} /\ reopened \in 0..MaxReopen /\ count \in Nat
  BY <1>5
<1> QED
  BY <1>6, <1>7, <1>8 DEF Sizes

LEMMA NextK == KInv /\ [Next]_vars => KInv'
<1> SUFFICES ASSUME KInv, [Next]_vars PROVE Sizes'
  BY NextInv DEF KInv
<1>1. CASE UNCHANGED vars
  BY <1>1, SameSizes, Steady DEF vars
<1>2. ASSUME NEW e \in Ends, Tell(e) PROVE Sizes'
  BY <1>2, NotifySizes DEF Tell
<1> QED
  BY <1>1, <1>2, ReadSizes, SubscribeSizes, LeaveSizes, ChangeSizes, ReopenSizes, RestartSizes DEF Next

LEMMA InvariantK == Spec => []KInv
BY InitK, NextK, PTL DEF Spec

(* The ends of the short sequences a change is, as SubSeq gives them. *)
LEMMA From ==
    ASSUME NEW S, NEW x \in Seq(S), NEW m \in 1..Len(x), NEW y \in Seq(S),
           Len(y) = Len(x) - m + 1, \A i \in 1..Len(y) : y[i] = x[m + i - 1]
    PROVE  y = SubSeq(x, m, Len(x))
<1> DEFINE z == SubSeq(x, m, Len(x))
<1>1. z \in Seq(S) /\ Len(z) = Len(y) /\ \A i \in 1..Len(y) : z[i] = x[m + i - 1]
  OBVIOUS
<1> QED
  BY <1>1, Same

LEMMA Past == ASSUME NEW S, NEW x \in Seq(S) PROVE <<>> = SubSeq(x, Len(x) + 1, Len(x))
OBVIOUS

LEMMA OfTwo ==
    ASSUME NEW S, NEW a \in S, NEW b \in S
    PROVE  LET K == <<a, b>>
           IN  /\ <<a, b>> = SubSeq(K, 1, Len(K))
               /\ <<b>> = SubSeq(K, 2, Len(K))
               /\ <<>> = SubSeq(K, 3, Len(K))
<1> DEFINE K == <<a, b>>  t1 == <<b>>
<1>1. K \in Seq(S) /\ Len(K) = 2 /\ K[1] = a /\ K[2] = b
  OBVIOUS
<1>2. t1 \in Seq(S) /\ Len(t1) = 1 /\ t1[1] = b
  OBVIOUS
<1> HIDE DEF K, t1
<1>3. K = SubSeq(K, 1, Len(K))
  BY <1>1, From
<1>4. t1 = SubSeq(K, 2, Len(K))
  BY <1>1, <1>2, From
<1>5. <<>> = SubSeq(K, 3, Len(K))
  BY <1>1, Past
<1> QED
  BY <1>3, <1>4, <1>5 DEF K, t1

LEMMA OfThree ==
    ASSUME NEW S, NEW a \in S, NEW b \in S, NEW c \in S
    PROVE  LET K == <<a, b, c>>
           IN  /\ <<a, b, c>> = SubSeq(K, 1, Len(K))
               /\ <<b, c>> = SubSeq(K, 2, Len(K))
               /\ <<c>> = SubSeq(K, 3, Len(K))
               /\ <<>> = SubSeq(K, 4, Len(K))
<1> DEFINE K == <<a, b, c>>  t1 == <<b, c>>  t2 == <<c>>
<1>1. K \in Seq(S) /\ Len(K) = 3 /\ K[1] = a /\ K[2] = b /\ K[3] = c
  OBVIOUS
<1>2. t1 \in Seq(S) /\ Len(t1) = 2 /\ t1[1] = b /\ t1[2] = c
  OBVIOUS
<1>3. t2 \in Seq(S) /\ Len(t2) = 1 /\ t2[1] = c
  OBVIOUS
<1> HIDE DEF K, t1, t2
<1>4. K = SubSeq(K, 1, Len(K))
  BY <1>1, From
<1>5. t1 = SubSeq(K, 2, Len(K))
  BY <1>1, <1>2, From
<1>6. t2 = SubSeq(K, 3, Len(K))
  BY <1>1, <1>3, From
<1>7. <<>> = SubSeq(K, 4, Len(K))
  BY <1>1, Past
<1> QED
  BY <1>4, <1>5, <1>6, <1>7 DEF K, t1, t2

LEMMA OfFour ==
    ASSUME NEW S, NEW a \in S, NEW b \in S, NEW c \in S, NEW d \in S
    PROVE  LET K == <<a, b, c, d>>
           IN  /\ <<a, b, c, d>> = SubSeq(K, 1, Len(K))
               /\ <<b, c, d>> = SubSeq(K, 2, Len(K))
               /\ <<c, d>> = SubSeq(K, 3, Len(K))
               /\ <<d>> = SubSeq(K, 4, Len(K))
               /\ <<>> = SubSeq(K, 5, Len(K))
               /\ <<c>> = SubSeq(K, 3, 3)
<1> DEFINE K == <<a, b, c, d>>  t1 == <<b, c, d>>  t2 == <<c, d>>  t3 == <<d>>
<1>1. K \in Seq(S) /\ Len(K) = 4 /\ K[1] = a /\ K[2] = b /\ K[3] = c /\ K[4] = d
  OBVIOUS
<1>2. t1 \in Seq(S) /\ Len(t1) = 3 /\ t1[1] = b /\ t1[2] = c /\ t1[3] = d
  OBVIOUS
<1>3. t2 \in Seq(S) /\ Len(t2) = 2 /\ t2[1] = c /\ t2[2] = d
  OBVIOUS
<1>4. t3 \in Seq(S) /\ Len(t3) = 1 /\ t3[1] = d
  OBVIOUS
<1> HIDE DEF K, t1, t2, t3
<1>5. K = SubSeq(K, 1, Len(K))
  BY <1>1, From
<1>6. t1 = SubSeq(K, 2, Len(K))
  BY <1>1, <1>2, From
<1>7. t2 = SubSeq(K, 3, Len(K))
  BY <1>1, <1>3, From
<1>8. t3 = SubSeq(K, 4, Len(K))
  BY <1>1, <1>4, From
<1>9. <<>> = SubSeq(K, 5, Len(K))
  BY <1>1, Past
<1> DEFINE z == SubSeq(K, 3, 3)  u == <<c>>
<1>10. /\ z \in Seq(S) /\ Len(z) = 1 /\ z[1] = c
       /\ u \in Seq(S) /\ Len(u) = 1 /\ u[1] = c
  BY <1>1
<1>11. z = u
  <2> HIDE DEF z, u
  <2> QED
    BY <1>10, Same
<1> QED
  BY <1>5, <1>6, <1>7, <1>8, <1>9, <1>11 DEF K, t1, t2, t3

(* What is left of a change, as TypeOK says it. *)
LEMMA RestOfChange ==
    ASSUME NEW k \in AllKinds, NEW q \in Lefts(k)
    PROVE  \E n \in 1..5, m \in 0..4 : q = SubSeq(Steps(k), n, m)
<1> DEFINE Q == {"claim", "read", "save", "tell", "commit"}
<1>1. "claim" \in Q /\ "read" \in Q /\ "save" \in Q /\ "tell" \in Q /\ "commit" \in Q
  OBVIOUS
<1> HIDE DEF Q
<1>2. /\ 1 \in 1..5 /\ 2 \in 1..5 /\ 3 \in 1..5 /\ 4 \in 1..5 /\ 5 \in 1..5
      /\ 2 \in 0..4 /\ 3 \in 0..4 /\ 4 \in 0..4
  OBVIOUS
<1>7. Len(Steps(k)) \in 0..4
  BY DEF Steps, AllKinds
<1>3. CASE k = "payment"
  <2>1. /\ Steps(k) = <<"claim", "commit", "tell">>
        /\ q \in {<<"claim", "commit", "tell">>, <<"commit", "tell">>,
                 <<"tell">>, <<>>}
    BY <1>3 DEF Lefts, Steps
  <2>2. /\ <<"claim", "commit", "tell">> = SubSeq(Steps(k), 1, Len(Steps(k)))
        /\ <<"commit", "tell">> = SubSeq(Steps(k), 2, Len(Steps(k)))
        /\ <<"tell">> = SubSeq(Steps(k), 3, Len(Steps(k)))
        /\ <<>> = SubSeq(Steps(k), 4, Len(Steps(k)))
    BY <1>1, <2>1, OfThree
  <2> QED
    BY <1>2, <1>7, <2>1, <2>2
<1>4. CASE k = "manual"
  <2>1. /\ Steps(k) = <<"claim", "tell", "commit">>
        /\ q \in {<<"claim", "tell", "commit">>, <<"tell", "commit">>,
                 <<"commit">>, <<>>}
    BY <1>4 DEF Lefts, Steps
  <2>2. /\ <<"claim", "tell", "commit">> = SubSeq(Steps(k), 1, Len(Steps(k)))
        /\ <<"tell", "commit">> = SubSeq(Steps(k), 2, Len(Steps(k)))
        /\ <<"commit">> = SubSeq(Steps(k), 3, Len(Steps(k)))
        /\ <<>> = SubSeq(Steps(k), 4, Len(Steps(k)))
    BY <1>1, <2>1, OfThree
  <2> QED
    BY <1>2, <1>7, <2>1, <2>2
<1>5. CASE k = "expiry"
  <2>1. /\ Steps(k) = <<"read", "save", "tell", "commit">>
        /\ q \in {<<"read", "save", "tell", "commit">>, <<"save", "tell", "commit">>,
                 <<"tell", "commit">>, <<"tell">>, <<"commit">>, <<>>}
    BY <1>5 DEF Lefts, Steps
  <2>2. /\ <<"read", "save", "tell", "commit">> = SubSeq(Steps(k), 1, Len(Steps(k)))
        /\ <<"save", "tell", "commit">> = SubSeq(Steps(k), 2, Len(Steps(k)))
        /\ <<"tell", "commit">> = SubSeq(Steps(k), 3, Len(Steps(k)))
        /\ <<"commit">> = SubSeq(Steps(k), 4, Len(Steps(k)))
        /\ <<>> = SubSeq(Steps(k), 5, Len(Steps(k)))
        /\ <<"tell">> = SubSeq(Steps(k), 3, 3)
    BY <1>1, <2>1, OfFour
  <2> QED
    BY <1>2, <1>7, <2>1, <2>2
<1>6. CASE k \in {"cancel", "script"}
  <2>1. /\ Steps(k) = <<"claim", "commit">>
        /\ q \in {<<"claim", "commit">>, <<"commit">>,
                 <<>>}
    BY <1>6 DEF Lefts, Steps
  <2>2. /\ <<"claim", "commit">> = SubSeq(Steps(k), 1, Len(Steps(k)))
        /\ <<"commit">> = SubSeq(Steps(k), 2, Len(Steps(k)))
        /\ <<>> = SubSeq(Steps(k), 3, Len(Steps(k)))
    BY <1>1, <2>1, OfTwo
  <2> QED
    BY <1>2, <1>7, <2>1, <2>2
<1>8. CASE k = "checkout"
  <2>1. /\ Steps(k) = <<"read", "save", "commit">>
        /\ q \in {<<"read", "save", "commit">>, <<"save", "commit">>,
                 <<"commit">>, <<>>}
    BY <1>8 DEF Lefts, Steps
  <2>2. /\ <<"read", "save", "commit">> = SubSeq(Steps(k), 1, Len(Steps(k)))
        /\ <<"save", "commit">> = SubSeq(Steps(k), 2, Len(Steps(k)))
        /\ <<"commit">> = SubSeq(Steps(k), 3, Len(Steps(k)))
        /\ <<>> = SubSeq(Steps(k), 4, Len(Steps(k)))
    BY <1>1, <2>1, OfThree
  <2> QED
    BY <1>2, <1>7, <2>1, <2>2
<1> QED
  BY <1>3, <1>4, <1>5, <1>6, <1>8 DEF AllKinds

(* The changes, the count and the streams have their types (orders-stream.  *)
(* service.ts and its controller), for any number of connections: a stream  *)
(* is open exactly while it is attached to the subject, and while one is,   *)
(* the count is not zero, so that its subject has not been dropped.         *)
THEOREM TypeCorrect == Spec => []TypeOK
<1>1. ASSUME KInv PROVE TypeOK
  <2>1. \A e \in Ends : work[e].kind = None \/ \E n \in 1..5, m \in 0..4 :
             work[e].left = SubSeq(Steps(work[e].kind), n, m)
    <3> SUFFICES ASSUME NEW e \in Ends, work[e].kind # None
                 PROVE  \E n \in 1..5, m \in 0..4 :
                          work[e].left = SubSeq(Steps(work[e].kind), n, m)
      OBVIOUS
    <3>1. work[e].kind \in AllKinds /\ work[e].left \in Lefts(work[e].kind)
      BY <1>1 DEF KInv, IInv, Typed, Change
    <3> QED
      BY <3>1, RestOfChange
  <2>2. Came \subseteq Streams /\ Cardinality(Came) \in Nat
    BY FiniteOf DEF Came
  <2>3. count \in 0..Cardinality(Streams)
    BY <1>1, <2>2, Finite DEF KInv, Sizes
  <2>4. \A s \in Streams :
         /\ stream[s].pc \in {"new", "read", "open", "deaf", "told", "gone"}
         /\ stream[s].pc = "open" <=> s \in ToSet(line)
    BY <1>1, Line DEF Stream
  <2> QED
    BY <1>1, <2>1, <2>3, <2>4 DEF TypeOK, KInv, IInv, Typed, Sizes
<1> QED
  BY <1>1, InvariantK, PTL

(* A stream that ends runs finalize twice, and so cuts off at most one      *)
(* other, whatever order tabs close, ends are told and clients reconnect.   *)
THEOREM OneCutPerClosed == Spec => []OneLostPerClosed
<1>1. ASSUME KInv PROVE OneLostPerClosed
  <2>3. /\ {s \in Streams : stream[s].pc = "deaf"} = Of({"deaf"})
        /\ {s \in Streams : stream[s].pc = "gone"} = Of({"gone"})
    BY DEF Of
  <2> QED
    BY <1>1, <2>3 DEF OneLostPerClosed, KInv, Sizes, Lost
<1> QED
  BY <1>1, InvariantK, PTL
=============================================================================
