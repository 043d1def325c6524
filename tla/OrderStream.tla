----------------------------- MODULE OrderStream -----------------------------
(***************************************************************************)
(* The stream of an order's status: orders-stream.service.ts and           *)
(* orders-stream.controller.ts, with the callers of notify.  Both maps are *)
(* keyed by order and nothing touches two keys: one order is modelled.     *)
(*                                                                         *)
(* A connection reads the order, and only then takes part in the subject.  *)
(* The controller subscribes to `live` twice (in merge and, through        *)
(* terminal, in takeUntil) while subscribe counted it once.                *)
(***************************************************************************)
EXTENDS Naturals, FiniteSets, Sequences, SequencesExt

CONSTANTS
    Streams,   \* connections: a client that reconnects is another one
    Ends,      \* changes of the order's status
    Kinds,     \* which kinds of change the instance has
    MaxReopen  \* bound: reopenings by the reconcile script

Ended == {"PAID", "EXPIRED", "CANCELLED"}
AllKinds == {"payment", "manual", "expiry", "cancel", "script", "checkout"}
ASSUME StreamAssumption ==
    /\ IsFiniteSet(Streams) /\ IsFiniteSet(Ends)
    /\ Kinds \subseteq AllKinds /\ MaxReopen \in Nat

To(kind) == CASE kind \in {"payment", "manual", "script"} -> "PAID"
              [] kind = "expiry" -> "EXPIRED"
              [] kind = "cancel" -> "CANCELLED"
              [] kind = "checkout" -> "PENDING"

(* The statements of a change, notify among them.  A payment through the    *)
(* gateway tells after the commit; a manual confirmation, an expiry and the *)
(* replacement of an order tell inside the transaction; a cancellation by   *)
(* the producer does not tell, and the script is another process.  A        *)
(* checkout saves the order it read PENDING before the gateway answered,    *)
(* its status included, and tells nobody.                                   *)
StepsTold(kind) ==   \* variant: a payment tells inside its transaction too
    CASE kind \in {"payment", "manual"} -> <<"claim", "tell", "commit">>
      [] kind = "expiry" -> <<"read", "save", "tell", "commit">>
      [] kind \in {"cancel", "script"} -> <<"claim", "commit">>
      [] kind = "checkout" -> <<"read", "save", "commit">>
StepsUntold(kind) ==   \* variant: the deferred side effects of a payment are not run
    CASE kind \in {"payment", "cancel", "script"} -> <<"claim", "commit">>
      [] kind = "manual"  -> <<"claim", "tell", "commit">>
      [] kind = "expiry"  -> <<"read", "save", "tell", "commit">>
      [] kind = "checkout" -> <<"read", "save", "commit">>
Steps(kind) ==
    CASE kind = "payment" -> <<"claim", "commit", "tell">>
      [] kind = "manual"  -> <<"claim", "tell", "commit">>
      [] kind = "expiry"  -> <<"read", "save", "tell", "commit">>
      [] kind \in {"cancel", "script"} -> <<"claim", "commit">>
      [] kind = "checkout" -> <<"read", "save", "commit">>

VARIABLES
    status,    \* the committed status
    endedBy,   \* history: the change that wrote it
    work,      \* changes: kind and the statements left
    reopened,  \* reopenings so far
    putBack,   \* history: PENDING again since a change to PAID last committed
    line,      \* the streams attached to the subject, in order
    count,     \* subscribers.get(orderId), 0 when absent
    stream     \* the connections

vars == <<status, endedBy, work, reopened, putBack, line, count, stream>>
rows == <<status, endedBy, work, reopened, putBack>>
maps == <<line, count, stream>>

None == "none"
NewStream == [pc |-> "new", seen |-> None, late |-> {}]
TypeOK ==
    /\ status \in Ended \cup {"PENDING"} /\ endedBy \in Ends \cup {None}
    /\ \A e \in Ends :
         work[e].kind = None \/ \E n \in 1..5, m \in 0..4 :
             work[e].left = SubSeq(Steps(work[e].kind), n, m)
    /\ reopened \in 0..MaxReopen /\ putBack \in BOOLEAN
    /\ count \in 0..Cardinality(Streams)
    /\ \A s \in Streams :
         /\ stream[s].pc \in {"new", "read", "open", "deaf", "told", "gone"}
         /\ stream[s].pc = "open" <=> s \in ToSet(line)
    /\ line # <<>> => count > 0

Init ==
    /\ status = "PENDING" /\ endedBy = None /\ reopened = 0 /\ putBack = FALSE
    /\ work = [e \in Ends |-> [kind |-> None, left |-> <<>>]]
    /\ line = <<>> /\ count = 0
    /\ stream = [s \in Streams |-> NewStream]

----------------------------------------------------------------------------
(* The subject and its count *)

Tag(set, pc) == [s \in Streams |-> IF s \in set THEN [stream[s] EXCEPT !.pc = pc] ELSE stream[s]]

(* finalize runs twice for a stream that ends, once for each subscription.  *)
Finalize(n) == IF n <= 2 THEN 0 ELSE n - 2

(* An open stream ends: if that takes the count to zero the subject         *)
(* completes, and the streams still attached only get the heartbeat.        *)
DetachKept(s) ==   \* variant: the subject is dropped without being completed
    /\ count' = Finalize(count)
    /\ \E i \in DOMAIN line : line[i] = s /\ line' = RemoveAt(line, i)
    /\ stream' = Tag({s}, "gone")
Detach(s) ==
    LET left == Finalize(count) IN
    /\ count' = left
    /\ \E i \in DOMAIN line :
         line[i] = s /\ line' = IF left = 0 THEN <<>> ELSE RemoveAt(line, i)
    /\ stream' = [t \in Streams |->
         [stream[t] EXCEPT !.pc = IF t = s THEN "gone"
                                  ELSE IF left = 0 /\ t \in ToSet(line) THEN "deaf" ELSE @]]

(* notify: takeUntil subscribed its notifier before the source, so each     *)
(* stream completes, in the order of the line, without the message; each    *)
(* completion takes two from the count, and at zero the rest is cut off.    *)
Served == [count  |-> IF count <= 2 * Len(line) THEN 0 ELSE count - 2 * Len(line),
           closed |-> {line[i] : i \in {j \in DOMAIN line : 2 * (j - 1) < count}}]
Notify ==
    /\ count' = Served.count
    /\ line' = <<>>
    /\ stream' = [s \in Streams |->
         [stream[s] EXCEPT !.pc = IF s \in Served.closed THEN "gone"
                                  ELSE IF s \in ToSet(line) THEN "deaf" ELSE @]]

----------------------------------------------------------------------------
(* The controller *)

(* findOne of the order, awaited.                                           *)
Read(s) ==
    /\ stream[s].pc = "new"
    /\ stream' = [stream EXCEPT ![s].pc = "read", ![s].seen = status]
    /\ UNCHANGED <<rows, line, count>>

Told(e) == work[e].kind # None /\ "tell" \notin ToSet(work[e].left)
(* subscribe, then one message and the end if the status read is terminal:  *)
(* live is then never subscribed, so nothing takes back its count.          *)
CountedOnce == IF count = 0 THEN 1 ELSE count   \* variant: only who creates the subject counts
Counted == count + 1
Subscribe(s) ==
    LET end == stream[s].seen \in Ended IN
    /\ stream[s].pc = "read"
    /\ count' = Counted
    /\ line' = IF end THEN line ELSE Append(line, s)
    /\ stream' = [stream EXCEPT ![s].pc = IF end THEN "told" ELSE "open",
                                ![s].late = {e \in Ends : Told(e)}]
    /\ UNCHANGED rows
(* The client closes the tab, or the connection breaks.                     *)
Leave(s) ==
    /\ \/ stream[s].pc = "open" /\ Detach(s)
       \/ stream[s].pc = "deaf" /\ stream' = Tag({s}, "gone") /\ UNCHANGED <<line, count>>
    /\ UNCHANGED rows

----------------------------------------------------------------------------
(* Changes of the status *)

Next1(e) == work' = [work EXCEPT ![e].left = Tail(@)]
At(e, step) == work[e].left # <<>> /\ Head(work[e].left) = step
(* From its claim or save to its commit a change holds the order's row.     *)
Locked == \E e \in Ends :
    "commit" \in ToSet(work[e].left) /\ Head(work[e].left) \in {"tell", "commit"}

Begin(e) ==
    /\ work[e].kind = None
    /\ \E kind \in Kinds : work' = [work EXCEPT ![e] = [kind |-> kind, left |-> Steps(kind)]]
    /\ UNCHANGED <<status, endedBy, reopened, putBack, maps>>
(* The conditional UPDATE, or the checks under FOR UPDATE.                  *)
Claim(e) ==
    /\ At(e, "claim") /\ ~Locked /\ status = "PENDING"
    /\ Next1(e) /\ UNCHANGED <<status, endedBy, reopened, putBack, maps>>
(* expireIfStale and checkout: an unlocked read, and later a save.          *)
ReadFresh(e) ==
    /\ At(e, "read") /\ status = "PENDING"
    /\ Next1(e) /\ UNCHANGED <<status, endedBy, reopened, putBack, maps>>
(* The save reads the row again and writes what differs from the entity,    *)
(* whatever the row has become; if the status does not, it writes and locks *)
(* nothing here.  (A change between the two statements of the save comes to *)
(* the same as one before the first or after the second.)                   *)
Save(e) ==
    LET differs == status # To(work[e].kind) IN
    /\ At(e, "save") /\ (differs => ~Locked)
    /\ work' = [work EXCEPT ![e].left = IF differs THEN Tail(@) ELSE Front(Tail(@))]
    /\ UNCHANGED <<status, endedBy, reopened, putBack, maps>>
Commit(e) ==
    LET to == To(work[e].kind) IN
    /\ At(e, "commit")
    /\ status' = to
    /\ endedBy' = IF to = "PENDING" THEN None ELSE e
    /\ putBack' = (to = "PENDING" \/ (to # "PAID" /\ putBack))
    /\ Next1(e) /\ UNCHANGED <<reopened, maps>>
Tell(e) == At(e, "tell") /\ Notify /\ Next1(e) /\ UNCHANGED <<status, endedBy, reopened, putBack>>
(* The transaction fails, perhaps after it has told: a create that replaced *)
(* the order finds no room, the confirmation's e-mail outlasts the session. *)
Rollback(e) ==
    /\ "commit" \in ToSet(work[e].left)
    /\ work' = [work EXCEPT ![e] = [kind |-> None, left |-> <<>>]]
    /\ UNCHANGED <<status, endedBy, reopened, putBack, maps>>
(* The script puts an expired order back.                                   *)
Reopen ==
    /\ "script" \in Kinds /\ status = "EXPIRED" /\ ~Locked /\ reopened < MaxReopen
    /\ status' = "PENDING" /\ endedBy' = None
    /\ reopened' = reopened + 1 /\ putBack' = TRUE
    /\ UNCHANGED <<work, maps>>

(* onModuleDestroy, or a crash: the maps and the connections are gone, and  *)
(* what was committed may be left untold.                                   *)
Restart ==
    /\ work' = [e \in Ends |->
         IF "commit" \in ToSet(work[e].left)
         THEN [kind |-> None, left |-> <<>>] ELSE [work[e] EXCEPT !.left = <<>>]]
    /\ line' = <<>> /\ count' = 0
    /\ stream' = Tag({s \in Streams : stream[s].pc \in {"read", "open", "deaf"}}, "gone")
    /\ UNCHANGED <<status, endedBy, reopened, putBack>>

Next ==
    \/ \E s \in Streams : Read(s) \/ Subscribe(s) \/ Leave(s)
    \/ \E e \in Ends :
         \/ Begin(e) \/ Claim(e) \/ ReadFresh(e) \/ Save(e)
         \/ Commit(e) \/ Tell(e) \/ Rollback(e)
    \/ Reopen \/ Restart
Spec == Init /\ [][Next]_vars

----------------------------------------------------------------------------
(* Properties *)

Silent(e) == work[e].kind \in {"cancel", "script", "checkout"}
(* A stream that is still attached although the order has ended was         *)
(* subscribed after the end was told (its read came before the commit), or  *)
(* the end was one that tells nobody.                                       *)
EndIsHeard ==
    \A s \in ToSet(line) :
        status \in Ended =>
            Silent(endedBy) \/ ~Told(endedBy) \/ endedBy \in stream[s].late

(* A tab that closes, or is closed by an end, cuts off at most one other:   *)
(* the second finalize is the only one too many.                            *)
OneLostPerClosed ==
    Cardinality({s \in Streams : stream[s].pc = "deaf"})
        <= Cardinality({s \in Streams : stream[s].pc = "gone"})

(* Once a payment through the gateway has been told, nobody can read the    *)
(* order as PENDING, whatever rolled back and whichever expiry overwrote    *)
(* it, until it is put back: by the script, or by a checkout that read it   *)
(* before it was paid and saves it after.  A client closed by notify learns *)
(* the end from the first message of its next connection otherwise, and     *)
(* does again once the order that was put back is paid.                     *)
ToldPaymentIsCommitted ==
    (\E e \in Ends : work[e].kind = "payment" /\ Told(e)) /\ ~putBack
        => status # "PENDING"
=============================================================================
