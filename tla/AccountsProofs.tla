---------------------------- MODULE AccountsProofs ----------------------------
(***************************************************************************)
(* Proofs about Accounts, for any number of requests in progress, of links *)
(* and of passwords: its type invariant, and its five safety properties.   *)
(*                                                                         *)
(* The inductive invariant adds to the types: what a request in progress   *)
(* knows of the row (Started), that a consumed link has one holder and was *)
(* not used before (Held), that who is about to insert an exclusive link   *)
(* sees none (Alone), and that who is about to write a version has read    *)
(* the present one (Current).                                              *)
(***************************************************************************)
EXTENDS Accounts, TLAPS

USE DEF User

(* The statements after the first read of an existing row. *)
Started ==
    /\ \A w \in Workers : work[w].pc \notin {"idle", "create"} => user.exists
    /\ \A t \in Tokens : token[t].state = "valid" => user.exists
    /\ \A w \in Workers :
         (work[w].pc = "create" /\ work[w].kind = "register")
           \/ (work[w].pc \in {"write", "reread"} /\ work[w].kind # "logout")
         => work[w].pw \in Passwords

Held ==
    /\ \A t \in Tokens : opened[t] # 0 => opened[t] = 1 /\ token[t].state = "used"
    /\ \A w \in Workers : work[w].token # NoToken => opened[work[w].token] = 0
    /\ \A v, w \in Workers :
         work[v].token = work[w].token /\ work[v].token # NoToken => v = w

Alone ==
    "issue" \notin crossed =>
        \A w \in Workers, t \in Tokens :
            work[w].pc = "insert" /\ work[w].purpose \in Exclusive
              => ~(token[t].state = "valid" /\ token[t].purpose = work[w].purpose)

Current ==
    "version" \notin crossed =>
        /\ \A s \in session : s.tv <= user.tv
        /\ \A w \in Workers :
             /\ work[w].pc = "write" => work[w].tv = user.tv
             /\ work[w].pc = "write" /\ work[w].kind = "claim" => user.password = None
             /\ work[w].pc = "reread" /\ work[w].kind # "logout" => user.password = work[w].pw

IInv ==
    /\ TypeOK /\ Started /\ Held
    /\ Alone /\ OneExclusiveLink
    /\ Current /\ SessionsMatchPassword

(* A step of one request that writes nothing but what the request knows:    *)
(* r is what it knows afterwards.                                           *)
Quiet(w, r) ==
    /\ r \in Request /\ work' = [work EXCEPT ![w] = r]
    /\ r.token \in {NoToken, work[w].token}
    /\ r.pc \notin {"idle", "create"} => user.exists
    /\ (r.pc = "create" /\ r.kind = "register") \/ (r.pc = "write" /\ r.kind # "logout")
         => r.pw \in Passwords
    /\ r.pc = "insert" => r.purpose \notin Exclusive
    /\ r.pc = "write" => r.tv = user.tv
    /\ r.pc = "write" /\ r.kind = "claim" => user.password = None
    /\ r.pc # "reread"
    /\ UNCHANGED <<user, token, session, opened, crossed>>

(* Init has no account, no session, no link and no request in progress. *)
LEMMA InitInv == Init => IInv
BY AccountsAssumption
   DEF Init, IInv, TypeOK, Started, Held, Alone, OneExclusiveLink, Current, SessionsMatchPassword,
       Idle, Request, Kinds, Steps, Versions, None

----------------------------------------------------------------------------
(* Quiet steps *)

(* A quiet step keeps the invariant. *)
LEMMA QuietInv == ASSUME IInv, NEW w \in Workers, NEW r, Quiet(w, r) PROVE IInv'
<1>1. TypeOK'
  BY AccountsAssumption DEF IInv, Quiet, TypeOK
<1>2. Started'
  BY DEF IInv, Quiet, TypeOK, Started
<1>3. Held'
  BY DEF IInv, Quiet, TypeOK, Held
<1>4. Alone' /\ OneExclusiveLink'
  BY DEF IInv, Quiet, TypeOK, Alone, OneExclusiveLink
<1>5. Current' /\ SessionsMatchPassword'
  BY DEF IInv, Quiet, TypeOK, Current, SessionsMatchPassword, Accepted
<1> QED
  BY <1>1, <1>2, <1>3, <1>4, <1>5 DEF IInv

(* The request that knows nothing is a request. *)
LEMMA IdleType == Idle \in Request /\ Idle.pc = "idle" /\ Idle.token = NoToken
BY AccountsAssumption DEF Idle, Request, Kinds, Steps, Versions

(* Which steps are quiet. *)
LEMMA QuietSteps ==
    ASSUME IInv, NEW w \in Workers,
           \/ Register(w) \/ Sell(w) \/ AskLink(w) \/ Load(w) \/ Change(w) \/ Logout(w) \/ Die(w)
    PROVE  \E r : Quiet(w, r)
<1> USE IdleType, AccountsAssumption
<1>1. CASE Register(w)
  <2>1. PICK kind \in {"register", "producer"}, p \in Passwords :
          work' = [work EXCEPT ![w] = [Idle EXCEPT !.kind = kind, !.pc = "create", !.pw = p]]
    BY <1>1 DEF Register
  <2> DEFINE r == [Idle EXCEPT !.kind = kind, !.pc = "create", !.pw = p]
  <2>2. Quiet(w, r)
    BY <1>1, <2>1 DEF Register, Quiet, Idle, Request, Kinds, Steps, history
  <2> QED
    BY <2>2
<1>2. CASE Sell(w)
  <2>1. CASE Start(w, "sell", "create")
    <3>1. Quiet(w, [Idle EXCEPT !.kind = "sell", !.pc = "create"])
      BY <1>2, <2>1 DEF Sell, Start, Quiet, Idle, Request, Kinds, Steps, history
    <3> QED
      BY <3>1
  <2>2. CASE Ghost /\ work' = [work EXCEPT ![w] = [Idle EXCEPT !.kind = "sell", !.pc = "revoke",
                                                             !.purpose = "CLAIM"]]
    <3>1. Quiet(w, [Idle EXCEPT !.kind = "sell", !.pc = "revoke", !.purpose = "CLAIM"])
      BY <1>2, <2>2 DEF Sell, Ghost, Quiet, Idle, Request, Kinds, Steps, Purposes, history
    <3> QED
      BY <3>1
  <2> QED
    BY <1>2, <2>1, <2>2 DEF Sell
<1>3. CASE AskLink(w)
  <2>1. PICK magic \in BOOLEAN : work' = [work EXCEPT ![w] = [Idle EXCEPT !.kind = "ask",
          !.pc = IF magic THEN "insert" ELSE "revoke",
          !.purpose = IF magic THEN "MAGIC_LINK" ELSE IF Ghost THEN "CLAIM" ELSE "PASSWORD_RESET"]]
    BY <1>3 DEF AskLink
  <2> DEFINE r == [Idle EXCEPT !.kind = "ask",
          !.pc = IF magic THEN "insert" ELSE "revoke",
          !.purpose = IF magic THEN "MAGIC_LINK" ELSE IF Ghost THEN "CLAIM" ELSE "PASSWORD_RESET"]
  <2>2. Quiet(w, r)
    BY <1>3, <2>1 DEF AskLink, Quiet, Idle, Request, Kinds, Steps, Purposes, Exclusive, history
  <2> QED
    BY <2>2
<1>4. CASE Load(w)
  <2>1. CASE work[w].kind = "claim" /\ End(w)
    <3>1. Quiet(w, Idle)
      BY <1>4, <2>1 DEF Load, End, Quiet, history
    <3> QED
      BY <3>1
  <2>2. ASSUME NEW p \in Passwords,
               work[w].kind = "reset" \/ (work[w].kind = "claim" /\ Claimable),
               Read(w, [work[w] EXCEPT !.pw = p])
        PROVE  \E r : Quiet(w, r)
    <3> DEFINE r == [[work[w] EXCEPT !.pw = p] EXCEPT !.pc = "write", !.tv = user.tv]
    <3>1. work[w] \in Request /\ user.tv \in Versions
      BY DEF IInv, TypeOK
    <3>2. r \in Request /\ r.token = work[w].token /\ r.kind = work[w].kind /\ r.pc = "write"
           /\ r.tv = user.tv /\ r.pw = p
      BY <3>1 DEF Request, Steps
    <3>3. user.exists
      BY <1>4 DEF Load, IInv, Started
    <3>4. Quiet(w, r)
      BY <1>4, <2>2, <3>2, <3>3 DEF Load, Read, Claimable, Quiet, history
    <3> QED
      BY <3>4
  <2> QED
    BY <1>4, <2>1, <2>2 DEF Load
<1>5. CASE Change(w)
  <2>1. PICK p \in Passwords : Read(w, [Idle EXCEPT !.kind = "change", !.pw = p])
    BY <1>5 DEF Change
  <2> DEFINE r == [[Idle EXCEPT !.kind = "change", !.pw = p] EXCEPT !.pc = "write", !.tv = user.tv]
  <2>2. user.exists /\ user.tv \in Versions
    BY <1>5 DEF Change, IInv, TypeOK
  <2>3. r \in Request /\ r.token = NoToken /\ r.kind = "change" /\ r.pc = "write"
         /\ r.tv = user.tv /\ r.pw = p
    BY <2>2 DEF Idle, Request, Kinds, Steps
  <2>4. Quiet(w, r)
    BY <1>5, <2>1, <2>2, <2>3 DEF Change, Read, Quiet, history
  <2> QED
    BY <2>4
<1>6. CASE Logout(w)
  <2> DEFINE r == [[Idle EXCEPT !.kind = "logout"] EXCEPT !.pc = "write", !.tv = user.tv]
  <2>2. user.exists /\ user.tv \in Versions
    BY <1>6 DEF Logout, IInv, TypeOK
  <2>3. r \in Request /\ r.token = NoToken /\ r.kind = "logout" /\ r.pc = "write"
         /\ r.tv = user.tv
    BY <2>2 DEF Idle, Request, Kinds, Steps
  <2>4. Quiet(w, r)
    BY <1>6, <2>2, <2>3 DEF Logout, Read, Quiet, history
  <2> QED
    BY <2>4
<1>7. CASE Die(w)
  <2>1. Quiet(w, Idle)
    BY <1>7 DEF Die, End, Quiet, history
  <2> QED
    BY <2>1
<1> QED
  BY <1>1, <1>2, <1>3, <1>4, <1>5, <1>6, <1>7

----------------------------------------------------------------------------
(* The other steps *)

(* Creating the account: one of two requests passes the unique index. *)
LEMMA CreateUserInv == ASSUME IInv, NEW w \in Workers, CreateUser(w) PROVE IInv'
<1> USE IdleType, AccountsAssumption
<1>1. CASE Taken
  <2>1. Quiet(w, Idle)
    BY <1>1 DEF CreateUser, End, Quiet, history
  <2> QED
    BY <2>1, QuietInv
<1>2. CASE ~Taken
  <2> DEFINE r == IF work[w].kind = "sell"
                  THEN [work[w] EXCEPT !.pc = "revoke", !.purpose = "CLAIM"] ELSE Idle
  <2>1. /\ ~user.exists /\ session = {} /\ work[w] \in Request /\ work[w].pc = "create"
        /\ work[w].kind = "register" => work[w].pw \in Passwords
    BY <1>2 DEF CreateUser, Taken, IInv, TypeOK, Started
  <2>2. \A v \in Workers : work[v].pc \in {"idle", "create"}
    BY <2>1 DEF IInv, Started
  <2>3. /\ r \in Request /\ r.pc \in {"idle", "revoke"}
        /\ r.token \in {NoToken, work[w].token}
    BY <2>1 DEF Request, Steps, Purposes
  <2>4. /\ user' = [exists |-> TRUE, password |-> work[w].pw, tv |-> 0]
        /\ session' = IF work[w].kind = "register" THEN {[tv |-> 0, by |-> work[w].pw]} ELSE {}
        /\ work' = [work EXCEPT ![w] = r]
        /\ UNCHANGED <<token, opened, crossed>>
    BY <1>2, <2>1 DEF CreateUser, End, history
  <2> HIDE DEF r
  <2>5. work[w].pw \in Passwords \cup {None}
    BY <2>1 DEF Request
  <2>6. TypeOK'
    BY <2>1, <2>3, <2>4, <2>5 DEF IInv, TypeOK, Versions
  <2>7. Started' /\ Held'
    BY <2>2, <2>3, <2>4 DEF IInv, TypeOK, Started, Held
  <2>8. Alone' /\ OneExclusiveLink'
    BY <2>2, <2>3, <2>4 DEF IInv, TypeOK, Alone, OneExclusiveLink
  <2>9. Current' /\ SessionsMatchPassword'
    BY <2>2, <2>3, <2>4 DEF IInv, TypeOK, Current, SessionsMatchPassword, Accepted
  <2> QED
    BY <2>6, <2>7, <2>8, <2>9 DEF IInv
<1> QED
  BY <1>1, <1>2

(* Revoking leaves no valid link of its purpose. *)
LEMMA RevokeInv == ASSUME IInv, NEW w \in Workers, Revoke(w) PROVE IInv'
<1> DEFINE r == [work[w] EXCEPT !.pc = "insert"]
<1>1. /\ work[w].pc = "revoke" /\ work[w] \in Request /\ user.exists
      /\ r \in Request /\ r.pc = "insert"
      /\ r.token = work[w].token /\ r.purpose = work[w].purpose
  BY DEF Revoke, IInv, TypeOK, Started, Request, Steps
<1>2. token' \in [Tokens -> [state: {None, "valid", "used", "expired"}, purpose: Purposes \cup {None}]]
  BY DEF Revoke, Revoked, IInv, TypeOK
<1>3. \A t \in Tokens : /\ token'[t].purpose = token[t].purpose
                        /\ token[t].state = "used" => token'[t].state = "used"
                        /\ token'[t].state = "valid" => token[t].state = "valid"
                        /\ token'[t].state = "valid" => token[t].purpose # work[w].purpose
  BY DEF Revoke, Revoked, IInv, TypeOK
<1>4. /\ work' = [work EXCEPT ![w] = r]
      /\ UNCHANGED <<user, session, opened, crossed>>
  BY <1>1 DEF Revoke, history, IInv, TypeOK
<1> HIDE DEF r
<1>5. TypeOK'
  <2>1. /\ work' \in [Workers -> Request]
        /\ \A v \in Workers : work'[v].token = work[v].token
    BY <1>1, <1>4 DEF IInv, TypeOK
  <2>2. \A v \in Workers : work[v].token \in Tokens \cup {NoToken}
    BY DEF IInv, TypeOK, Request
  <2>3. \A v \in Workers : work'[v].token # NoToken => token'[work'[v].token].state = "used"
    BY <1>3, <2>1, <2>2 DEF IInv, TypeOK
  <2> QED
    BY <1>2, <1>4, <2>1, <2>3 DEF IInv, TypeOK
<1>6. Started'
  BY <1>1, <1>3, <1>4 DEF IInv, TypeOK, Started
<1>7. Held'
  BY <1>1, <1>3, <1>4 DEF IInv, TypeOK, Held
<1>8. Alone'
  BY <1>1, <1>3, <1>4 DEF IInv, TypeOK, Alone
<1>9. OneExclusiveLink'
  BY <1>3, <1>4 DEF IInv, OneExclusiveLink
<1>10. Current' /\ SessionsMatchPassword'
  BY <1>1, <1>4 DEF IInv, TypeOK, Current, SessionsMatchPassword, Accepted
<1> QED
  BY <1>5, <1>6, <1>7, <1>8, <1>9, <1>10 DEF IInv

(* Inserting is alone at it, or the issues have crossed. *)
LEMMA InsertInv == ASSUME IInv, NEW w \in Workers, Insert(w) PROVE IInv'
<1> USE IdleType, AccountsAssumption
<1>1. PICK t \in Tokens :
        /\ token[t].state = None
        /\ token' = [token EXCEPT ![t] = [state |-> "valid", purpose |-> work[w].purpose]]
  BY DEF Insert
<1>2. /\ work[w].pc = "insert" /\ work[w] \in Request /\ user.exists
      /\ work' = [work EXCEPT ![w] = Idle] /\ UNCHANGED <<user, session, opened>>
      /\ crossed' \in {crossed, crossed \cup {"issue"}}
      /\ "issue" \notin crossed' => \A v \in Workers \ {w} :
           ~(work[v].pc = "insert" /\ work[v].purpose = work[w].purpose)
  BY DEF Insert, End, IInv, TypeOK, Started
<1>3. work[w].purpose \in Purposes \cup {None}
  BY <1>2 DEF Request
<1>4. TypeOK'
  BY <1>1, <1>2, <1>3 DEF IInv, TypeOK, None
<1>5. Started' /\ Held'
  BY <1>1, <1>2 DEF IInv, TypeOK, Started, Held, None
<1>6. Alone' /\ OneExclusiveLink'
  BY <1>1, <1>2 DEF IInv, TypeOK, Alone, OneExclusiveLink
<1>7. Current' /\ SessionsMatchPassword'
  BY <1>2 DEF IInv, TypeOK, Current, SessionsMatchPassword, Accepted
<1> QED
  BY <1>4, <1>5, <1>6, <1>7 DEF IInv

(* Consuming is one conditional UPDATE: the link has a single holder. *)
LEMMA ConsumeInv == ASSUME IInv, NEW w \in Workers, NEW t \in Tokens, Consume(w, t) PROVE IInv'
<1> DEFINE r == [Idle EXCEPT !.kind = KindOf(token[t].purpose), !.pc = "load", !.token = t]
<1>1. r \in Request /\ r.pc = "load" /\ r.token = t
  BY IdleType DEF Idle, Request, Kinds, Steps, KindOf
<1>2. /\ token[t].state = "valid" /\ user.exists /\ opened[t] = 0
      /\ work' = [work EXCEPT ![w] = r]
      /\ token' = [token EXCEPT ![t].state = "used"]
      /\ UNCHANGED <<user, session, opened, crossed>>
  BY DEF Consume, Consumable, Spent, history, IInv, Started, Held
<1>3. \A v \in Workers : work[v].token # t
  BY <1>2, AccountsAssumption DEF IInv, TypeOK
<1> HIDE DEF r
<1>4. TypeOK'
  BY <1>1, <1>2, AccountsAssumption DEF IInv, TypeOK
<1>5. Started' /\ Held'
  BY <1>1, <1>2, <1>3, AccountsAssumption DEF IInv, TypeOK, Started, Held
<1>6. Alone' /\ OneExclusiveLink'
  BY <1>1, <1>2 DEF IInv, TypeOK, Alone, OneExclusiveLink
<1>7. Current' /\ SessionsMatchPassword'
  BY <1>1, <1>2 DEF IInv, TypeOK, Current, SessionsMatchPassword, Accepted
<1> QED
  BY <1>4, <1>5, <1>6, <1>7 DEF IInv

(* A session is opened with the version and, if it carries one, with the    *)
(* password of the row; the link it was opened with is let go.              *)
LEMMA OpenInv ==
    ASSUME IInv, NEW w \in Workers, user.exists, NEW by \in Passwords \cup {Link},
           "version" \notin crossed => by = Link \/ by = user.password,
           Open(w, user.tv, by), UNCHANGED <<user, token, crossed>>
    PROVE  IInv'
<1> USE IdleType, AccountsAssumption
<1>1. /\ work' = [work EXCEPT ![w] = Idle]
      /\ session' = session \cup {[tv |-> user.tv, by |-> by]}
      /\ user.tv \in Versions
  BY DEF Open, End, IInv, TypeOK
<1>2. work[w].token \in Tokens \cup {NoToken}
  BY DEF IInv, TypeOK, Request
<1>3. /\ opened' \in [Tokens -> Nat]
      /\ \A t \in Tokens : \/ opened'[t] = opened[t]
                           \/ t = work[w].token /\ opened'[t] = 1 /\ token[t].state = "used"
  <2> DEFINE k == work[w].token
  <2>1. opened \in [Tokens -> Nat]
    BY DEF IInv, TypeOK
  <2>2. CASE k = NoToken
    BY <2>1, <2>2 DEF Open
  <2>3. CASE k # NoToken
    <3>1. opened' = [opened EXCEPT ![k] = @ + 1] /\ k \in Tokens /\ opened[k] = 0
           /\ token[k].state = "used"
      BY <1>2, <2>3 DEF Open, IInv, TypeOK, Held
    <3> HIDE DEF k
    <3>2. opened' \in [Tokens -> Nat] /\ opened'[k] = 1
           /\ \A t \in Tokens : t # k => opened'[t] = opened[t]
      BY <2>1, <3>1
    <3> QED
      BY <3>1, <3>2 DEF k
  <2> QED
    BY <2>2, <2>3
<1>4. TypeOK'
  BY <1>1, <1>3 DEF IInv, TypeOK
<1>5. Started'
  BY <1>1 DEF IInv, TypeOK, Started
<1>6. Held'
  <2>1. \A v \in Workers : /\ work'[v].token # NoToken => v # w /\ work'[v].token = work[v].token
                           /\ work'[v].token \in Tokens \cup {NoToken}
    BY <1>1, <1>4 DEF IInv, TypeOK, Request
  <2>2. \A t \in Tokens : opened'[t] # 0 => opened'[t] = 1 /\ token'[t].state = "used"
    BY <1>3 DEF IInv, Held
  <2>3. \A v \in Workers : work'[v].token # NoToken => work'[v].token # work[w].token
    BY <2>1 DEF IInv, Held
  <2>4. \A v \in Workers : work'[v].token # NoToken => opened'[work'[v].token] = 0
    BY <1>3, <2>1, <2>3 DEF IInv, Held
  <2>5. \A u, v \in Workers : work'[u].token = work'[v].token /\ work'[u].token # NoToken => u = v
    BY <2>1 DEF IInv, Held
  <2> QED
    BY <2>2, <2>4, <2>5 DEF Held
<1>7. Alone' /\ OneExclusiveLink'
  BY <1>1 DEF IInv, TypeOK, Alone, OneExclusiveLink
<1>8. user.tv <= user.tv
  BY <1>1 DEF Versions
<1>9. Current' /\ SessionsMatchPassword'
  BY <1>1, <1>8 DEF IInv, TypeOK, Current, SessionsMatchPassword, Accepted
<1> QED
  BY <1>4, <1>5, <1>6, <1>7, <1>9 DEF IInv

(* A new version: no session that was accepted before has it, unless the    *)
(* updates have crossed.                                                    *)
LEMMA WriteInv ==
    ASSUME IInv, NEW w \in Workers, Write(w)
    PROVE  /\ IInv'
           /\ "version" \notin crossed' =>
                /\ \A s \in session : s.tv <= user.tv
                /\ user'.tv = user.tv + 1
                /\ work[w].kind = "claim" => user.password = None
<1> DEFINE r == [work[w] EXCEPT !.pc = "reread"]
<1>1. /\ work[w].pc = "write" /\ work[w] \in Request /\ user.exists /\ work[w].tv < MaxVersion
      /\ work[w].kind # "logout" => work[w].pw \in Passwords
  BY DEF Write, IInv, TypeOK, Started
<1>2. /\ r \in Request /\ r.pc = "reread" /\ r.kind = work[w].kind /\ r.pw = work[w].pw
      /\ r.token = work[w].token
  BY <1>1 DEF Request, Steps
<1>3. /\ work' = [work EXCEPT ![w] = r] /\ UNCHANGED <<token, session, opened>>
      /\ crossed' \in {crossed, crossed \cup {"version"}}
      /\ "version" \notin crossed' =>
           \A v \in Workers \ {w} : work[v].pc \notin {"write", "reread"}
  BY <1>1 DEF Write, IInv, TypeOK
<1>4. /\ user' \in [exists: BOOLEAN, password: Passwords \cup {None}, tv: Versions]
      /\ user'.exists /\ user'.tv = work[w].tv + 1
      /\ work[w].kind # "logout" => user'.password = work[w].pw
  <2>1. work[w].tv \in Versions /\ work[w].tv + 1 \in Versions /\ work[w].pw \in Passwords \cup {None}
    BY <1>1, AccountsAssumption DEF Request, Versions
  <2>2. user \in [exists: BOOLEAN, password: Passwords \cup {None}, tv: Versions]
    BY DEF IInv, TypeOK
  <2>3. user' = [user EXCEPT !.tv = work[w].tv + 1,
                             !.password = IF work[w].kind = "logout" THEN @ ELSE work[w].pw]
    BY DEF Write, NewVersion
  <2> QED
    BY <1>1, <2>1, <2>2, <2>3
<1> HIDE DEF r
<1>5. TypeOK'
  <2>1. /\ work' \in [Workers -> Request]
        /\ \A v \in Workers : work'[v].token = work[v].token
    BY <1>2, <1>3 DEF IInv, TypeOK
  <2> QED
    BY <1>3, <1>4, <2>1 DEF IInv, TypeOK
<1>6. Started'
  BY <1>1, <1>2, <1>3, <1>4 DEF IInv, TypeOK, Started
<1>7. Held'
  BY <1>2, <1>3 DEF IInv, TypeOK, Held
<1>8. Alone' /\ OneExclusiveLink'
  BY <1>2, <1>3 DEF IInv, TypeOK, Alone, OneExclusiveLink
<1>9. "version" \notin crossed' =>
         /\ user'.tv = user.tv + 1
         /\ \A s \in session : s.tv <= user.tv /\ s.tv <= user'.tv /\ s.tv # user'.tv
         /\ work[w].kind = "claim" => user.password = None
  <2> SUFFICES ASSUME "version" \notin crossed'
               PROVE  /\ user'.tv = user.tv + 1
                      /\ \A s \in session : s.tv <= user.tv /\ s.tv <= user'.tv /\ s.tv # user'.tv
                      /\ work[w].kind = "claim" => user.password = None
    OBVIOUS
  <2>1. "version" \notin crossed
    BY <1>3
  <2>2. user.tv = work[w].tv /\ work[w].kind = "claim" => user.password = None
    BY <1>1, <2>1 DEF IInv, Current
  <2>3. \A s \in session : s.tv <= user.tv
    BY <2>1 DEF IInv, Current
  <2>4. user.tv \in Nat /\ \A s \in session : s.tv \in Nat
    BY DEF IInv, TypeOK, Versions
  <2>5. user.tv = work[w].tv
    BY <1>1, <2>1 DEF IInv, Current
  <2>6. user'.tv = user.tv + 1
    BY <1>4, <2>5
  <2> QED
    BY <2>2, <2>3, <2>4, <2>5, <2>6
<1>10. Current'
  BY <1>2, <1>3, <1>4, <1>9 DEF IInv, TypeOK, Current
<1>11. SessionsMatchPassword'
  BY <1>3, <1>9 DEF SessionsMatchPassword, Accepted
<1> QED
  BY <1>5, <1>6, <1>7, <1>8, <1>9, <1>10, <1>11 DEF IInv

(* The steps that open a session, and those of nobody in particular. *)
LEMMA OpenMagicInv == ASSUME IInv, NEW w \in Workers, OpenMagic(w) PROVE IInv'
BY OpenInv DEF OpenMagic, IInv, Started

LEMMA RereadInv == ASSUME IInv, NEW w \in Workers, Reread(w) PROVE IInv'
<1>1. work[w].pc = "reread" /\ user.exists
  BY DEF Reread, IInv, Started
<1>2. CASE work[w].kind = "logout"
  <2>1. Quiet(w, Idle)
    BY <1>2, IdleType DEF Reread, End, Quiet
  <2> QED
    BY <2>1, QuietInv
<1>3. CASE work[w].kind # "logout"
  <2>1. work[w].pw \in Passwords /\ "version" \notin crossed => work[w].pw = user.password
    BY <1>1, <1>3 DEF IInv, Started, Current
  <2>2. work[w].pw \in Passwords
    BY <1>1, <1>3 DEF IInv, Started
  <2> QED
    BY <1>1, <1>3, <2>1, <2>2, OpenInv DEF Reread
<1> QED
  BY <1>2, <1>3

LEMMA LoginInv == ASSUME IInv, NEW p \in Passwords, Login(p) PROVE IInv'
<1>1. /\ user.exists /\ user.password = p /\ user.tv \in Versions /\ user.tv <= user.tv
      /\ session' = session \cup {[tv |-> user.tv, by |-> p]}
      /\ UNCHANGED <<user, token, work, opened, crossed>>
  BY DEF Login, history, IInv, TypeOK, Versions
<1>2. TypeOK'
  BY <1>1 DEF IInv, TypeOK
<1>3. Started' /\ Held' /\ Alone' /\ OneExclusiveLink'
  BY <1>1 DEF IInv, Started, Held, Alone, OneExclusiveLink
<1>4. Current' /\ SessionsMatchPassword'
  BY <1>1 DEF IInv, Current, SessionsMatchPassword, Accepted
<1> QED
  BY <1>2, <1>3, <1>4 DEF IInv

LEMMA ExpireInv == ASSUME IInv, NEW t \in Tokens, Expire(t) PROVE IInv'
<1>1. /\ token[t].state = "valid" /\ token' = [token EXCEPT ![t].state = "expired"]
      /\ UNCHANGED <<user, session, work, opened, crossed>>
  BY DEF Expire, history
<1>2. TypeOK'
  BY <1>1 DEF IInv, TypeOK
<1>3. Started' /\ Held' /\ Alone' /\ OneExclusiveLink'
  BY <1>1 DEF IInv, TypeOK, Started, Held, Alone, OneExclusiveLink
<1>4. Current' /\ SessionsMatchPassword'
  BY <1>1 DEF IInv, Current, SessionsMatchPassword, Accepted
<1> QED
  BY <1>2, <1>3, <1>4 DEF IInv

LEMMA StutterInv == ASSUME IInv, UNCHANGED vars PROVE IInv'
BY DEF vars, history, IInv, TypeOK, Started, Held, Alone, OneExclusiveLink, Current,
       SessionsMatchPassword, Accepted

LEMMA NextInv == IInv /\ [Next]_vars => IInv'
<1> SUFFICES ASSUME IInv, [Next]_vars PROVE IInv'
  OBVIOUS
<1>1. ASSUME NEW w \in Workers,
             \/ Register(w) \/ Sell(w) \/ AskLink(w) \/ Load(w) \/ Change(w) \/ Logout(w) \/ Die(w)
      PROVE  IInv'
  BY <1>1, QuietSteps, QuietInv
<1> QED
  BY <1>1, CreateUserInv, RevokeInv, InsertInv, ConsumeInv, OpenMagicInv, WriteInv, RereadInv,
     LoginInv, ExpireInv, StutterInv DEF Next

----------------------------------------------------------------------------
(* Theorems *)

THEOREM Invariant == Spec => []IInv
BY InitInv, NextInv, PTL DEF Spec

(* Every row, link, session and request has its type; a link that a request *)
(* holds is marked as used (consume marks it before anything else is done). *)
THEOREM TypeCorrect == Spec => []TypeOK
<1>1. IInv => TypeOK
  BY DEF IInv
<1> QED
  BY <1>1, Invariant, PTL

(* consume's conditional UPDATE lets a link open one session, however many  *)
(* requests bring it, and wherever they die.                                *)
THEOREM LinkIsGoodOnce == Spec => []LinkOpensOneSession
<1>1. IInv => LinkOpensOneSession
  BY DEF IInv, TypeOK, Held, LinkOpensOneSession
<1> QED
  BY <1>1, Invariant, PTL

(* issueExclusive leaves one valid link to claim and one to reset, as long  *)
(* as no two issues of one purpose interleave.                              *)
THEOREM ExclusiveLinks == Spec => []OneExclusiveLink
<1>1. IInv => OneExclusiveLink
  BY DEF IInv
<1> QED
  BY <1>1, Invariant, PTL

(* A session opened with a password refreshes only while that is the        *)
(* password, as long as no two updates of tokenVersion overlap.             *)
THEOREM PasswordsGovern == Spec => []SessionsMatchPassword
<1>1. IInv => SessionsMatchPassword
  BY DEF IInv
<1> QED
  BY <1>1, Invariant, PTL

(* What the steps other than Write leave alone. *)
LEMMA OnlyWriteWrites ==
    ASSUME IInv, [Next]_vars, ~\E w \in Workers : Write(w)
    PROVE  /\ session # {} => user' = user
           /\ \A w \in Workers : work[w].pc = "write" => work'[w].pc # "reread"
<1>1. session # {} => user.exists
  BY DEF IInv, TypeOK
<1>2. ASSUME NEW v \in Workers,
             \/ Register(v) \/ Sell(v) \/ AskLink(v) \/ Load(v) \/ Change(v) \/ Logout(v) \/ Die(v)
      PROVE  /\ user' = user
             /\ \A w \in Workers : work[w].pc = "write" => work'[w].pc # "reread"
  <2>1. PICK r : Quiet(v, r)
    BY <1>2, QuietSteps
  <2> QED
    BY <2>1 DEF Quiet, IInv, TypeOK
<1>3. ASSUME NEW v \in Workers, CreateUser(v)
      PROVE  /\ session # {} => user' = user
             /\ \A w \in Workers : work[w].pc = "write" => work'[w].pc # "reread"
  <2>1. session # {} => user' = user
    BY <1>1, <1>3 DEF CreateUser, Taken
  <2>2. PICK r : work' = [work EXCEPT ![v] = r] /\ work[v].pc = "create"
    BY <1>3 DEF CreateUser, End
  <2> QED
    BY <2>1, <2>2 DEF IInv, TypeOK
<1>4. ASSUME NEW v \in Workers, NEW r, work' = [work EXCEPT ![v] = r], r.pc # "reread", user' = user
      PROVE  /\ user' = user
             /\ \A w \in Workers : work[w].pc = "write" => work'[w].pc # "reread"
  BY <1>4 DEF IInv, TypeOK
<1>5. ASSUME NEW v \in Workers, Revoke(v)
      PROVE  /\ user' = user
             /\ \A w \in Workers : work[w].pc = "write" => work'[w].pc # "reread"
  BY <1>5 DEF Revoke, IInv, TypeOK, Request
<1>6. ASSUME NEW v \in Workers, NEW t \in Tokens, Consume(v, t)
      PROVE  /\ user' = user
             /\ \A w \in Workers : work[w].pc = "write" => work'[w].pc # "reread"
  <2>1. [Idle EXCEPT !.kind = KindOf(token[t].purpose), !.pc = "load", !.token = t].pc = "load"
    BY DEF Idle
  <2> QED
    BY <1>4, <1>6, <2>1 DEF Consume
<1>7. ASSUME NEW v \in Workers, Insert(v) \/ OpenMagic(v) \/ Reread(v)
      PROVE  /\ user' = user
             /\ \A w \in Workers : work[w].pc = "write" => work'[w].pc # "reread"
  BY <1>4, <1>7, IdleType DEF Insert, OpenMagic, Reread, Open, End
<1>8. ASSUME work' = work, user' = user
      PROVE  /\ user' = user
             /\ \A w \in Workers : work[w].pc = "write" => work'[w].pc # "reread"
  BY <1>8
<1> QED
  BY <1>2, <1>3, <1>5, <1>6, <1>7, <1>8 DEF Next, Expire, Login, vars

(* A claim writes a password only over an account that has none.            *)
THEOREM ClaimsTakeNoAccount == Spec => ClaimTakesNoAccount
<1>1. IInv /\ [Next]_vars =>
        [\A w \in Workers :
           (work[w].kind = "claim" /\ work[w].pc = "write" /\ work'[w].pc = "reread")
              => user.password = None \/ "version" \in crossed']_vars
  <2> SUFFICES ASSUME IInv, [Next]_vars, NEW w \in Workers,
                      work[w].kind = "claim", work[w].pc = "write", work'[w].pc = "reread"
               PROVE  user.password = None \/ "version" \in crossed'
    OBVIOUS
  <2>1. PICK v \in Workers : Write(v)
    BY OnlyWriteWrites
  <2>2. v = w
    BY <2>1 DEF Write, IInv, TypeOK
  <2> QED
    BY <2>1, <2>2, WriteInv
<1> QED
  BY <1>1, Invariant, PTL DEF Spec, ClaimTakesNoAccount

(* A refresh token that stopped being accepted stays so, as long as no two  *)
(* updates of tokenVersion overlap.                                         *)
THEOREM RevokedStay == Spec => RevokedStaysRevoked
<1>1. IInv /\ [Next]_vars =>
        [\A s \in session : ~Accepted(s, user) => ~Accepted(s, user') \/ "version" \in crossed']_vars
  <2> SUFFICES ASSUME IInv, [Next]_vars, NEW s \in session, ~Accepted(s, user)
               PROVE  ~Accepted(s, user') \/ "version" \in crossed'
    OBVIOUS
  <2>1. CASE \E w \in Workers : Write(w)
    <3>1. "version" \notin crossed' => s.tv <= user.tv /\ user'.tv = user.tv + 1
      BY <2>1, WriteInv
    <3>2. s.tv \in Nat /\ user.tv \in Nat
      BY DEF IInv, TypeOK, Versions
    <3> QED
      BY <3>1, <3>2 DEF Accepted
  <2>2. CASE ~\E w \in Workers : Write(w)
    BY <2>2, OnlyWriteWrites DEF Accepted
  <2> QED
    BY <2>1, <2>2
<1> QED
  BY <1>1, Invariant, PTL DEF Spec, RevokedStaysRevoked
=============================================================================
