------------------------------- MODULE Accounts -------------------------------
(***************************************************************************)
(* The account of one e-mail address: auth.service.ts, with                *)
(* claim-tokens.service.ts and users.service.ts, and the accounts made by  *)
(* sell-by-email.service.ts and admin.service.ts.  Nothing here touches    *)
(* two accounts.                                                           *)
(*                                                                         *)
(* No request opens a transaction: each statement commits on its own, and  *)
(* a request may die between any two of them.                              *)
(***************************************************************************)
EXTENDS Naturals, FiniteSets

CONSTANTS
    Workers, Tokens, Passwords,
    NoToken,
    MaxVersion   \* bound: tokenVersion

Purposes == {"CLAIM", "MAGIC_LINK", "PASSWORD_RESET"}
Exclusive == {"CLAIM", "PASSWORD_RESET"}
None == "none"
Link == "link"
ASSUME AccountsAssumption ==
    /\ IsFiniteSet(Tokens) /\ NoToken \notin Tokens
    /\ None \notin Passwords /\ Link \notin Passwords
    /\ MaxVersion \in Nat

Kinds == {"register", "producer", "sell", "ask", "magic", "reset", "claim", "change", "logout", None}
Steps == {"idle", "create", "revoke", "insert", "load", "write", "reread"}
Versions == 0..MaxVersion
User == [exists: BOOLEAN, password: Passwords \cup {None}, tv: Versions]
Request == [kind: Kinds, pc: Steps, token: Tokens \cup {NoToken}, purpose: Purposes \cup {None},
            tv: Versions, pw: Passwords \cup {None}]
Idle == [kind |-> None, pc |-> "idle", token |-> NoToken, purpose |-> None, tv |-> 0, pw |-> None]

VARIABLES
    user,      \* the row: whether it exists, its password (hash), tokenVersion
    token,     \* claim_tokens: purpose, and none, valid, used or expired
    session,   \* refresh tokens handed out: tv, and what opened them
    work,      \* requests in progress
    opened,    \* history: sessions opened with a link
    crossed    \* history: which kinds of request have overlapped

vars == <<user, token, session, work, opened, crossed>>
history == <<opened, crossed>>

TypeOK ==
    /\ user \in User
    /\ ~user.exists => user.password = None /\ user.tv = 0 /\ session = {}
    /\ token \in [Tokens -> [state: {None, "valid", "used", "expired"}, purpose: Purposes \cup {None}]]
    /\ session \subseteq [tv: Versions, by: Passwords \cup {Link}]
    /\ work \in [Workers -> Request]
    /\ \A w \in Workers : work[w].token # NoToken => token[work[w].token].state = "used"
    /\ opened \in [Tokens -> Nat] /\ crossed \subseteq {"version", "issue"}

Init ==
    /\ user = [exists |-> FALSE, password |-> None, tv |-> 0]
    /\ token = [t \in Tokens |-> [state |-> None, purpose |-> None]]
    /\ session = {} /\ work = [w \in Workers |-> Idle]
    /\ opened = [t \in Tokens |-> 0] /\ crossed = {}

Free(w) == work[w].pc = "idle"
Start(w, kind, pc) == work' = [work EXCEPT ![w] = [Idle EXCEPT !.kind = kind, !.pc = pc]]
End(w) == work' = [work EXCEPT ![w] = Idle]
Ghost == user.exists /\ user.password = None

----------------------------------------------------------------------------
(* Accounts are created *)

(* register, and admin.createProducerUser: the address is free when looked  *)
(* up; then the password is hashed.                                         *)
Register(w) ==
    /\ Free(w) /\ ~user.exists
    /\ \E kind \in {"register", "producer"}, p \in Passwords :
         work' = [work EXCEPT ![w] = [Idle EXCEPT !.kind = kind, !.pc = "create", !.pw = p]]
    /\ UNCHANGED <<user, token, session, history>>
(* sell-by-email: a buyer without an account, or without a password, is     *)
(* sent a claim link after the sale.                                        *)
Sell(w) ==
    /\ Free(w)
    /\ \/ ~user.exists /\ Start(w, "sell", "create")
       \/ Ghost /\ work' = [work EXCEPT ![w] = [Idle EXCEPT !.kind = "sell", !.pc = "revoke",
                                                            !.purpose = "CLAIM"]]
    /\ UNCHANGED <<user, token, session, history>>
(* users.create: the unique index on the address lets one of two pass.      *)
TakenNever == FALSE   \* variant: no unique index, the row is written again
Taken == user.exists
CreateUser(w) ==
    LET r == work[w] IN
    /\ r.pc = "create"
    /\ IF Taken THEN End(w) /\ UNCHANGED <<user, session>>
       ELSE /\ user' = [exists |-> TRUE, password |-> r.pw, tv |-> 0]
            /\ session' = session \cup
                 IF r.kind = "register" THEN {[tv |-> 0, by |-> r.pw]} ELSE {}
            /\ work' = [work EXCEPT ![w] =
                 IF r.kind = "sell" THEN [r EXCEPT !.pc = "revoke", !.purpose = "CLAIM"] ELSE Idle]
    /\ UNCHANGED <<token, history>>

----------------------------------------------------------------------------
(* Links *)

(* requestMagicLink; requestPasswordReset, which decides on what kind of    *)
(* link from the row it has read.                                           *)
AskLink(w) ==
    /\ Free(w) /\ user.exists
    /\ \E magic \in BOOLEAN : work' = [work EXCEPT ![w] = [Idle EXCEPT !.kind = "ask",
         !.pc = IF magic THEN "insert" ELSE "revoke",
         !.purpose = IF magic THEN "MAGIC_LINK" ELSE IF Ghost THEN "CLAIM" ELSE "PASSWORD_RESET"]]
    /\ UNCHANGED <<user, token, session, history>>

(* issueExclusive: UPDATE ... WHERE purpose AND usedAt IS NULL, then issue. *)
RevokedNone(t, purpose) == token[t]   \* variant: earlier links are left
Revoked(t, purpose) ==
    IF token[t].purpose = purpose THEN [token[t] EXCEPT !.state = "used"] ELSE token[t]
Revoke(w) ==
    /\ work[w].pc = "revoke"
    /\ token' = [t \in Tokens |-> Revoked(t, work[w].purpose)]
    /\ work' = [work EXCEPT ![w].pc = "insert"]
    /\ UNCHANGED <<user, session, history>>
Insert(w) ==
    /\ work[w].pc = "insert"
    /\ \E t \in Tokens :
         /\ token[t].state = None
         /\ token' = [token EXCEPT ![t] = [state |-> "valid", purpose |-> work[w].purpose]]
    /\ crossed' = crossed \cup
         IF \E v \in Workers \ {w} : work[v].pc = "insert" /\ work[v].purpose = work[w].purpose
         THEN {"issue"} ELSE {}
    /\ End(w) /\ UNCHANGED <<user, session, opened>>
Expire(t) ==
    /\ token[t].state = "valid"
    /\ token' = [token EXCEPT ![t].state = "expired"]
    /\ UNCHANGED <<user, session, work, history>>

(* consume: one conditional UPDATE.                                         *)
ConsumableAgain(t) == token[t].state \in {"valid", "used"}   \* variant: no usedAt IS NULL
Consumable(t) == token[t].state = "valid"
KindOf(purpose) ==
    CASE purpose = "CLAIM" -> "claim" [] purpose = "PASSWORD_RESET" -> "reset" [] OTHER -> "magic"
SpentLater(t) == token   \* variant: peek, the link is marked after its use
Spent(t) == [token EXCEPT ![t].state = "used"]
Consume(w, t) ==
    /\ Free(w) /\ Consumable(t)
    /\ token' = Spent(t)
    /\ work' = [work EXCEPT ![w] = [Idle EXCEPT !.kind = KindOf(token[t].purpose), !.pc = "load",
                                                !.token = t]]
    /\ UNCHANGED <<user, session, history>>

----------------------------------------------------------------------------
(* Sessions and passwords *)

Open(w, tv, by) ==
    /\ session' = session \cup {[tv |-> tv, by |-> by]}
    /\ opened' = IF work[w].token = NoToken THEN opened ELSE [opened EXCEPT ![work[w].token] = @ + 1]
    /\ End(w)

(* The session carries the version of the row that gave the password.       *)
Login(p) ==
    /\ user.exists /\ user.password = p
    /\ session' = session \cup {[tv |-> user.tv, by |-> p]}
    /\ UNCHANGED <<user, token, work, history>>
(* refresh accepts s, and hands out the same pair with a later expiry.      *)
Accepted(s, u) == s.tv = u.tv
(* consumeMagicLink after its consume.                                      *)
OpenMagic(w) ==
    /\ work[w].kind = "magic" /\ work[w].pc = "load"
    /\ Open(w, user.tv, Link)
    /\ UNCHANGED <<user, token, crossed>>

(* The reads that a new version is computed from.  A claim is refused if    *)
(* there is a password, or (\/ End) for its CPF; its link is spent.         *)
ClaimableAlways == TRUE   \* variant: the account is not looked at
Claimable == user.password = None
Read(w, r) == work' = [work EXCEPT ![w] = [r EXCEPT !.pc = "write", !.tv = user.tv]]
Load(w) ==
    /\ work[w].pc = "load"
    /\ \/ \E p \in Passwords :
            /\ work[w].kind = "reset" \/ (work[w].kind = "claim" /\ Claimable)
            /\ Read(w, [work[w] EXCEPT !.pw = p])
       \/ work[w].kind = "claim" /\ End(w)
    /\ UNCHANGED <<user, token, session, history>>
(* changePassword (with the current one, if there is one) and logout come   *)
(* with an access token.                                                    *)
Change(w) ==
    /\ Free(w) /\ session # {}
    /\ \E p \in Passwords : Read(w, [Idle EXCEPT !.kind = "change", !.pw = p])
    /\ UNCHANGED <<user, token, session, history>>
Logout(w) ==
    /\ Free(w) /\ session # {}
    /\ Read(w, [Idle EXCEPT !.kind = "logout"])
    /\ UNCHANGED <<user, token, session, history>>

(* users.update: UPDATE with the version computed from the read, then a     *)
(* SELECT of the row, whose version the answer is signed with.              *)
NewVersionSame(tv) == tv   \* variant: tokenVersion left out of the patch
NewVersion(tv) == tv + 1
Write(w) ==
    LET r == work[w] IN
    /\ r.pc = "write" /\ r.tv < MaxVersion
    /\ user' = [user EXCEPT !.tv = NewVersion(r.tv),
                            !.password = IF r.kind = "logout" THEN @ ELSE r.pw]
    /\ work' = [work EXCEPT ![w].pc = "reread"]
    /\ crossed' = crossed \cup
         IF \E v \in Workers \ {w} : work[v].pc \in {"write", "reread"} THEN {"version"} ELSE {}
    /\ UNCHANGED <<token, session, opened>>
Reread(w) ==
    /\ work[w].pc = "reread"
    /\ IF work[w].kind = "logout" THEN End(w) /\ UNCHANGED <<session, opened>>
       ELSE Open(w, user.tv, work[w].pw)
    /\ UNCHANGED <<user, token, crossed>>

(* The request dies where it stands: what it wrote stays.                   *)
Die(w) == ~Free(w) /\ End(w) /\ UNCHANGED <<user, token, session, history>>

Next ==
    \/ \E w \in Workers :
         \/ Register(w) \/ Sell(w) \/ CreateUser(w)
         \/ AskLink(w) \/ Revoke(w) \/ Insert(w)
         \/ \E t \in Tokens : Consume(w, t)
         \/ OpenMagic(w) \/ Load(w) \/ Change(w) \/ Logout(w) \/ Write(w) \/ Reread(w) \/ Die(w)
    \/ \E t \in Tokens : Expire(t)
    \/ \E p \in Passwords : Login(p)
Spec == Init /\ [][Next]_vars

----------------------------------------------------------------------------
(* Properties *)

(* A link opens at most one session, however many requests bring it.        *)
LinkOpensOneSession == \A t \in Tokens : opened[t] <= 1

(* At most one valid link to claim, and one to reset: after "forgot my      *)
(* password" the earlier links are dead.  Only two issues whose revoke and  *)
(* insert interleave leave two.                                             *)
OneExclusiveLink ==
    "issue" \notin crossed =>
        \A t, u \in Tokens :
            (/\ token[t].state = "valid" /\ token[u].state = "valid"
             /\ token[t].purpose = token[u].purpose /\ token[t].purpose \in Exclusive) => t = u

(* Who knows only an earlier password is out: every session that still      *)
(* refreshes and was opened with a password, was opened with the present    *)
(* one, unless two updates of the version overlapped.                       *)
SessionsMatchPassword ==
    "version" \notin crossed =>
        \A s \in session : Accepted(s, user) /\ s.by # Link => s.by = user.password

(* A claim gives a password to an account that has none: it takes over no   *)
(* account, even with a link that was issued before the claim it lost to.   *)
ClaimTakesNoAccount ==
    [][\A w \in Workers :
         (work[w].kind = "claim" /\ work[w].pc = "write" /\ work'[w].pc = "reread")
            => user.password = None \/ "version" \in crossed']_vars

(* A refresh token that was revoked is not accepted again, unless two       *)
(* updates overlapped.                                                      *)
RevokedStaysRevoked ==
    [][\A s \in session : ~Accepted(s, user) => ~Accepted(s, user') \/ "version" \in crossed']_vars
=============================================================================
