-------------------------- MODULE AccountFlowProofs --------------------------
(***************************************************************************)
(* Proofs about Accounts that rest on the order in which handlers make     *)
(* their calls: tokens that are mailed, grants that are used once, secrets *)
(* that are confirmed, methods that fit the factors a user has.            *)
(*                                                                         *)
(* What is said of the order is kept when a handler makes its next call,   *)
(* which takes the head of its todo away; so it is enough to look at the   *)
(* programs of the handlers, and at the calls that replace a todo.         *)
(***************************************************************************)
EXTENDS AccountsProofs, FiniteSetTheorems

\* A call of A is in s; each call of A is followed by one of B; after a call of A
\* there is none of B.
Has(s, A) == \E i \in 1..Len(s) : s[i] \in A
Leads(s, A, B) ==
    \A i \in 1..Len(s) : s[i] \in A => \E j \in 1..Len(s) : i < j /\ s[j] \in B
Bars(s, A, B) ==
    \A i, j \in 1..Len(s) : i < j /\ s[i] \in A => s[j] \notin B

LEMMA HasTail ==
    ASSUME NEW s \in Seq(Calls) \ {<<>>}, NEW A
    PROVE  Has(s, A) <=> Head(s) \in A \/ Has(Tail(s), A)
<1>1. /\ Len(s) \in Nat \ {0} /\ Len(Tail(s)) = Len(s) - 1 /\ Head(s) = s[1]
      /\ \A i \in 1..Len(Tail(s)) : Tail(s)[i] = s[i + 1]
  OBVIOUS
<1>2. ASSUME Has(s, A) PROVE Head(s) \in A \/ Has(Tail(s), A)
  <2>1. PICK i \in 1..Len(s) : s[i] \in A
    BY <1>2 DEF Has
  <2>2. CASE i = 1
    BY <1>1, <2>1, <2>2
  <2>3. CASE i # 1
    <3>1. i - 1 \in 1..Len(Tail(s)) /\ Tail(s)[i - 1] = s[i]
      BY <1>1, <2>3
    <3> QED
      BY <2>1, <3>1 DEF Has
  <2> QED
    BY <2>2, <2>3
<1>3. ASSUME Head(s) \in A PROVE Has(s, A)
  BY <1>1, <1>3 DEF Has
<1>4. ASSUME Has(Tail(s), A) PROVE Has(s, A)
  <2>1. PICK i \in 1..Len(Tail(s)) : Tail(s)[i] \in A
    BY <1>4 DEF Has
  <2>2. i + 1 \in 1..Len(s) /\ s[i + 1] \in A
    BY <1>1, <2>1
  <2> QED
    BY <2>2 DEF Has
<1> QED
  BY <1>2, <1>3, <1>4

LEMMA LeadsTail ==
    ASSUME NEW s \in Seq(Calls) \ {<<>>}, NEW A, NEW B, Leads(s, A, B)
    PROVE  /\ Leads(Tail(s), A, B)
           /\ Head(s) \in A => Has(Tail(s), B)
           /\ Has(s, A) => Has(Tail(s), B)
<1>1. /\ Len(s) \in Nat \ {0} /\ Len(Tail(s)) = Len(s) - 1 /\ Head(s) = s[1]
      /\ \A i \in 1..Len(Tail(s)) : Tail(s)[i] = s[i + 1]
  OBVIOUS
<1>2. ASSUME NEW i \in 1..Len(s), s[i] \in A
      PROVE  \E j \in 1..Len(Tail(s)) : i < j + 1 /\ Tail(s)[j] \in B
  <2>1. PICK j \in 1..Len(s) : i < j /\ s[j] \in B
    BY <1>2 DEF Leads
  <2>2. j - 1 \in 1..Len(Tail(s)) /\ i < (j - 1) + 1 /\ Tail(s)[j - 1] = s[j]
    BY <1>1, <2>1
  <2> QED
    BY <2>1, <2>2
<1>3. Has(s, A) => Has(Tail(s), B)
  BY <1>2 DEF Has
<1>4. Head(s) \in A => Has(Tail(s), B)
  BY <1>3, HasTail
<1>5. Leads(Tail(s), A, B)
  <2> SUFFICES ASSUME NEW i \in 1..Len(Tail(s)), Tail(s)[i] \in A
               PROVE  \E j \in 1..Len(Tail(s)) : i < j /\ Tail(s)[j] \in B
    BY DEF Leads
  <2>1. i + 1 \in 1..Len(s) /\ s[i + 1] \in A
    BY <1>1
  <2>2. PICK j \in 1..Len(Tail(s)) : i + 1 < j + 1 /\ Tail(s)[j] \in B
    BY <1>2, <2>1
  <2> QED
    BY <2>2
<1> QED
  BY <1>3, <1>4, <1>5

LEMMA BarsTail ==
    ASSUME NEW s \in Seq(Calls) \ {<<>>}, NEW A, NEW B, Bars(s, A, B)
    PROVE  /\ Bars(Tail(s), A, B)
           /\ Head(s) \in A => ~Has(Tail(s), B)
<1>1. /\ Len(s) \in Nat \ {0} /\ Len(Tail(s)) = Len(s) - 1 /\ Head(s) = s[1]
      /\ \A i \in 1..Len(Tail(s)) : Tail(s)[i] = s[i + 1] /\ i + 1 \in 1..Len(s)
  OBVIOUS
<1>2. Bars(Tail(s), A, B)
  <2> SUFFICES ASSUME NEW i \in 1..Len(Tail(s)), NEW j \in 1..Len(Tail(s)), i < j,
                      Tail(s)[i] \in A
               PROVE  Tail(s)[j] \notin B
    BY DEF Bars
  <2>1. i + 1 < j + 1 /\ i + 1 \in 1..Len(s) /\ j + 1 \in 1..Len(s)
    BY <1>1
  <2>2. s[i + 1] \in A => s[j + 1] \notin B
    BY <2>1 DEF Bars
  <2> QED
    BY <1>1, <2>2
<1>3. ASSUME Head(s) \in A, NEW j \in 1..Len(Tail(s)) PROVE Tail(s)[j] \notin B
  <2>1. 1 < j + 1 /\ 1 \in 1..Len(s) /\ j + 1 \in 1..Len(s)
    BY <1>1
  <2>2. s[1] \in A => s[j + 1] \notin B
    BY <2>1 DEF Bars
  <2> QED
    BY <1>1, <1>3, <2>2
<1> QED
  BY <1>2, <1>3 DEF Has

\* What is put before a sequence.
LEMMA HasJoin ==
    ASSUME NEW s \in Seq(Calls), NEW t \in Seq(Calls), NEW A
    PROVE  Has(s \o t, A) <=> Has(s, A) \/ Has(t, A)
<1>1. /\ Len(s) \in Nat /\ Len(t) \in Nat /\ Len(s \o t) = Len(s) + Len(t)
      /\ \A i \in 1..Len(s) : (s \o t)[i] = s[i] /\ i \in 1..Len(s \o t)
      /\ \A i \in 1..Len(t) : (s \o t)[i + Len(s)] = t[i] /\ i + Len(s) \in 1..Len(s \o t)
      /\ \A i \in 1..Len(s \o t) : i \in 1..Len(s) \/ i - Len(s) \in 1..Len(t)
  OBVIOUS
<1>2. ASSUME Has(s \o t, A) PROVE Has(s, A) \/ Has(t, A)
  <2>1. PICK i \in 1..Len(s \o t) : (s \o t)[i] \in A
    BY <1>2 DEF Has
  <2>2. CASE i \in 1..Len(s)
    BY <1>1, <2>1, <2>2 DEF Has
  <2>3. CASE i - Len(s) \in 1..Len(t)
    <3>1. t[i - Len(s)] = (s \o t)[i]
      BY <1>1, <2>3
    <3> QED
      BY <2>1, <2>3, <3>1 DEF Has
  <2> QED
    BY <1>1, <2>2, <2>3
<1>3. ASSUME Has(s, A) \/ Has(t, A) PROVE Has(s \o t, A)
  BY <1>1, <1>3 DEF Has
<1> QED
  BY <1>2, <1>3

LEMMA LeadsJoin ==
    ASSUME NEW s \in Seq(Calls), NEW t \in Seq(Calls), NEW A, NEW B,
           Leads(s, A, B) \/ ~Has(s, A) \/ Has(t, B), Leads(t, A, B)
    PROVE  Leads(s \o t, A, B)
<1>1. /\ Len(s) \in Nat /\ Len(t) \in Nat /\ Len(s \o t) = Len(s) + Len(t)
      /\ \A i \in 1..Len(s) : (s \o t)[i] = s[i] /\ i \in 1..Len(s \o t)
      /\ \A i \in 1..Len(t) : (s \o t)[i + Len(s)] = t[i] /\ i + Len(s) \in 1..Len(s \o t)
      /\ \A i \in 1..Len(s \o t) : i \in 1..Len(s) \/ i - Len(s) \in 1..Len(t)
  OBVIOUS
<1> SUFFICES ASSUME NEW i \in 1..Len(s \o t), (s \o t)[i] \in A
             PROVE  \E j \in 1..Len(s \o t) : i < j /\ (s \o t)[j] \in B
  BY DEF Leads
<1>2. CASE i \in 1..Len(s) /\ Leads(s, A, B)
  <2>1. PICK j \in 1..Len(s) : i < j /\ s[j] \in B
    BY <1>1, <1>2 DEF Leads
  <2> QED
    BY <1>1, <2>1
<1>3. CASE i \in 1..Len(s) /\ Has(t, B)
  <2>1. PICK j \in 1..Len(t) : t[j] \in B
    BY <1>3 DEF Has
  <2>2. i < j + Len(s) /\ (s \o t)[j + Len(s)] \in B /\ j + Len(s) \in 1..Len(s \o t)
    BY <1>1, <1>3, <2>1
  <2> QED
    BY <2>2
<1>4. CASE i - Len(s) \in 1..Len(t)
  <2>1. t[i - Len(s)] \in A
    BY <1>1, <1>4
  <2>2. PICK j \in 1..Len(t) : i - Len(s) < j /\ t[j] \in B
    BY <1>4, <2>1 DEF Leads
  <2>3. i < j + Len(s) /\ (s \o t)[j + Len(s)] \in B /\ j + Len(s) \in 1..Len(s \o t)
    BY <1>1, <1>4, <2>2
  <2> QED
    BY <2>3
<1>5. CASE i \in 1..Len(s) /\ ~Has(s, A)
  BY <1>1, <1>5 DEF Has
<1> QED
  BY <1>1, <1>2, <1>3, <1>4, <1>5

LEMMA BarsJoin ==
    ASSUME NEW s \in Seq(Calls), NEW t \in Seq(Calls), NEW A, NEW B,
           Bars(s, A, B), Bars(t, A, B), ~Has(s, A) \/ ~Has(t, B)
    PROVE  Bars(s \o t, A, B)
<1>1. /\ Len(s) \in Nat /\ Len(t) \in Nat /\ Len(s \o t) = Len(s) + Len(t)
      /\ \A i \in 1..Len(s) : (s \o t)[i] = s[i]
      /\ \A i \in 1..Len(s \o t) : i \in 1..Len(s) \/ i - Len(s) \in 1..Len(t)
      /\ \A i \in 1..Len(s \o t) : i - Len(s) \in 1..Len(t) => (s \o t)[i] = t[i - Len(s)]
  OBVIOUS
<1> SUFFICES ASSUME NEW i \in 1..Len(s \o t), NEW j \in 1..Len(s \o t), i < j,
                    (s \o t)[i] \in A
             PROVE  (s \o t)[j] \notin B
  BY DEF Bars
<1>2. CASE i \in 1..Len(s) /\ j \in 1..Len(s)
  <2>1. s[i] \in A => s[j] \notin B
    BY <1>2 DEF Bars
  <2> QED
    BY <1>1, <1>2, <2>1
<1>3. CASE i \in 1..Len(s) /\ j - Len(s) \in 1..Len(t)
  BY <1>1, <1>3 DEF Has
<1>4. CASE i - Len(s) \in 1..Len(t) /\ j - Len(s) \in 1..Len(t)
  <2>1. i - Len(s) < j - Len(s)
    BY <1>1
  <2>2. t[i - Len(s)] \in A => t[j - Len(s)] \notin B
    BY <1>4, <2>1 DEF Bars
  <2> QED
    BY <1>1, <1>4, <2>2
<1>5. i \in 1..Len(s) \/ j - Len(s) \in 1..Len(t)
  BY <1>1
<1> QED
  BY <1>1, <1>2, <1>3, <1>4, <1>5

----------------------------------------------------------------------------
(***************************************************************************)
(* The course of a handler: which calls it can still make, and in which    *)
(* order.                                                                  *)
(***************************************************************************)
Inviting == {"createByInvitation", "importUsers"}
Mailing == Inviting \cup {"adminReset2FAForUser", "forgotPassword", "adminResetPassword"}
Resetting == {"disable2FA", "confirm2FAReset"}
Challenged == {"completeWebAuthnRegistration", "completeWebAuthnAuthentication",
               "completeWebAuthnReAuthentication", "changePasswordWithWebAuthn"}

Code == {"readKeys", "checkCode", "checkYubikey", "registered"}
Counted == {"getChallenge", "credential", "updateCounter", "removeChallenge"}
Chosen == {"readRow", "pickMethod", "writeMethod"}

CallsOf(op) ==
    CASE op = "setup2FA" -> {"saveSecret"}
      [] op \in {"verify2FACode", "verifySession2FA"} ->
           Code \cup {"setVerified", "readRow", "writeDevices"}
      [] op \in Resetting -> {"deleteKeys", "resetTwoFactor"}
      [] op \in Mailing \ Inviting -> {"saveToken", "sendMail"}
      [] op = "setupYubikey" ->
           {"readKeys", "checkYubikey", "notRegistered", "findKey", "createKey",
            "setVerified"} \cup Chosen
      [] op = "verifyYubikey" -> {"checkYubikey", "registered", "readRow", "writeDevices"}
      [] op = "removeYubikey" -> {"ownsKey", "deleteKey"} \cup Chosen
      [] op = "setTwoFactorMethod" -> {"readKeys", "writeMethod"}
      [] op = "startWebAuthnRegistration" -> {"readRow", "storeChallenge"}
      [] op = "completeWebAuthnRegistration" ->
           {"getChallenge", "findKey", "createKey", "setVerified", "removeChallenge"}
           \cup Chosen
      [] op \in {"startWebAuthnAuthentication", "startWebAuthnReAuthentication",
                 "startPasswordChangeWebAuthn"} -> {"readKeys", "storeChallenge"}
      [] op = "completeWebAuthnAuthentication" ->
           Counted \cup {"setVerified", "readRow", "writeDevices"}
      [] op = "completeWebAuthnReAuthentication" -> Counted
      [] op = "changePassword" -> {"readKeys", "setPassword"}
      [] op = "changePasswordWith2FA" -> Code \cup {"setPassword"}
      [] op = "changePasswordWithWebAuthn" -> Counted \cup {"readKeys", "setPassword"}
      [] op = "resetPassword" -> {"setPassword"}
      [] op = "create" -> {"createRow"}
      [] op \in Inviting -> {"createRow", "saveToken", "sendMail"}
      [] op = "delete" -> {"deleteRow"}
      [] op = "removeAuthorizedDevice" -> {"readRow", "removeDevice"}
      [] op = "login" ->
           {"readRow", "needsVerification", "needsSetup", "saveSecret", "giveTemporary"}

\* Calls by which a handler decides whether it goes on, and those that change keys
\* or counters, after which it only records what it did.
Checks == Code \cup {"notRegistered", "findKey", "ownsKey", "getChallenge", "credential"}
Effects == {"createKey", "deleteKey", "updateCounter"}
Spends == {"createKey", "updateCounter"}

Ordered(op, s) ==
    /\ Bars(s, Effects, Checks \cup Effects)
    /\ Leads(s, {"createKey", "deleteKey"}, {"pickMethod"})
    /\ Leads(s, {"pickMethod"}, {"writeMethod"})
    /\ Bars(s, {"writeMethod"}, {"readKeys", "pickMethod"})
    /\ op \in Challenged => Leads(s, Spends, {"removeChallenge"})

\* The handlers that are short enough to be written out.
Fixed(op, s) ==
    /\ op \in Mailing =>
         s \in {<<"createRow", "saveToken", "sendMail">>, <<"saveToken", "sendMail">>,
                <<"sendMail">>}
    /\ op \in Resetting => s \in {<<"deleteKeys", "resetTwoFactor">>, <<"resetTwoFactor">>}
    /\ op = "resetPassword" => s = <<"setPassword">>
    /\ op = "create" => s = <<"createRow">>
    /\ op = "delete" => s = <<"deleteRow">>

Course(op, s) == s \in Seq(CallsOf(op)) /\ Ordered(op, s) /\ Fixed(op, s)

\* A key is drawn before anything is done with it.
KeySources == {"checkYubikey", "getChallenge", "ownsKey"}
KeyUses == {"registered", "notRegistered", "findKey", "createKey", "deleteKey", "credential"}

OnCourse(f) ==
    /\ Course(f.op, f.todo)
    /\ Has(f.todo, KeyUses) => Has(f.todo, KeySources) \/ f.key \in Keys

Courses == \A r \in Requests : ~Idle(r) => OnCourse(req[r])

----------------------------------------------------------------------------
\* Tokens and mails.

Reaching(u, t) ==
    \/ t \in mailed
    \/ \E r \in Requests :
         ~Idle(r) /\ req[r].todo = <<"sendMail">> /\ req[r].token = t /\ User(r) = u

Invited(u) ==
    \E r \in Requests :
        /\ ~Idle(r) /\ req[r].op \in Inviting
        /\ req[r].todo = <<"saveToken", "sendMail">> /\ User(r) = u

TokensReach ==
    \A u \in Users : Exists(u) /\ u \notin troubled =>
        /\ row[u].resetToken # 0 => Reaching(u, row[u].resetToken)
        /\ row[u].tfToken # 0 => Reaching(u, row[u].tfToken)
        /\ ~row[u].password /\ row[u].resetToken = 0 => Invited(u)

----------------------------------------------------------------------------
\* Grants.

Alone == \A q, r \in Requests : ~Idle(q) /\ ~Idle(r) => q = r

Holds(u, t) == Exists(u) /\ (row[u].resetToken = t \/ row[u].tfToken = t)

\* No token is in two places, or comes back.
TokensUnique ==
    /\ \A t \in Tokens, u, v \in Users : Holds(u, t) /\ Holds(v, t) => u = v
    /\ \A u \in Users : Exists(u) /\ row[u].resetToken # 0 =>
         row[u].resetToken # row[u].tfToken
    /\ \A t \in Tokens, u \in Users : Holds(u, t) => t <= tokens /\ spent[t] = 0
    /\ \A t \in Tokens : spent[t] <= 1 /\ (spent[t] # 0 => t <= tokens)

TokenFrames ==
    \A r \in Requests : ~Idle(r) /\ req[r].op \in ByToken =>
        /\ Exists(User(r)) /\ req[r].grant \in Tokens
        /\ req[r].grant = TokenOf(req[r].op, User(r))

Spent(f) == Has(f.todo, {"removeChallenge"}) /\ ~Has(f.todo, Checks \cup Effects)

ChallengesSpent ==
    \A c \in Challenges :
        /\ spent[c] <= 1
        /\ spent[c] # 0 => challenge[c] # Unused
        /\ spent[c] # 0 =>
             \/ challenge[c] = Gone
             \/ \E r \in Requests : /\ ~Idle(r) /\ req[r].grant = c
                                    /\ req[r].op \in Challenged /\ Spent(req[r])

GrantOK(f) ==
    /\ f.op \in Challenged =>
         \/ Has(f.todo, {"getChallenge"})
         \/ /\ f.grant \in Challenges /\ challenge[f.grant] # Unused
            /\ Has(f.todo, Spends) => spent[f.grant] = 0
    /\ f.op \notin ByToken => f.grant \in Challenges \cup {NoGrant}
    /\ f.op \notin Challenged \cup ByToken => f.grant = NoGrant

GrantsInv ==
    work.parallel = 1 =>
        /\ Alone /\ TokensUnique /\ TokenFrames /\ ChallengesSpent
        /\ \A r \in Requests : ~Idle(r) => GrantOK(req[r])

----------------------------------------------------------------------------
\* Codes.

Verify == {"verify2FACode", "verifySession2FA"}
Guards == {"checkCode", "registered", "credential"}
Guarding == Verify \cup {"completeWebAuthnAuthentication"}

\* A code is checked before the factor counts as verified, a key is drawn before.
Guarded(s) ==
    /\ Bars(s, {"setVerified"}, Guards)
    /\ Bars(s, KeyUses \cup {"checkCode"}, KeySources)

\* A frame that checks a code judges the secret that is in the row.
CodeOK(f) ==
    /\ f.op \in work.ops
    /\ f.op \in Verify /\ Exists(f.user) => f.snap.secret = row[f.user].secret
    /\ f.op \in Guarding => Guarded(f.todo)
    /\ Has(f.todo, {"setVerified"}) =>
         \/ Has(f.todo, Guards)
         \/ f.op \in Verify /\ f.snap.secret \in confirmed

CodesInv ==
    work.parallel = 1 /\ work.ops \cap {"setupYubikey", "completeWebAuthnRegistration"} = {} =>
        /\ Alone
        /\ \A k \in Keys : keys[k] = NoUser
        /\ \A r \in Requests : ~Idle(r) => CodeOK(req[r])
        /\ \A u \in Users : Exists(u) /\ row[u].verified => row[u].secret \in confirmed

----------------------------------------------------------------------------
\* Methods.

Fits(m, s, held) ==
    /\ held = {} => m # "YUBIKEY"
    /\ held # {} /\ m = "TOTP" => s.secret # 0

Writing == {"setupYubikey", "removeYubikey", "completeWebAuthnRegistration",
            "setTwoFactorMethod"}

\* A handler that changed the keys and will write a method that fits.
Repairs(f) ==
    \/ Has(f.todo, {"writeMethod"}) /\ ~Has(f.todo, Checks \cup Effects)
    \/ f.todo = <<"resetTwoFactor">>

\* The call that tells which method to write.
Choice(op) == IF op = "setTwoFactorMethod" THEN "readKeys" ELSE "pickMethod"

MethodOK(f) ==
    LET u == f.user IN
    /\ f.op \notin Creating => Exists(u)
    /\ f.op \in Writing =>
         /\ f.snap.secret = row[u].secret
         /\ Has(f.todo, {"writeMethod"}) =>
              \/ Has(f.todo, {Choice(f.op)})
              \/ Fits(f.method, row[u], KeysOf(u))
    /\ f.todo = <<"resetTwoFactor">> => KeysOf(u) = {}

MethodsInv ==
    Sequential =>
        /\ Alone
        /\ \A k \in Keys : keys[k] # NoUser => Exists(keys[k])
        /\ \A r \in Requests : ~Idle(r) => MethodOK(req[r])
        /\ \A u \in Users : Exists(u) =>
             \/ Fits(row[u].method, row[u], KeysOf(u))
             \/ \E r \in Requests : /\ ~Idle(r) /\ User(r) = u
                                    /\ req[r].op \in Writing \cup Resetting
                                    /\ Repairs(req[r])
----------------------------------------------------------------------------
(***************************************************************************)
(* The programs of the handlers follow their courses.                      *)
(***************************************************************************)
LEMMA JoinIn ==
    ASSUME NEW S, NEW s \in Seq(S), NEW t \in Seq(S)
    PROVE  s \o t \in Seq(S)
  OBVIOUS

\* What handlers have in common, within a set of calls.
LEMMA SharedIn ==
    ASSUME NEW S
    PROVE  /\ {"readRow", "writeDevices"} \subseteq S => updateVerifiedDevices \in Seq(S)
           /\ Chosen \subseteq S => autoUpdateTwoFactorMethod \in Seq(S)
           /\ Counted \subseteq S => verifyWebAuthnAuthentication \in Seq(S)
           /\ "setVerified" \in S => \A s : VerifiedOnce(s) \in Seq(S)
<1>1. ASSUME "setVerified" \in S, NEW s PROVE VerifiedOnce(s) \in Seq(S)
  <2>1. <<"setVerified">> \in Seq(S) /\ <<>> \in Seq(S)
    BY <1>1
  <2> QED
    BY <2>1 DEF VerifiedOnce
<1> QED
  BY <1>1 DEF updateVerifiedDevices, autoUpdateTwoFactorMethod,
      verifyWebAuthnAuthentication, Chosen, Counted

LEMMA ProgramsIn ==
    ASSUME NEW op \in Operations, NEW u, NEW s, NEW held
    PROVE  Handler(op, u, s, held).calls \in Seq(CallsOf(op))
<1> DEFINE S == CallsOf(op)
<1>1. CASE op = "verify2FACode"
  <2>1. /\ <<"readKeys", "checkCode", "setVerified">> \in Seq(S)
        /\ {"readRow", "writeDevices"} \subseteq S
    BY <1>1 DEF CallsOf, Resetting, Mailing, Inviting, Code
  <2> HIDE DEF S
  <2>2. <<"readKeys", "checkCode", "setVerified">> \o updateVerifiedDevices \in Seq(S)
    BY <2>1, SharedIn, JoinIn
  <2> QED
    BY <1>1, <2>2 DEF Handler, verify2FACode, S
<1>2. CASE op = "verifySession2FA"
  <2>1. /\ <<"readKeys", "checkCode">> \in Seq(S) /\ "setVerified" \in S
        /\ {"readRow", "writeDevices"} \subseteq S
    BY <1>2 DEF CallsOf, Resetting, Mailing, Inviting, Code
  <2> HIDE DEF S
  <2>2. <<"readKeys", "checkCode">> \o VerifiedOnce(s) \o updateVerifiedDevices \in Seq(S)
    BY <2>1, SharedIn, JoinIn
  <2> QED
    BY <1>2, <2>2 DEF Handler, verifySession2FA, S
<1>3. CASE op = "setupYubikey"
  <2>1. /\ <<"readKeys", "checkYubikey", "notRegistered">> \in Seq(S)
        /\ addYubikeyToUser \in Seq(S) /\ Chosen \subseteq S
    BY <1>3 DEF CallsOf, Resetting, Mailing, Inviting, addYubikeyToUser
  <2> HIDE DEF S
  <2>2. <<"readKeys", "checkYubikey", "notRegistered">> \o addYubikeyToUser
          \o autoUpdateTwoFactorMethod \in Seq(S)
    BY <2>1, SharedIn, JoinIn
  <2> QED
    BY <1>3, <2>2 DEF Handler, setupYubikey, S
<1>4. CASE op = "verifyYubikey"
  <2>1. /\ <<"checkYubikey", "registered">> \in Seq(S)
        /\ {"readRow", "writeDevices"} \subseteq S
    BY <1>4 DEF CallsOf, Resetting, Mailing, Inviting
  <2> HIDE DEF S
  <2>2. <<"checkYubikey", "registered">> \o updateVerifiedDevices \in Seq(S)
    BY <2>1, SharedIn, JoinIn
  <2> QED
    BY <1>4, <2>2 DEF Handler, verifyYubikey, Always, S
<1>5. CASE op = "removeYubikey"
  <2>1. <<"ownsKey", "deleteKey">> \in Seq(S) /\ Chosen \subseteq S
    BY <1>5 DEF CallsOf, Resetting, Mailing, Inviting
  <2> HIDE DEF S
  <2>2. <<"ownsKey", "deleteKey">> \o autoUpdateTwoFactorMethod \in Seq(S)
    BY <2>1, SharedIn, JoinIn
  <2> QED
    BY <1>5, <2>2 DEF Handler, removeYubikey, Always, S
<1>6. CASE op = "completeWebAuthnRegistration"
  <2>1. verifyWebAuthnRegistration \in Seq(S) /\ Chosen \subseteq S
    BY <1>6 DEF CallsOf, Resetting, Mailing, Inviting, verifyWebAuthnRegistration
  <2> HIDE DEF S
  <2>2. verifyWebAuthnRegistration \o autoUpdateTwoFactorMethod \in Seq(S)
    BY <2>1, SharedIn, JoinIn
  <2> QED
    BY <1>6, <2>2 DEF Handler, completeWebAuthnRegistration, Always, S
<1>7. CASE op = "completeWebAuthnAuthentication"
  <2>1. "setVerified" \in S /\ {"readRow", "writeDevices"} \subseteq S /\ Counted \subseteq S
    BY <1>7 DEF CallsOf, Resetting, Mailing, Inviting
  <2> HIDE DEF S
  <2>2. verifyWebAuthnAuthentication \o VerifiedOnce(s) \o updateVerifiedDevices \in Seq(S)
    BY <2>1, SharedIn, JoinIn
  <2> QED
    BY <1>7, <2>2 DEF Handler, completeWebAuthnAuthentication, Always, S
<1>8. CASE op = "completeWebAuthnReAuthentication"
  <2>1. Counted \subseteq S
    BY <1>8 DEF CallsOf, Resetting, Mailing, Inviting
  <2> HIDE DEF S
  <2> QED
    BY <1>8, <2>1, SharedIn DEF Handler, completeWebAuthnReAuthentication, Always, S
<1>9. CASE op = "changePasswordWithWebAuthn"
  <2>1. /\ <<"readKeys">> \in Seq(S) /\ <<"setPassword">> \in Seq(S) /\ Counted \subseteq S
    BY <1>9 DEF CallsOf, Resetting, Mailing, Inviting
  <2> HIDE DEF S
  <2>2. <<"readKeys">> \o verifyWebAuthnAuthentication \o <<"setPassword">> \in Seq(S)
    BY <2>1, SharedIn, JoinIn
  <2> QED
    BY <1>9, <2>2 DEF Handler, changePasswordWithWebAuthn, S
<1>10. CASE op \in {"startWebAuthnAuthentication", "startWebAuthnReAuthentication",
                    "startPasswordChangeWebAuthn"}
  <2>1. S = {"readKeys", "storeChallenge"}
    BY <1>10 DEF CallsOf, Resetting, Mailing, Inviting
  <2> HIDE DEF S
  <2>2. <<"readKeys">> \in Seq(S) /\ generateWebAuthnAuthenticationOptions \in Seq(S)
    BY <2>1 DEF generateWebAuthnAuthenticationOptions
  <2>3. <<"readKeys">> \o generateWebAuthnAuthenticationOptions \in Seq(S)
    BY <2>2, JoinIn
  <2>4. Handler(op, u, s, held).calls = <<"readKeys">> \o generateWebAuthnAuthenticationOptions
    BY <1>10 DEF Handler, startWebAuthnAuthentication,
       startWebAuthnReAuthentication, startPasswordChangeWebAuthn
  <2> QED
    BY <2>3, <2>4 DEF S
<1>11. CASE op = "setup2FA"
  <2>1. Handler(op, u, s, held).calls = <<"saveSecret">>
    BY <1>11 DEF Handler, Always, setup2FA
  <2>2. {"saveSecret"} \subseteq CallsOf(op)
    BY <1>11 DEF CallsOf, Resetting, Mailing, Inviting, Code
  <2> QED
    BY <2>1, <2>2
<1>12. CASE op \in {"disable2FA", "confirm2FAReset"}
  <2>1. Handler(op, u, s, held).calls = <<"deleteKeys", "resetTwoFactor">>
    BY <1>12 DEF Handler, Always, disable2FA, confirm2FAReset
  <2>2. {"deleteKeys", "resetTwoFactor"} \subseteq CallsOf(op)
    BY <1>12 DEF CallsOf, Resetting, Mailing, Inviting, Code
  <2> QED
    BY <2>1, <2>2
<1>13. CASE op \in {"adminReset2FAForUser", "forgotPassword", "adminResetPassword"}
  <2>1. Handler(op, u, s, held).calls = <<"saveToken", "sendMail">>
    BY <1>13 DEF Handler, Always,
       adminReset2FAForUser, forgotPassword, adminResetPassword
  <2>2. {"saveToken", "sendMail"} \subseteq CallsOf(op)
    BY <1>13 DEF CallsOf, Resetting, Mailing, Inviting, Code
  <2> QED
    BY <2>1, <2>2
<1>14. CASE op = "setTwoFactorMethod"
  <2>1. Handler(op, u, s, held).calls = <<"readKeys", "writeMethod">>
    BY <1>14 DEF Handler, Always, setTwoFactorMethod
  <2>2. {"readKeys", "writeMethod"} \subseteq CallsOf(op)
    BY <1>14 DEF CallsOf, Resetting, Mailing, Inviting, Code
  <2> QED
    BY <2>1, <2>2
<1>15. CASE op = "startWebAuthnRegistration"
  <2>1. Handler(op, u, s, held).calls = <<"readRow", "storeChallenge">>
    BY <1>15 DEF Handler, Always,
       startWebAuthnRegistration, generateWebAuthnRegistrationOptions
  <2>2. {"readRow", "storeChallenge"} \subseteq CallsOf(op)
    BY <1>15 DEF CallsOf, Resetting, Mailing, Inviting, Code
  <2> QED
    BY <2>1, <2>2
<1>16. CASE op = "changePassword"
  <2>1. Handler(op, u, s, held).calls = <<"readKeys", "setPassword">>
    BY <1>16 DEF Handler, Always, changePassword
  <2>2. {"readKeys", "setPassword"} \subseteq CallsOf(op)
    BY <1>16 DEF CallsOf, Resetting, Mailing, Inviting, Code
  <2> QED
    BY <2>1, <2>2
<1>17. CASE op = "changePasswordWith2FA"
  <2>1. Handler(op, u, s, held).calls = <<"readKeys", "checkCode", "setPassword">>
    BY <1>17 DEF Handler, Always, changePasswordWith2FA
  <2>2. {"readKeys", "checkCode", "setPassword"} \subseteq CallsOf(op)
    BY <1>17 DEF CallsOf, Resetting, Mailing, Inviting, Code
  <2> QED
    BY <2>1, <2>2
<1>18. CASE op = "resetPassword"
  <2>1. Handler(op, u, s, held).calls = <<"setPassword">>
    BY <1>18 DEF Handler, Always, resetPassword
  <2>2. {"setPassword"} \subseteq CallsOf(op)
    BY <1>18 DEF CallsOf, Resetting, Mailing, Inviting, Code
  <2> QED
    BY <2>1, <2>2
<1>19. CASE op = "create"
  <2>1. Handler(op, u, s, held).calls = <<"createRow">>
    BY <1>19 DEF Handler, Always, create
  <2>2. {"createRow"} \subseteq CallsOf(op)
    BY <1>19 DEF CallsOf, Resetting, Mailing, Inviting, Code
  <2> QED
    BY <2>1, <2>2
<1>20. CASE op \in {"createByInvitation", "importUsers"}
  <2>1. Handler(op, u, s, held).calls = <<"createRow", "saveToken", "sendMail">>
    BY <1>20 DEF Handler, Always, createByInvitation, importUsers
  <2>2. {"createRow", "saveToken", "sendMail"} \subseteq CallsOf(op)
    BY <1>20 DEF CallsOf, Resetting, Mailing, Inviting, Code
  <2> QED
    BY <2>1, <2>2
<1>21. CASE op = "delete"
  <2>1. Handler(op, u, s, held).calls = <<"deleteRow">>
    BY <1>21 DEF Handler, Always, delete
  <2>2. {"deleteRow"} \subseteq CallsOf(op)
    BY <1>21 DEF CallsOf, Resetting, Mailing, Inviting, Code
  <2> QED
    BY <2>1, <2>2
<1>22. CASE op = "removeAuthorizedDevice"
  <2>1. Handler(op, u, s, held).calls = <<"readRow", "removeDevice">>
    BY <1>22 DEF Handler, Always, removeAuthorizedDevice
  <2>2. {"readRow", "removeDevice"} \subseteq CallsOf(op)
    BY <1>22 DEF CallsOf, Resetting, Mailing, Inviting, Code
  <2> QED
    BY <2>1, <2>2
<1>23. CASE op = "login"
  <2>1. Handler(op, u, s, held).calls = <<"readRow", "needsVerification", "needsSetup">>
    BY <1>23 DEF Handler, Always, login
  <2>2. {"readRow", "needsVerification", "needsSetup"} \subseteq CallsOf(op)
    BY <1>23 DEF CallsOf, Resetting, Mailing, Inviting, Code
  <2> QED
    BY <2>1, <2>2
<1> HIDE DEF S
<1> QED
  BY <1>1, <1>2, <1>3, <1>4, <1>5, <1>6, <1>7, <1>8, <1>9, <1>10, <1>11, <1>12, <1>13, <1>14,
     <1>15, <1>16, <1>17, <1>18, <1>19, <1>20, <1>21, <1>22, <1>23
  DEF Operations

LEMMA CallsOfCalls ==
    ASSUME NEW op \in Operations
    PROVE  CallsOf(op) \subseteq Calls
  BY DEF Operations, CallsOf, Calls, Resetting, Mailing, Inviting, Code, Chosen, Counted

LEMMA HasNone ==
    ASSUME NEW S, NEW s \in Seq(S), NEW A, S \cap A = {}
    PROVE  ~Has(s, A)
  BY DEF Has

\* A set that is larger, of calls that may be in s or follow.
LEMMA HasMore ==
    ASSUME NEW s, NEW A, NEW B, A \subseteq B
    PROVE  Has(s, A) => Has(s, B)
  BY DEF Has

LEMMA LeadsNone ==
    ASSUME NEW s, NEW A, NEW B, ~Has(s, A)
    PROVE  Leads(s, A, B)
  BY DEF Has, Leads

LEMMA BarsNone ==
    ASSUME NEW s \in Seq(Calls), NEW A, NEW B, ~Has(s, A) \/ ~Has(s, B)
    PROVE  Bars(s, A, B)
  BY DEF Has, Bars

LEMMA Unordered ==
    ASSUME NEW op, NEW s \in Seq(Calls), ~Has(s, Effects \cup {"pickMethod", "writeMethod"})
    PROVE  Ordered(op, s)
<1>1. ~Has(s, Effects) /\ ~Has(s, {"createKey", "deleteKey"}) /\ ~Has(s, Spends)
  BY HasMore DEF Effects, Spends
<1>2. ~Has(s, {"pickMethod"}) /\ ~Has(s, {"writeMethod"})
  BY HasMore
<1> QED
  BY <1>1, <1>2, LeadsNone, BarsNone DEF Ordered

\* A program that ends with autoUpdateTwoFactorMethod.
LEMMA OrderedWithMethod ==
    ASSUME NEW op, NEW p \in Seq(Calls), ~Has(p, {"pickMethod", "writeMethod"}),
           Bars(p, Effects, Checks \cup Effects),
           op \in Challenged => Leads(p, Spends, {"removeChallenge"})
    PROVE  Ordered(op, p \o autoUpdateTwoFactorMethod)
<1> DEFINE t == autoUpdateTwoFactorMethod
<1>1. t \in Seq(Calls)
  BY DEF autoUpdateTwoFactorMethod, Calls
<1>2. /\ ~Has(t, Checks \cup Effects) /\ ~Has(t, Effects) /\ ~Has(t, {"createKey", "deleteKey"})
      /\ Has(t, {"pickMethod"}) /\ ~Has(t, Spends)
  BY DEF autoUpdateTwoFactorMethod, Has, Checks, Effects, Spends, Code
<1>3. Leads(t, {"pickMethod"}, {"writeMethod"})
  BY DEF autoUpdateTwoFactorMethod, Leads
<1>4. Bars(t, {"writeMethod"}, {"readKeys", "pickMethod"})
  BY DEF autoUpdateTwoFactorMethod, Bars
<1>5. ~Has(p, {"pickMethod"}) /\ ~Has(p, {"writeMethod"})
  BY HasMore
<1> HIDE DEF t
<1>6. Bars(p \o t, Effects, Checks \cup Effects)
  BY <1>1, <1>2, BarsNone, BarsJoin
<1>7. Leads(p \o t, {"createKey", "deleteKey"}, {"pickMethod"})
  BY <1>1, <1>2, LeadsNone, LeadsJoin
<1>8. Leads(p \o t, {"pickMethod"}, {"writeMethod"})
  BY <1>1, <1>3, <1>5, LeadsJoin
<1>9. Bars(p \o t, {"writeMethod"}, {"readKeys", "pickMethod"})
  BY <1>1, <1>4, <1>5, BarsNone, BarsJoin
<1>10. op \in Challenged => Leads(p \o t, Spends, {"removeChallenge"})
  BY <1>1, <1>2, LeadsNone, LeadsJoin
<1> QED
  BY <1>6, <1>7, <1>8, <1>9, <1>10 DEF Ordered, t

\* A program that counts up a key, whatever plain calls are put around it.
Counting(s) ==
    /\ Bars(s, Effects, Checks \cup Effects)
    /\ Leads(s, Spends, {"removeChallenge"})
    /\ ~Has(s, {"createKey", "deleteKey", "pickMethod", "writeMethod"})

LEMMA CountingOrdered ==
    ASSUME NEW op, NEW s \in Seq(Calls), Counting(s)
    PROVE  Ordered(op, s)
<1>1. /\ ~Has(s, {"createKey", "deleteKey"}) /\ ~Has(s, {"pickMethod"})
      /\ ~Has(s, {"writeMethod"})
  BY HasMore DEF Counting
<1> QED
  BY <1>1, LeadsNone, BarsNone DEF Ordered, Counting

LEMMA CountingJoin ==
    ASSUME NEW s \in Seq(Calls), NEW t \in Seq(Calls),
           ~Has(s, Effects) \/ ~Has(t, Checks \cup Effects), Counting(s), Counting(t)
    PROVE  Counting(s \o t)
  BY BarsJoin, LeadsJoin, HasJoin DEF Counting

LEMMA CountingShared ==
    /\ Counting(verifyWebAuthnAuthentication)
    /\ Counting(updateVerifiedDevices) /\ ~Has(updateVerifiedDevices, Checks \cup Effects)
    /\ \A s : Counting(VerifiedOnce(s)) /\ ~Has(VerifiedOnce(s), Checks \cup Effects)
    /\ Counting(<<"readKeys">>) /\ ~Has(<<"readKeys">>, Effects)
    /\ Counting(<<"setPassword">>) /\ ~Has(<<"setPassword">>, Checks \cup Effects)
<1>1. Counting(verifyWebAuthnAuthentication)
  <2>1. Bars(verifyWebAuthnAuthentication, Effects, Checks \cup Effects)
    BY DEF verifyWebAuthnAuthentication, Bars, Effects, Checks, Code
  <2>2. Leads(verifyWebAuthnAuthentication, Spends, {"removeChallenge"})
    BY DEF verifyWebAuthnAuthentication, Leads, Spends
  <2>3. ~Has(verifyWebAuthnAuthentication,
             {"createKey", "deleteKey", "pickMethod", "writeMethod"})
    BY DEF verifyWebAuthnAuthentication, Has
  <2> QED
    BY <2>1, <2>2, <2>3 DEF Counting
<1>2. ASSUME NEW s \in Seq(Calls),
             ~Has(s, Effects \cup {"createKey", "deleteKey", "pickMethod", "writeMethod"})
      PROVE  Counting(s)
  <2>1. /\ ~Has(s, Effects) /\ ~Has(s, Spends)
        /\ ~Has(s, {"createKey", "deleteKey", "pickMethod", "writeMethod"})
    BY <1>2, HasMore DEF Effects, Spends
  <2> QED
    BY <2>1, LeadsNone, BarsNone DEF Counting
<1>3. Counting(updateVerifiedDevices) /\ ~Has(updateVerifiedDevices, Checks \cup Effects)
  <2>1. updateVerifiedDevices \in Seq(Calls)
    BY DEF updateVerifiedDevices, Calls
  <2>2. /\ ~Has(updateVerifiedDevices, Checks \cup Effects)
        /\ ~Has(updateVerifiedDevices,
                Effects \cup {"createKey", "deleteKey", "pickMethod", "writeMethod"})
    BY DEF updateVerifiedDevices, Has, Effects, Checks, Code
  <2> QED
    BY <1>2, <2>1, <2>2
<1>4. ASSUME NEW s
      PROVE  Counting(VerifiedOnce(s)) /\ ~Has(VerifiedOnce(s), Checks \cup Effects)
  <2>1. VerifiedOnce(s) \in Seq(Calls)
    BY SharedCalls
  <2>2. /\ ~Has(VerifiedOnce(s), Checks \cup Effects)
        /\ ~Has(VerifiedOnce(s),
                Effects \cup {"createKey", "deleteKey", "pickMethod", "writeMethod"})
    BY DEF VerifiedOnce, Has, Effects, Checks, Code
  <2> QED
    BY <1>2, <2>1, <2>2
<1>5. Counting(<<"readKeys">>) /\ ~Has(<<"readKeys">>, Effects)
  <2>1. <<"readKeys">> \in Seq(Calls)
    BY DEF Calls
  <2>2. /\ ~Has(<<"readKeys">>, Effects)
        /\ ~Has(<<"readKeys">>,
                Effects \cup {"createKey", "deleteKey", "pickMethod", "writeMethod"})
    BY DEF Has, Effects
  <2> QED
    BY <1>2, <2>1, <2>2
<1>6. Counting(<<"setPassword">>) /\ ~Has(<<"setPassword">>, Checks \cup Effects)
  <2>1. <<"setPassword">> \in Seq(Calls)
    BY DEF Calls
  <2>2. /\ ~Has(<<"setPassword">>, Checks \cup Effects)
        /\ ~Has(<<"setPassword">>,
                Effects \cup {"createKey", "deleteKey", "pickMethod", "writeMethod"})
    BY DEF Has, Effects, Checks, Code
  <2> QED
    BY <1>2, <2>1, <2>2
<1> QED
  BY <1>1, <1>3, <1>4, <1>5, <1>6

LEMMA ProgramsOrdered ==
    ASSUME NEW op \in Operations, NEW u, NEW s, NEW held
    PROVE  Ordered(op, Handler(op, u, s, held).calls)
<1> DEFINE p == Handler(op, u, s, held).calls
<1>1. p \in Seq(CallsOf(op)) /\ p \in Seq(Calls)
  BY ProgramsIn, CallsOfCalls
<1>2. CASE op = "setupYubikey"
  <2> DEFINE a == <<"readKeys", "checkYubikey", "notRegistered">>
             b == addYubikeyToUser
  <2>1. p = (a \o b) \o autoUpdateTwoFactorMethod
    BY <1>2 DEF Handler, setupYubikey
  <2>2. a \in Seq(Calls) /\ b \in Seq(Calls)
    BY DEF addYubikeyToUser, Calls
  <2>3. ~Has(a, Effects) /\ ~Has(a, {"pickMethod", "writeMethod"})
    BY DEF Has, Effects
  <2>4. Bars(b, Effects, Checks \cup Effects) /\ ~Has(b, {"pickMethod", "writeMethod"})
    BY DEF Has, Bars, Effects, Checks, Code, addYubikeyToUser
  <2> HIDE DEF a, b, p
  <2>5. a \o b \in Seq(Calls)
    BY <2>2
  <2>6. ~Has(a \o b, {"pickMethod", "writeMethod"})
    BY <2>2, <2>3, <2>4, HasJoin
  <2>7. Bars(a \o b, Effects, Checks \cup Effects)
    BY <2>2, <2>3, <2>4, BarsNone, BarsJoin
  <2>8. op \notin Challenged
    BY <1>2 DEF Challenged
  <2>9. Ordered(op, p)
    BY <2>1, <2>5, <2>6, <2>7, <2>8, OrderedWithMethod
  <2> QED
    BY <2>9 DEF p
<1>3. CASE op = "removeYubikey"
  <2> DEFINE a == <<"ownsKey", "deleteKey">>
  <2>1. p = a \o autoUpdateTwoFactorMethod
    BY <1>3 DEF Handler, removeYubikey, Always
  <2>2. a \in Seq(Calls)
    BY DEF Calls
  <2>3. Bars(a, Effects, Checks \cup Effects) /\ ~Has(a, {"pickMethod", "writeMethod"})
    BY DEF Has, Bars, Effects, Checks, Code
  <2>4. op \notin Challenged
    BY <1>3 DEF Challenged
  <2> HIDE DEF a, p
  <2>5. Ordered(op, p)
    BY <2>1, <2>2, <2>3, <2>4, OrderedWithMethod
  <2> QED
    BY <2>5 DEF p
<1>4. CASE op = "completeWebAuthnRegistration"
  <2> DEFINE a == verifyWebAuthnRegistration
  <2>1. p = a \o autoUpdateTwoFactorMethod
    BY <1>4 DEF Handler, completeWebAuthnRegistration, Always
  <2>2. a \in Seq(Calls)
    BY DEF Calls, verifyWebAuthnRegistration
  <2>3. Bars(a, Effects, Checks \cup Effects) /\ ~Has(a, {"pickMethod", "writeMethod"})
    BY DEF Has, Bars, Effects, Checks, Code, verifyWebAuthnRegistration
  <2>4. Leads(a, Spends, {"removeChallenge"})
    BY DEF Leads, Spends, verifyWebAuthnRegistration
  <2> HIDE DEF a, p
  <2>5. Ordered(op, p)
    BY <2>1, <2>2, <2>3, <2>4, OrderedWithMethod
  <2> QED
    BY <2>5 DEF p
<1>5. verifyWebAuthnAuthentication \in Seq(Calls) /\ updateVerifiedDevices \in Seq(Calls)
      /\ VerifiedOnce(s) \in Seq(Calls)
  BY SharedCalls
<1>6. CASE op = "completeWebAuthnAuthentication"
  <2> DEFINE a == verifyWebAuthnAuthentication \o VerifiedOnce(s)
  <2>1. p = a \o updateVerifiedDevices
    BY <1>6 DEF Handler, completeWebAuthnAuthentication, Always
  <2>2. a \in Seq(Calls) /\ Counting(a)
    BY <1>5, CountingShared, CountingJoin, JoinIn
  <2> HIDE DEF a, p
  <2>3. p \in Seq(Calls) /\ Counting(p)
    BY <1>5, <2>1, <2>2, CountingShared, CountingJoin, JoinIn
  <2>4. Ordered(op, p)
    BY <2>3, CountingOrdered
  <2> QED
    BY <2>4 DEF p
<1>7. CASE op = "completeWebAuthnReAuthentication"
  <2>1. p = verifyWebAuthnAuthentication
    BY <1>7 DEF Handler, completeWebAuthnReAuthentication, Always
  <2> HIDE DEF p
  <2>2. Ordered(op, p)
    BY <1>5, <2>1, CountingShared, CountingOrdered
  <2> QED
    BY <2>2 DEF p
<1>8. CASE op = "changePasswordWithWebAuthn"
  <2> DEFINE a == <<"readKeys">>
             b == <<"setPassword">>
  <2>1. p = (a \o verifyWebAuthnAuthentication) \o b
    BY <1>8 DEF Handler, changePasswordWithWebAuthn
  <2>2. /\ a \in Seq(Calls) /\ Counting(a) /\ ~Has(a, Effects)
        /\ b \in Seq(Calls) /\ Counting(b) /\ ~Has(b, Checks \cup Effects)
    BY CountingShared DEF Calls
  <2> HIDE DEF a, b, p
  <2>3. a \o verifyWebAuthnAuthentication \in Seq(Calls)
        /\ Counting(a \o verifyWebAuthnAuthentication)
    BY <1>5, <2>2, CountingShared, CountingJoin, JoinIn
  <2>4. p \in Seq(Calls) /\ Counting(p)
    BY <2>1, <2>2, <2>3, CountingJoin, JoinIn
  <2>5. Ordered(op, p)
    BY <2>4, CountingOrdered
  <2> QED
    BY <2>5 DEF p
<1>9. CASE op = "setTwoFactorMethod"
  <2>1. p = <<"readKeys", "writeMethod">>
    BY <1>9 DEF Handler, setTwoFactorMethod, Always
  <2>2. /\ ~Has(p, Effects) /\ ~Has(p, {"createKey", "deleteKey"})
        /\ ~Has(p, {"pickMethod"}) /\ ~Has(p, Spends)
    BY <2>1 DEF Has, Effects, Spends
  <2>3. Bars(p, {"writeMethod"}, {"readKeys", "pickMethod"})
    BY <2>1 DEF Bars
  <2> HIDE DEF p
  <2>4. Ordered(op, p)
    BY <1>1, <2>2, <2>3, LeadsNone, BarsNone DEF Ordered
  <2> QED
    BY <2>4 DEF p
<1>10. CASE op \notin {"setupYubikey", "removeYubikey", "completeWebAuthnRegistration",
                      "completeWebAuthnAuthentication", "completeWebAuthnReAuthentication",
                      "changePasswordWithWebAuthn", "setTwoFactorMethod"}
  <2>1. CallsOf(op) \cap (Effects \cup {"pickMethod", "writeMethod"}) = {}
    BY <1>10 DEF Operations, CallsOf, Effects, Resetting, Mailing, Inviting, Code
  <2> HIDE DEF p
  <2>2. Ordered(op, p)
    BY <1>1, <2>1, HasNone, Unordered
  <2> QED
    BY <2>2 DEF p
<1> QED
  BY <1>2, <1>3, <1>4, <1>6, <1>7, <1>8, <1>9, <1>10

LEMMA ProgramsFixed ==
    ASSUME NEW op \in Operations, NEW u, NEW s, NEW held
    PROVE  /\ Fixed(op, Handler(op, u, s, held).calls)
           /\ op \in Inviting =>
                Handler(op, u, s, held).calls = <<"createRow", "saveToken", "sendMail">>
<1>1. CASE op \in Mailing
  BY <1>1 DEF Fixed, Mailing, Inviting, Resetting, Handler, Always, adminReset2FAForUser,
     forgotPassword, adminResetPassword, createByInvitation, importUsers
<1>2. CASE op \in Resetting
  BY <1>2 DEF Fixed, Mailing, Inviting, Resetting, Handler, Always, disable2FA,
     confirm2FAReset
<1>3. CASE op \in {"resetPassword", "create", "delete"}
  BY <1>3 DEF Fixed, Mailing, Inviting, Resetting, Handler, Always, resetPassword, create,
     delete
<1>4. CASE op \notin Mailing \cup Resetting \cup {"resetPassword", "create", "delete"}
  BY <1>4 DEF Fixed, Mailing
<1> QED
  BY <1>1, <1>2, <1>3, <1>4

LEMMA ProgramsDrawKeys ==
    ASSUME NEW op \in Operations, NEW u, NEW s, NEW held,
           Has(Handler(op, u, s, held).calls, KeyUses)
    PROVE  Has(Handler(op, u, s, held).calls, KeySources)
<1> DEFINE p == Handler(op, u, s, held).calls
<1>1. p \in Seq(CallsOf(op)) /\ p \in Seq(Calls)
  BY ProgramsIn, CallsOfCalls
<1>2. CASE op \in {"setupYubikey", "verifyYubikey", "removeYubikey",
                   "completeWebAuthnRegistration", "completeWebAuthnAuthentication",
                   "completeWebAuthnReAuthentication", "changePasswordWithWebAuthn"}
  <2> DEFINE a == <<"readKeys", "checkYubikey", "notRegistered">>
             b == <<"checkYubikey", "registered">>
             c == <<"ownsKey", "deleteKey">>
             d == <<"readKeys">>
             e == <<"setPassword">>
  <2>1. /\ a \in Seq(Calls) /\ b \in Seq(Calls) /\ c \in Seq(Calls) /\ d \in Seq(Calls)
        /\ e \in Seq(Calls)
    BY DEF Calls
  <2>2. /\ Has(a, KeySources) /\ Has(b, KeySources) /\ Has(c, KeySources)
        /\ Has(verifyWebAuthnRegistration, KeySources)
        /\ Has(verifyWebAuthnAuthentication, KeySources)
    BY DEF Has, KeySources, verifyWebAuthnRegistration, verifyWebAuthnAuthentication
  <2>3. p \in {(a \o addYubikeyToUser) \o autoUpdateTwoFactorMethod,
              b \o updateVerifiedDevices, c \o autoUpdateTwoFactorMethod,
              verifyWebAuthnRegistration \o autoUpdateTwoFactorMethod,
              (verifyWebAuthnAuthentication \o VerifiedOnce(s)) \o updateVerifiedDevices,
              verifyWebAuthnAuthentication, (d \o verifyWebAuthnAuthentication) \o e}
    <3>1. op = "setupYubikey" => p = (a \o addYubikeyToUser) \o autoUpdateTwoFactorMethod
      BY DEF Handler, setupYubikey
    <3>2. op = "verifyYubikey" => p = b \o updateVerifiedDevices
      BY DEF Handler, Always, verifyYubikey
    <3>3. op = "removeYubikey" => p = c \o autoUpdateTwoFactorMethod
      BY DEF Handler, Always, removeYubikey
    <3>4. op = "completeWebAuthnRegistration" =>
            p = verifyWebAuthnRegistration \o autoUpdateTwoFactorMethod
      BY DEF Handler, Always, completeWebAuthnRegistration
    <3>5. op = "completeWebAuthnAuthentication" =>
            p = (verifyWebAuthnAuthentication \o VerifiedOnce(s)) \o updateVerifiedDevices
      BY DEF Handler, Always, completeWebAuthnAuthentication
    <3>6. op = "completeWebAuthnReAuthentication" => p = verifyWebAuthnAuthentication
      BY DEF Handler, Always, completeWebAuthnReAuthentication
    <3>7. op = "changePasswordWithWebAuthn" => p = (d \o verifyWebAuthnAuthentication) \o e
      BY DEF Handler, changePasswordWithWebAuthn
    <3> HIDE DEF a, b, c, d, e, p
    <3> QED
      BY <1>2, <3>1, <3>2, <3>3, <3>4, <3>5, <3>6, <3>7
  <2> HIDE DEF a, b, c, d, e, p
  <2>4. Has(p, KeySources)
    BY <2>1, <2>2, <2>3, SharedCalls, JoinIn, HasJoin
  <2> QED
    BY <2>4 DEF p
<1>3. CASE op \in {"verify2FACode", "verifySession2FA", "changePasswordWith2FA"}
  <2> DEFINE a == <<"readKeys", "checkCode", "setVerified">>
             b == <<"readKeys", "checkCode">>
             c == <<"readKeys", "checkCode", "setPassword">>
  <2>1. a \in Seq(Calls) /\ b \in Seq(Calls) /\ c \in Seq(Calls)
    BY DEF Calls
  <2>2. /\ ~Has(a, KeyUses) /\ ~Has(b, KeyUses) /\ ~Has(c, KeyUses)
        /\ ~Has(VerifiedOnce(s), KeyUses) /\ ~Has(updateVerifiedDevices, KeyUses)
    BY DEF Has, KeyUses, VerifiedOnce, updateVerifiedDevices
  <2>3. p \in {a \o updateVerifiedDevices, (b \o VerifiedOnce(s)) \o updateVerifiedDevices, c}
    BY <1>3 DEF Handler, verify2FACode, verifySession2FA, changePasswordWith2FA
  <2> HIDE DEF a, b, c, p
  <2>4. /\ updateVerifiedDevices \in Seq(Calls) /\ VerifiedOnce(s) \in Seq(Calls)
        /\ b \o VerifiedOnce(s) \in Seq(Calls)
    BY <2>1, SharedCalls, JoinIn
  <2>5. ~Has(a \o updateVerifiedDevices, KeyUses) /\ ~Has(b \o VerifiedOnce(s), KeyUses)
    BY <2>1, <2>2, <2>4, HasJoin
  <2>6. ~Has((b \o VerifiedOnce(s)) \o updateVerifiedDevices, KeyUses)
    <3> DEFINE d == b \o VerifiedOnce(s)
    <3>1. d \in Seq(Calls) /\ ~Has(d, KeyUses)
      BY <2>4, <2>5
    <3> HIDE DEF d
    <3>2. ~Has(d \o updateVerifiedDevices, KeyUses)
      BY <2>2, <2>4, <3>1, HasJoin
    <3> QED
      BY <3>2 DEF d
  <2>7. ~Has(p, KeyUses)
    BY <2>2, <2>3, <2>5, <2>6
  <2> QED
    BY <2>7 DEF p
<1>4. CASE op \notin {"setupYubikey", "verifyYubikey", "removeYubikey",
                   "completeWebAuthnRegistration", "completeWebAuthnAuthentication",
                   "completeWebAuthnReAuthentication", "changePasswordWithWebAuthn",
                   "verify2FACode", "verifySession2FA", "changePasswordWith2FA"}
  <2>1. CallsOf(op) \cap KeyUses = {}
    BY <1>4 DEF Operations, CallsOf, KeyUses, Resetting, Mailing, Inviting, Code
  <2> HIDE DEF p
  <2> QED
    BY <1>1, <2>1, HasNone DEF p
<1> QED
  BY <1>2, <1>3, <1>4

----------------------------------------------------------------------------
(***************************************************************************)
(* What a call makes of its frame: the next call is the next of the todo,  *)
(* but for the lookup of a YubiKey and what a login reads.                 *)
(***************************************************************************)
Follows(f, g) ==
    /\ g \in Frame /\ g.op = f.op /\ g.user = f.user
    /\ \/ g.todo = Tail(f.todo)
       \/ /\ Head(f.todo) = "checkCode"
          /\ g.todo = <<"checkYubikey", "registered">> \o Tail(f.todo)
       \/ /\ Head(f.todo) \in {"needsVerification", "needsSetup"}
          /\ g.todo \in Seq({"needsSetup", "saveSecret", "giveTemporary"})
    /\ Head(f.todo) = "getChallenge" \/ g.grant = f.grant
    /\ Head(f.todo) = "saveToken" \/ g.token = f.token
    /\ Head(f.todo) = "readRow" \/ g.snap = f.snap
    /\ Head(f.todo) \in {"pickMethod", "readKeys"} \/ g.method = f.method
    /\ IF Head(f.todo) \in KeySources THEN g.key \in Keys ELSE g.key = f.key

Turns(r) ==
    \/ req' = [req EXCEPT ![r] = NoRequest]
    \/ \E g : req' = [req EXCEPT ![r] = g] /\ Follows(req[r], g)

LEMMA ThenTurns ==
    ASSUME IInv, NEW r \in Requests, ~Idle(r), NEW f \in Frame, NEW rest \in Seq(Calls),
           rest # <<>> => Follows(req[r], [f EXCEPT !.todo = rest]), Then(r, f, rest)
    PROVE  Turns(r)
  BY DEF Then, Turns

\* The frame goes on with its next call, with what the call found.
LEMMA ProceedTurns ==
    ASSUME IInv, NEW r \in Requests, ~Idle(r), NEW f \in Frame, Proceed(r, f),
           f.todo = req[r].todo, f.op = req[r].op, f.user = req[r].user,
           At(r, "getChallenge") \/ f.grant = req[r].grant,
           At(r, "saveToken") \/ f.token = req[r].token,
           At(r, "readRow") \/ f.snap = req[r].snap,
           At(r, "pickMethod") \/ At(r, "readKeys") \/ f.method = req[r].method,
           IF Head(req[r].todo) \in KeySources THEN f.key \in Keys ELSE f.key = req[r].key
    PROVE  Turns(r)
<1> DEFINE rest == Tail(req[r].todo)
<1>1. rest \in Seq(Calls)
  BY OpenFrame
<1>2. Then(r, f, rest)
  BY DEF Proceed
<1> HIDE DEF rest
<1>3. rest # <<>> => [f EXCEPT !.todo = rest] \in Frame
  BY <1>1 DEF Frame
<1>4. rest # <<>> => Follows(req[r], [f EXCEPT !.todo = rest])
  BY <1>3 DEF Follows, At, rest, Frame
<1> QED
  BY <1>1, <1>2, <1>4, ThenTurns

LEMMA RefuseTurns ==
    ASSUME NEW r, Refuse(r)
    PROVE  Turns(r)
  BY DEF Refuse, Turns

LEMMA AnsweredTurns ==
    ASSUME IInv, NEW r \in Requests, ~Idle(r), Head(req[r].todo) \notin KeySources,
           Answered(r, req[r])
    PROVE  Turns(r)
<1>1. req[r] \in Frame
  BY OpenFrame DEF OnceFrame
<1> QED
  BY <1>1, ProceedTurns, RefuseTurns DEF Answered, Caught

LEMMA RowCallTurns ==
    ASSUME IInv, NEW r \in Requests, RowCall(r)
    PROVE  Turns(r)
<1>0. ~Idle(r) /\ User(r) \in Users /\ req[r] \in Frame
  BY OpenFrame DEF RowCall, At, ReadRow, SaveSecret, SetVerified, WriteMethod, OnceFrame,
     WriteDevices, RemoveDevice, ResetTwoFactor, CreateRow, DeleteRow, SaveToken, SetPassword
<1>1. CASE ReadRow(r)
  <2>1. [req[r] EXCEPT !.snap = row[User(r)]] \in Frame
    BY <1>0, <1>1 DEF ReadRow, Exists, IInv, TypeOK, Frame
  <2>2. Head(req[r].todo) \notin KeySources /\ At(r, "readRow")
    BY <1>1 DEF ReadRow, At, KeySources
  <2> QED
    BY <1>0, <1>1, <2>1, <2>2, ProceedTurns DEF ReadRow, Frame
<1>2. CASE SaveToken(r)
  <2> DEFINE t == tokens + 1
             f == [req[r] EXCEPT !.token = t]
  <2>1. t \in 0..MaxTokens /\ Answered(r, f) /\ At(r, "saveToken")
    BY <1>2, UsersAssumption DEF SaveToken, IInv, TypeOK
  <2>2. f \in Frame /\ f.todo = req[r].todo /\ f.op = req[r].op /\ f.user = req[r].user
        /\ f.grant = req[r].grant /\ f.snap = req[r].snap /\ f.method = req[r].method
        /\ f.key = req[r].key
    BY <1>0, <2>1 DEF Frame
  <2>3. Head(req[r].todo) \notin KeySources
    BY <2>1 DEF At, KeySources
  <2> HIDE DEF t, f
  <2> QED
    BY <1>0, <2>1, <2>2, <2>3, ProceedTurns, RefuseTurns DEF Answered, Caught
<1>3. CASE ~ReadRow(r) /\ ~SaveToken(r)
  <2>1. Answered(r, req[r]) /\ Head(req[r].todo) \notin KeySources
    BY <1>3 DEF RowCall, SaveSecret, SetVerified, WriteMethod, WriteDevices, RemoveDevice,
       ResetTwoFactor, CreateRow, DeleteRow, SetPassword, Write, Update, At, KeySources
  <2> QED
    BY <1>0, <2>1, AnsweredTurns
<1> QED
  BY <1>1, <1>2, <1>3

LEMMA KeyCallTurns ==
    ASSUME IInv, NEW r \in Requests, KeyCall(r)
    PROVE  Turns(r)
<1>0. ~Idle(r) /\ User(r) \in Users /\ req[r] \in Frame
  BY OpenFrame DEF KeyCall, At, ReadKeys, PickMethod, CheckYubikey, Registered, OnceFrame,
     NotRegistered, FindKey, CreateKey, OwnsKey, DeleteKey, DeleteKeys, CheckCode
<1>1. ASSUME NEW m \in Methods, Proceed(r, [req[r] EXCEPT !.method = m]),
             At(r, "pickMethod") \/ At(r, "readKeys")
      PROVE  Turns(r)
  <2> DEFINE f == [req[r] EXCEPT !.method = m]
  <2>1. f \in Frame /\ f.todo = req[r].todo /\ f.op = req[r].op /\ f.user = req[r].user
        /\ f.grant = req[r].grant /\ f.snap = req[r].snap /\ f.token = req[r].token
        /\ f.key = req[r].key
    BY <1>0 DEF Frame
  <2>2. Head(req[r].todo) \notin KeySources
    BY <1>1 DEF At, KeySources
  <2> HIDE DEF f
  <2> QED
    BY <1>0, <1>1, <2>1, <2>2, ProceedTurns DEF f
<1>2. ASSUME NEW k \in Keys, Proceed(r, [req[r] EXCEPT !.key = k]),
             Head(req[r].todo) \in KeySources
      PROVE  Turns(r)
  <2> DEFINE f == [req[r] EXCEPT !.key = k]
  <2>1. f \in Frame /\ f.todo = req[r].todo /\ f.op = req[r].op /\ f.user = req[r].user
        /\ f.grant = req[r].grant /\ f.snap = req[r].snap /\ f.token = req[r].token
        /\ f.method = req[r].method /\ f.key \in Keys
    BY <1>0 DEF Frame
  <2> HIDE DEF f
  <2> QED
    BY <1>0, <1>2, <2>1, ProceedTurns DEF f
<1>3. ASSUME Proceed(r, req[r]), Head(req[r].todo) \notin KeySources PROVE Turns(r)
  BY <1>0, <1>3, ProceedTurns
<1>4. CASE ReadKeys(r)
  <2>1. Refuse(r) \/ \E m \in Methods : Proceed(r, [req[r] EXCEPT !.method = m])
    BY <1>4 DEF ReadKeys
  <2> QED
    BY <1>1, <1>4, <2>1, RefuseTurns DEF ReadKeys
<1>5. CASE PickMethod(r)
  <2>1. AutoMethod(Snap(r), KeysOf(User(r))) \in Methods
    BY DEF AutoMethod, Methods
  <2> QED
    BY <1>1, <1>5, <2>1 DEF PickMethod
<1>6. CASE CheckYubikey(r)
  <2>1. Refuse(r) \/ \E k \in Keys : Proceed(r, [req[r] EXCEPT !.key = k])
    BY <1>6 DEF CheckYubikey
  <2>2. Head(req[r].todo) \in KeySources
    BY <1>6 DEF CheckYubikey, At, KeySources
  <2> QED
    BY <1>2, <2>1, <2>2, RefuseTurns
<1>7. CASE OwnsKey(r)
  <2>1. Refuse(r) \/ \E k \in Keys : Proceed(r, [req[r] EXCEPT !.key = k])
    BY <1>7 DEF OwnsKey, KeysOf
  <2>2. Head(req[r].todo) \in KeySources
    BY <1>7 DEF OwnsKey, At, KeySources
  <2> QED
    BY <1>2, <2>1, <2>2, RefuseTurns
<1>8. CASE Registered(r) \/ NotRegistered(r) \/ FindKey(r)
  <2>1. Refuse(r) \/ Proceed(r, req[r])
    BY <1>8 DEF Registered, NotRegistered, FindKey
  <2>2. Head(req[r].todo) \notin KeySources
    BY <1>8 DEF Registered, NotRegistered, FindKey, At, KeySources
  <2> QED
    BY <1>3, <2>1, <2>2, RefuseTurns
<1>9. CASE CreateKey(r) \/ DeleteKey(r) \/ DeleteKeys(r)
  <2>1. Answered(r, req[r]) /\ Head(req[r].todo) \notin KeySources
    BY <1>9 DEF CreateKey, DeleteKey, DeleteKeys, Delete, At, KeySources
  <2> QED
    BY <1>0, <2>1, AnsweredTurns
<1>10. CASE CheckCode(r)
  <2> DEFINE rest == <<"checkYubikey", "registered">> \o Tail(req[r].todo)
  <2>1. /\ Head(req[r].todo) \notin KeySources /\ Head(req[r].todo) = "checkCode"
        /\ Refuse(r) \/ Proceed(r, req[r]) \/ Then(r, req[r], rest)
    BY <1>10 DEF CheckCode, At, KeySources
  <2>2. CASE Then(r, req[r], rest)
    <3>1. <<"checkYubikey", "registered">> \in Seq(Calls) \ {<<>>}
      BY DEF Calls
    <3>2. rest \in Seq(Calls) \ {<<>>}
      BY <1>0, <3>1, OpenFrame, JoinCalls
    <3>3. Follows(req[r], [req[r] EXCEPT !.todo = rest])
      <4> HIDE DEF rest
      <4>1. [req[r] EXCEPT !.todo = rest] \in Frame
        BY <1>0, <3>2 DEF Frame
      <4> QED
        BY <1>0, <2>1, <4>1 DEF Follows, Frame, rest
    <3> HIDE DEF rest
    <3> QED
      BY <1>0, <2>2, <3>2, <3>3, ThenTurns
  <2> HIDE DEF rest
  <2> QED
    BY <1>3, <2>1, <2>2, RefuseTurns
<1> QED
  BY <1>4, <1>5, <1>6, <1>7, <1>8, <1>9, <1>10 DEF KeyCall

LEMMA OtherCallTurns ==
    ASSUME IInv, NEW r \in Requests, OtherCall(r) \/ CallFails(r)
    PROVE  Turns(r)
<1>0. ~Idle(r) /\ User(r) \in Users /\ req[r] \in Frame
  BY OpenFrame DEF OtherCall, At, StoreChallenge, GetChallenge, Credential, UpdateCounter,
     RemoveChallenge, SendMail, NeedsVerification, NeedsSetup, GiveTemporary, CallFails,
     OnceFrame
<1>1. ASSUME Proceed(r, req[r]), Head(req[r].todo) \notin KeySources PROVE Turns(r)
  BY <1>0, <1>1, ProceedTurns
<1>2. CASE StoreChallenge(r) \/ RemoveChallenge(r) \/ Credential(r) \/ GiveTemporary(r)
  <2>1. /\ Refuse(r) \/ Proceed(r, req[r])
        /\ Head(req[r].todo) \notin KeySources
    BY <1>2 DEF StoreChallenge, RemoveChallenge, Credential, GiveTemporary, At, KeySources
  <2> QED
    BY <1>1, <2>1, RefuseTurns
<1>3. CASE UpdateCounter(r) \/ SendMail(r)
  <2>1. Answered(r, req[r]) /\ Head(req[r].todo) \notin KeySources
    BY <1>3 DEF UpdateCounter, SendMail, At, KeySources
  <2> QED
    BY <1>0, <2>1, AnsweredTurns
<1>4. CASE CallFails(r)
  BY <1>4, RefuseTurns DEF CallFails, Caught
<1>5. CASE GetChallenge(r)
  <2>1. At(r, "getChallenge") /\ Head(req[r].todo) \in KeySources
    BY <1>5 DEF GetChallenge, At, KeySources
  <2>2. ASSUME NEW c \in Challenges, NEW k \in Keys,
               Proceed(r, [req[r] EXCEPT !.grant = c, !.key = k])
        PROVE  Turns(r)
    <3> DEFINE f == [req[r] EXCEPT !.grant = c, !.key = k]
    <3>1. f \in Frame /\ f.todo = req[r].todo /\ f.op = req[r].op /\ f.user = req[r].user
          /\ f.snap = req[r].snap /\ f.token = req[r].token
          /\ f.method = req[r].method /\ f.key \in Keys
      BY <1>0 DEF Frame, Grants
    <3> HIDE DEF f
    <3> QED
      BY <1>0, <2>1, <2>2, <3>1, ProceedTurns DEF f
  <2> QED
    BY <1>5, <2>2, RefuseTurns, UsersAssumption DEF GetChallenge
<1>6. ASSUME NEW rest \in Seq({"needsSetup", "saveSecret", "giveTemporary"}),
             At(r, "needsVerification") \/ At(r, "needsSetup"), Then(r, req[r], rest)
      PROVE  Turns(r)
  <2>1. rest \in Seq(Calls)
    BY DEF Calls
  <2>2. Head(req[r].todo) \notin KeySources
    BY <1>6 DEF At, KeySources
  <2>3. rest # <<>> => [req[r] EXCEPT !.todo = rest] \in Frame
    BY <1>0, <2>1 DEF Frame
  <2>4. rest # <<>> => Follows(req[r], [req[r] EXCEPT !.todo = rest])
    BY <1>0, <1>6, <2>2, <2>3 DEF Follows, At, Frame
  <2> QED
    BY <1>0, <1>6, <2>1, <2>4, ThenTurns
<1>7. CASE NeedsVerification(r)
  <2>1. /\ <<"needsSetup">> \o <<"giveTemporary">>
             \in Seq({"needsSetup", "saveSecret", "giveTemporary"})
        /\ <<"needsSetup">> \o <<>> \in Seq({"needsSetup", "saveSecret", "giveTemporary"})
    OBVIOUS
  <2>2. \/ Then(r, req[r], <<"needsSetup">> \o <<"giveTemporary">>)
        \/ Then(r, req[r], <<"needsSetup">> \o <<>>)
    BY <1>7 DEF NeedsVerification
  <2>3. At(r, "needsVerification")
    BY <1>7 DEF NeedsVerification
  <2> QED
    BY <1>6, <2>1, <2>2, <2>3
<1>8. CASE NeedsSetup(r)
  <2>1. <<"saveSecret", "giveTemporary">>
          \in Seq({"needsSetup", "saveSecret", "giveTemporary"})
    OBVIOUS
  <2>2. /\ At(r, "needsSetup") /\ Head(req[r].todo) \notin KeySources
        /\ Then(r, req[r], <<"saveSecret", "giveTemporary">>) \/ Proceed(r, req[r])
    BY <1>8 DEF NeedsSetup, At, KeySources
  <2> QED
    BY <1>1, <1>6, <2>1, <2>2
<1> QED
  BY <1>2, <1>3, <1>4, <1>5, <1>6, <1>7, <1>8 DEF OtherCall

LEMMA SeqMore ==
    ASSUME NEW S, NEW T, S \subseteq T, NEW s \in Seq(S)
    PROVE  s \in Seq(T)
  OBVIOUS

LEMMA FollowsCourse ==
    ASSUME IInv, NEW r \in Requests, ~Idle(r), OnCourse(req[r]), NEW g, Follows(req[r], g)
    PROVE  OnCourse(g)
<1> DEFINE f == req[r]
           s == f.todo
<1>1. f \in Frame /\ f.op \in Operations /\ s \in Seq(Calls) \ {<<>>}
  BY OpenFrame DEF OnceFrame
<1>2. g \in Frame /\ g.op = f.op /\ g.todo \in Seq(Calls) \ {<<>>}
  BY DEF Follows, Frame
<1>3. Course(f.op, s) /\ s \in Seq(CallsOf(f.op)) /\ Head(s) \in CallsOf(f.op)
  BY <1>1 DEF OnCourse, Course
<1>4. CASE g.todo = Tail(s)
  <2>1. Tail(s) \in Seq(CallsOf(f.op))
    <3> HIDE DEF f, s
    <3> QED
      BY <1>1, <1>3
  <2>2. Ordered(f.op, Tail(s))
    <3> HIDE DEF f, s
    <3> QED
      BY <1>1, <1>3, LeadsTail, BarsTail DEF Course, Ordered
  <2>3. Fixed(f.op, Tail(s))
    <3>1. Tail(s) # <<>>
      BY <1>2, <1>4
    <3> HIDE DEF f, s
    <3>2. s \notin {<<"sendMail">>, <<"resetTwoFactor">>, <<"setPassword">>, <<"createRow">>,
                     <<"deleteRow">>}
      <4>1. /\ Tail(<<"sendMail">>) = <<>> /\ Tail(<<"resetTwoFactor">>) = <<>>
            /\ Tail(<<"setPassword">>) = <<>> /\ Tail(<<"createRow">>) = <<>>
            /\ Tail(<<"deleteRow">>) = <<>>
        OBVIOUS
      <4> QED
        BY <3>1, <4>1
    <3>3. /\ Tail(<<"createRow", "saveToken", "sendMail">>) = <<"saveToken", "sendMail">>
          /\ Tail(<<"saveToken", "sendMail">>) = <<"sendMail">>
          /\ Tail(<<"deleteKeys", "resetTwoFactor">>) = <<"resetTwoFactor">>
      OBVIOUS
    <3>4. Fixed(f.op, s)
      BY <1>3 DEF Course
    <3>5. f.op \in Mailing => Tail(s) \in {<<"saveToken", "sendMail">>, <<"sendMail">>}
      BY <3>2, <3>3, <3>4 DEF Fixed
    <3>6. f.op \in Resetting => Tail(s) = <<"resetTwoFactor">>
      BY <3>2, <3>3, <3>4 DEF Fixed
    <3>7. f.op \notin {"resetPassword", "create", "delete"}
      BY <3>2, <3>4 DEF Fixed
    <3> QED
      BY <3>5, <3>6, <3>7 DEF Fixed
  <2>4. Has(g.todo, KeyUses) => Has(g.todo, KeySources) \/ g.key \in Keys
    <3>1. Has(Tail(s), KeyUses) => Has(s, KeyUses)
      BY <1>1, HasTail
    <3>2. Has(s, KeySources) <=> Head(s) \in KeySources \/ Has(Tail(s), KeySources)
      BY <1>1, HasTail
    <3> QED
      BY <1>4, <3>1, <3>2 DEF Follows, OnCourse
  <2> QED
    BY <1>2, <1>4, <2>1, <2>2, <2>3, <2>4 DEF OnCourse, Course
<1>5. CASE Head(s) = "checkCode" /\ g.todo = <<"checkYubikey", "registered">> \o Tail(s)
  <2> DEFINE a == <<"checkYubikey", "registered">>
             t == Tail(s)
  <2>1. f.op \in {"verify2FACode", "verifySession2FA", "changePasswordWith2FA"}
    <3> HIDE DEF f, s
    <3> QED
      BY <1>1, <1>3, <1>5 DEF Operations, CallsOf, Resetting, Mailing, Inviting, Code, Counted,
         Chosen
  <2>2. a \in Seq(CallsOf(f.op))
    <3>1. {"checkYubikey", "registered"} \subseteq CallsOf(f.op)
      <4> HIDE DEF f
      <4> QED
        BY <2>1 DEF CallsOf, Resetting, Mailing, Inviting, Code
    <3> HIDE DEF f, s
    <3> QED
      BY <3>1
  <2>3. t \in Seq(CallsOf(f.op)) /\ t \in Seq(Calls) /\ a \in Seq(Calls)
    <3>1. a \in Seq(Calls)
      BY DEF Calls
    <3> HIDE DEF f, s, a
    <3> QED
      BY <1>1, <1>3, <3>1
  <2>4. Ordered(f.op, t)
    <3> HIDE DEF f, s
    <3> QED
      BY <1>1, <1>3, LeadsTail, BarsTail DEF Course, Ordered
  <2>5. /\ ~Has(a, Effects) /\ ~Has(a, {"createKey", "deleteKey"}) /\ ~Has(a, {"pickMethod"})
        /\ ~Has(a, {"writeMethod"}) /\ ~Has(a, Spends) /\ Has(a, KeySources)
    BY DEF Has, Effects, Spends, KeySources
  <2> HIDE DEF a, t, f, s
  <2>6. a \o t \in Seq(CallsOf(f.op))
    BY <2>2, <2>3, JoinIn
  <2>7. Ordered(f.op, a \o t)
    <3>1. Bars(a, Effects, Checks \cup Effects)
          /\ Bars(a, {"writeMethod"}, {"readKeys", "pickMethod"})
      BY <2>3, <2>5, BarsNone
    <3>2. Bars(a \o t, Effects, Checks \cup Effects)
      BY <2>3, <2>4, <2>5, <3>1, BarsJoin DEF Ordered
    <3>3. Bars(a \o t, {"writeMethod"}, {"readKeys", "pickMethod"})
      BY <2>3, <2>4, <2>5, <3>1, BarsJoin DEF Ordered
    <3>4. Leads(a \o t, {"createKey", "deleteKey"}, {"pickMethod"})
      BY <2>3, <2>4, <2>5, LeadsJoin DEF Ordered
    <3>5. Leads(a \o t, {"pickMethod"}, {"writeMethod"})
      BY <2>3, <2>4, <2>5, LeadsJoin DEF Ordered
    <3>6. f.op \notin Challenged
      BY <2>1 DEF Challenged
    <3> QED
      BY <3>2, <3>3, <3>4, <3>5, <3>6 DEF Ordered
  <2>8. Fixed(f.op, a \o t)
    BY <2>1 DEF Fixed, Mailing, Inviting, Resetting
  <2>9. Has(a \o t, KeySources)
    BY <2>3, <2>5, HasJoin
  <2>10. g.todo = a \o t
    BY <1>5 DEF a, t
  <2> QED
    BY <1>2, <2>6, <2>7, <2>8, <2>9, <2>10 DEF OnCourse, Course
<1>6. CASE /\ Head(s) \in {"needsVerification", "needsSetup"}
           /\ g.todo \in Seq({"needsSetup", "saveSecret", "giveTemporary"})
  <2>1. f.op = "login"
    <3> HIDE DEF f, s
    <3> QED
      BY <1>1, <1>3, <1>6 DEF Operations, CallsOf, Resetting, Mailing, Inviting, Code, Counted,
         Chosen
  <2>2. {"needsSetup", "saveSecret", "giveTemporary"} \subseteq CallsOf(g.op)
    BY <1>2, <2>1 DEF CallsOf, Resetting, Mailing, Inviting
  <2> DEFINE S == {"needsSetup", "saveSecret", "giveTemporary"}
  <2>3. g.todo \in Seq(CallsOf(g.op))
    <3>1. g.todo \in Seq(S) /\ S \subseteq CallsOf(g.op)
      BY <1>6, <2>2
    <3> HIDE DEF S
    <3> QED
      BY <3>1, SeqMore
  <2>4. ~Has(g.todo, Effects \cup {"pickMethod", "writeMethod"}) /\ ~Has(g.todo, KeyUses)
    <3>1. /\ g.todo \in Seq(S) /\ S \cap KeyUses = {}
          /\ S \cap (Effects \cup {"pickMethod", "writeMethod"}) = {}
      BY <1>6 DEF Effects, KeyUses
    <3> HIDE DEF S
    <3> QED
      BY <3>1, HasNone
  <2>5. Ordered(g.op, g.todo)
    BY <1>2, <2>4, Unordered
  <2>6. Fixed(g.op, g.todo)
    BY <1>2, <2>1 DEF Fixed, Mailing, Inviting, Resetting
  <2> QED
    BY <2>3, <2>4, <2>5, <2>6 DEF OnCourse, Course
<1> QED
  BY <1>4, <1>5, <1>6 DEF Follows

\* How a request starts.
LEMMA BeginRuns ==
    ASSUME IInv, NEW r \in Requests, Begin(r)
    PROVE  \E op \in Operations, u \in Users : \E s, g :
               /\ Run(r, op, u, s, g)
               /\ op \notin Creating => Exists(u) /\ s = row[u]
               /\ op \in ByToken => g \in Tokens /\ g = TokenOf(op, u)
               /\ op \in ByChallenge => g \in Challenges /\ challenge[g] = u
               /\ op \notin ByToken \cup ByChallenge => g = NoGrant
<1>1. CASE BeginWithUser(r)
  BY <1>1 DEF BeginWithUser
<1>2. CASE BeginWithEmail(r)
  <2>1. PICK op \in ByEmail, e \in Users :
          Exists(Lower[e]) /\ Run(r, op, Lower[e], row[Lower[e]], NoGrant)
    BY <1>2 DEF BeginWithEmail
  <2>2. Lower[e] \in Users /\ op \in Operations /\ op \notin ByToken \cup ByChallenge
        /\ op \notin Creating
    BY <2>1, UsersAssumption DEF ByEmail, Operations, ByToken, ByChallenge, Creating
  <2> QED
    BY <2>1, <2>2
<1>3. CASE BeginWithToken(r)
  <2>1. PICK op \in ByToken, u \in Users :
          /\ Exists(u) /\ TokenOf(op, u) \in mailed \ {0}
          /\ Run(r, op, u, row[u], TokenOf(op, u))
    BY <1>3 DEF BeginWithToken
  <2>2. TokenOf(op, u) \in Tokens
    <3>1. TokenOf(op, u) \in 0..MaxTokens /\ TokenOf(op, u) # 0
      BY <2>1 DEF IInv, TypeOK
    <3> QED
      BY <3>1, UsersAssumption DEF Tokens
  <2>3. op \in Operations /\ op \notin ByChallenge /\ op \notin Creating
    BY DEF ByToken, Operations, ByChallenge, Creating
  <2> QED
    BY <2>1, <2>2, <2>3
<1>4. CASE BeginWithChallenge(r)
  <2>1. PICK op \in ByChallenge, c \in Challenges :
          /\ challenge[c] \in Users /\ Exists(challenge[c])
          /\ Run(r, op, challenge[c], row[challenge[c]], c)
    BY <1>4 DEF BeginWithChallenge
  <2>2. op \in Operations /\ op \notin ByToken /\ op \notin Creating
    BY DEF ByToken, Operations, ByChallenge, Creating
  <2> QED
    BY <2>1, <2>2
<1>5. CASE BeginCreate(r)
  <2>1. PICK op \in Creating, u \in Users : Run(r, op, u, Missing, NoGrant)
    BY <1>5, UsersAssumption DEF BeginCreate
  <2>2. op \in Operations /\ op \notin ByToken \cup ByChallenge
    BY DEF Creating, Operations, ByToken, ByChallenge
  <2> QED
    BY <2>1, <2>2
<1> QED
  BY <1>1, <1>2, <1>3, <1>4, <1>5 DEF Begin

\* The frame that a request starts with.
Fresh(op, u, s, g) ==
    [op |-> op, user |-> u, todo |-> Handler(op, u, s, {}).calls, snap |-> s,
     method |-> "TOTP", key |-> NoKey, grant |-> g, token |-> 0]

LEMMA FreshOnCourse ==
    ASSUME NEW op \in Operations, NEW u, NEW s, NEW g
    PROVE  OnCourse(Fresh(op, u, s, g))
<1> DEFINE p == Handler(op, u, s, {}).calls
<1>1. Course(op, p) /\ (Has(p, KeyUses) => Has(p, KeySources))
  BY ProgramsIn, ProgramsOrdered, ProgramsFixed, ProgramsDrawKeys DEF Course
<1> QED
  BY <1>1 DEF OnCourse, Fresh

\* The steps of the system, as a frame sees them.
Moves(r) == RowCall(r) \/ KeyCall(r) \/ OtherCall(r) \/ CallFails(r)

LEMMA MovesTurn ==
    ASSUME IInv, NEW r \in Requests, Moves(r)
    PROVE  Turns(r)
  BY RowCallTurns, KeyCallTurns, OtherCallTurns DEF Moves

LEMMA MovesOpen ==
    ASSUME NEW r, Moves(r)
    PROVE  ~Idle(r)
  BY DEF Moves, RowCall, KeyCall, OtherCall, At, ReadRow, SaveSecret, SetVerified,
     WriteMethod, WriteDevices, RemoveDevice, ResetTwoFactor, CreateRow, DeleteRow, SaveToken,
     SetPassword, ReadKeys, PickMethod, CheckYubikey, Registered, NotRegistered, FindKey,
     CreateKey, OwnsKey, DeleteKey, DeleteKeys, CheckCode, StoreChallenge, GetChallenge,
     Credential, UpdateCounter, RemoveChallenge, SendMail, NeedsVerification, NeedsSetup,
     GiveTemporary, CallFails

LEMMA NextMoves ==
    ASSUME [Next]_vars
    PROVE  \/ \E r \in Requests : Begin(r) \/ Moves(r)
           \/ Stop \/ Expire \/ UNCHANGED vars
  BY DEF Next, Moves

LEMMA InitCourses == Init => Courses
  BY DEF Init, Courses, Idle

LEMMA NextCourses ==
    ASSUME IInv, Courses, [Next]_vars
    PROVE  Courses'
<1>1. ASSUME NEW r \in Requests, Begin(r) PROVE Courses'
  <2>1. \E op \in Operations, u \in Users : \E s, g : Run(r, op, u, s, g)
    BY <1>1, BeginRuns
  <2>2. PICK op \in Operations, u \in Users : \E s, g : Run(r, op, u, s, g)
    BY <2>1
  <2>3. PICK s, g : Run(r, op, u, s, g)
    BY <2>2
  <2>4. req' = [req EXCEPT ![r] = Fresh(op, u, s, g)]
    BY <2>3 DEF Run, Fresh
  <2> QED
    BY <2>4, FreshOnCourse DEF Courses, Idle, IInv, TypeOK
<1>2. ASSUME NEW r \in Requests, Moves(r) PROVE Courses'
  <2>1. Turns(r) /\ ~Idle(r)
    BY <1>2, MovesTurn, MovesOpen
  <2>2. CASE req' = [req EXCEPT ![r] = NoRequest]
    BY <2>2 DEF Courses, Idle, IInv, TypeOK
  <2>3. ASSUME NEW g, req' = [req EXCEPT ![r] = g], Follows(req[r], g) PROVE Courses'
    <3>1. OnCourse(g)
      BY <2>1, <2>3, FollowsCourse DEF Courses
    <3> QED
      BY <2>3, <3>1 DEF Courses, Idle, IInv, TypeOK
  <2> QED
    BY <2>1, <2>2, <2>3 DEF Turns
<1>3. CASE Stop
  BY <1>3 DEF Stop, Courses, Idle
<1>4. CASE Expire \/ UNCHANGED vars
  BY <1>4 DEF Expire, vars, Courses, Idle
<1> QED
  BY <1>1, <1>2, <1>3, <1>4, NextMoves

----------------------------------------------------------------------------
(***************************************************************************)
(* Tokens.  A token in a row has been mailed, or waits for the mail that   *)
(* the handler which drew it sends next; a user without a password has     *)
(* one, or waits for it.                                                   *)
(***************************************************************************)
Waiting == {<<"saveToken", "sendMail">>, <<"sendMail">>}

\* A row takes no new token, and loses its password to none.
Calmer(u) ==
    \/ /\ Exists(u)
       /\ row'[u].resetToken \in {0, row[u].resetToken}
       /\ row'[u].tfToken \in {0, row[u].tfToken}
       /\ ~row'[u].password => ~row[u].password /\ row'[u].resetToken = row[u].resetToken
    \/ row'[u].resetToken = 0 /\ row'[u].tfToken = 0 /\ row'[u].password

LEMMA CalmTokens ==
    ASSUME TokensReach, NEW r \in Requests,
           \A q \in Requests : q # r => req'[q] = req[q],
           mailed \subseteq mailed', troubled \subseteq troubled',
           ~Idle(r) /\ req[r].todo \in Waiting => User(r) \in troubled',
           \A u \in Users : Exists(u)' /\ u \notin troubled' => Calmer(u)
    PROVE  TokensReach'
<1> SUFFICES ASSUME NEW u \in Users, Exists(u)', u \notin troubled'
             PROVE  /\ row'[u].resetToken # 0 => Reaching(u, row[u].resetToken)'
                    /\ row'[u].tfToken # 0 => Reaching(u, row[u].tfToken)'
                    /\ ~row'[u].password /\ row'[u].resetToken = 0 => Invited(u)'
  BY DEF TokensReach
<1>1. CASE row'[u].resetToken = 0 /\ row'[u].tfToken = 0 /\ row'[u].password
  BY <1>1
<1>2. CASE /\ Exists(u)
           /\ row'[u].resetToken \in {0, row[u].resetToken}
           /\ row'[u].tfToken \in {0, row[u].tfToken}
           /\ ~row'[u].password => ~row[u].password /\ row'[u].resetToken = row[u].resetToken
  <2>1. /\ row[u].resetToken # 0 => Reaching(u, row[u].resetToken)
        /\ row[u].tfToken # 0 => Reaching(u, row[u].tfToken)
        /\ ~row[u].password /\ row[u].resetToken = 0 => Invited(u)
    BY <1>2 DEF TokensReach
  <2>2. ASSUME NEW t, Reaching(u, t)
        PROVE  \/ t \in mailed'
               \/ \E q \in Requests :
                    /\ ~Idle(q)' /\ req'[q].todo = <<"sendMail">> /\ req'[q].token = t
                    /\ User(q)' = u
    <3>1. CASE t \in mailed
      BY <3>1
    <3>2. ASSUME NEW q \in Requests, ~Idle(q), req[q].todo = <<"sendMail">>,
                 req[q].token = t, User(q) = u
          PROVE  /\ ~Idle(q)' /\ req'[q].todo = <<"sendMail">> /\ req'[q].token = t
                 /\ User(q)' = u
      <4>1. q # r
        BY <3>2 DEF Waiting
      <4> QED
        BY <3>2, <4>1 DEF Idle, User
    <3> QED
      BY <2>2, <3>1, <3>2 DEF Reaching
  <2>3. Invited(u) => Invited(u)'
    <3> SUFFICES ASSUME NEW q \in Requests, ~Idle(q), req[q].op \in Inviting,
                        req[q].todo = <<"saveToken", "sendMail">>, User(q) = u
                 PROVE  /\ ~Idle(q)' /\ req'[q].op \in Inviting /\ User(q)' = u
                        /\ req'[q].todo = <<"saveToken", "sendMail">>
      BY DEF Invited
    <3>1. q # r
      BY DEF Waiting
    <3> QED
      BY <3>1 DEF Idle, User
  <2>4. row'[u].resetToken # 0 => Reaching(u, row[u].resetToken)'
    BY <1>2, <2>1, <2>2 DEF Reaching
  <2>5. row'[u].tfToken # 0 => Reaching(u, row[u].tfToken)'
    BY <1>2, <2>1, <2>2 DEF Reaching
  <2> QED
    BY <1>2, <2>1, <2>3, <2>4, <2>5
<1> QED
  BY <1>1, <1>2 DEF Calmer

\* The calls that write a row, but for those that draw tokens or make accounts.
LEMMA WritesCalm ==
    ASSUME IInv, NEW r \in Requests,
           SaveSecret(r) \/ SetVerified(r) \/ WriteMethod(r) \/ WriteDevices(r)
             \/ RemoveDevice(r) \/ ResetTwoFactor(r) \/ SetPassword(r)
    PROVE  /\ ~Idle(r) /\ Head(req[r].todo) \notin {"saveToken", "sendMail"}
           /\ Answered(r, req[r]) /\ UNCHANGED mailed
           /\ \A u \in Users : Exists(u)' => Calmer(u)
<1> DEFINE u == User(r)
           s == row[User(r)]
           Mild(new) == /\ new.resetToken \in {0, s.resetToken}
                        /\ new.tfToken \in {0, s.tfToken}
                        /\ ~new.password => ~s.password /\ new.resetToken = s.resetToken
<1>0. ~Idle(r) /\ u \in Users
  BY OpenFrame DEF At, SaveSecret, SetVerified, WriteMethod, WriteDevices, RemoveDevice,
     ResetTwoFactor, SetPassword
<1>1. Head(req[r].todo) \notin {"saveToken", "sendMail"}
  BY DEF At, SaveSecret, SetVerified, WriteMethod, WriteDevices, RemoveDevice,
     ResetTwoFactor, SetPassword
<1>2. Exists(u) => s \in Row /\ s.password \in BOOLEAN
  BY <1>0 DEF IInv, TypeOK, Exists, Row
<1>3. ASSUME NEW new, Update(r, new), Exists(u) => Mild(new)
      PROVE  /\ Answered(r, req[r]) /\ UNCHANGED mailed
             /\ \A v \in Users : Exists(v)' => Calmer(v)
  <2>1. Exists(u) /\ row' = [row EXCEPT ![u] = new] /\ Answered(r, req[r]) /\ UNCHANGED mailed
    BY <1>3 DEF Update
  <2>2. ASSUME NEW v \in Users, Exists(v)' PROVE Calmer(v)
    <3>1. CASE v = u
      <4>1. row'[v] = new
        BY <1>0, <2>1, <3>1 DEF IInv, TypeOK
      <4> QED
        BY <1>3, <2>1, <3>1, <4>1 DEF Calmer
    <3>2. CASE v # u
      <4>1. row'[v] = row[v]
        BY <2>1, <3>2 DEF IInv, TypeOK
      <4> QED
        BY <2>2, <4>1 DEF Calmer, Exists
    <3> QED
      BY <3>1, <3>2
  <2> QED
    BY <2>1, <2>2
<1> HIDE DEF u
<1>4. \E new : Update(r, new) /\ (Exists(u) => Mild(new))
  <2>1. CASE SaveSecret(r)
    <3> DEFINE new == [s EXCEPT !.secret = secrets + 1, !.verified = FALSE]
    <3>1. Update(r, new)
      BY <2>1 DEF SaveSecret, u
    <3>2. Exists(u) => Mild(new)
      BY <1>2 DEF Row
    <3> HIDE DEF new
    <3> QED
      BY <3>1, <3>2
  <2>2. CASE SetVerified(r)
    BY <1>2, <2>2 DEF SetVerified, Write, Row, u
  <2>3. CASE WriteMethod(r)
    BY <1>2, <2>3 DEF WriteMethod, Write, Row, u
  <2>4. CASE WriteDevices(r) \/ RemoveDevice(r)
    <3>1. PICK ds : Update(r, [s EXCEPT !.devices = ds])
      BY <2>4 DEF WriteDevices, RemoveDevice, Write
    <3> QED
      BY <1>2, <3>1 DEF Row
  <2>5. CASE ResetTwoFactor(r)
    <3>1. PICK t \in {0, s.tfToken} :
            Update(r, [s EXCEPT !.secret = 0, !.verified = FALSE, !.method = "TOTP",
                                !.devices = NoDevices, !.tfToken = t])
      BY <2>5 DEF ResetTwoFactor, u
    <3> DEFINE new == [s EXCEPT !.secret = 0, !.verified = FALSE, !.method = "TOTP",
                                !.devices = NoDevices, !.tfToken = t]
    <3>2. Exists(u) => Mild(new)
      BY <1>2 DEF Row
    <3> HIDE DEF new
    <3> QED
      BY <3>1, <3>2 DEF new
  <2>6. CASE SetPassword(r)
    <3>1. PICK t \in {0, s.resetToken} : \E ds :
            Update(r, [s EXCEPT !.password = TRUE, !.devices = ds, !.resetToken = t])
      BY <2>6 DEF SetPassword, u
    <3>2. PICK ds : Update(r, [s EXCEPT !.password = TRUE, !.devices = ds, !.resetToken = t])
      BY <3>1
    <3> DEFINE new == [s EXCEPT !.password = TRUE, !.devices = ds, !.resetToken = t]
    <3>3. Exists(u) => Mild(new)
      BY <1>2 DEF Row
    <3> HIDE DEF new
    <3> QED
      BY <3>2, <3>3 DEF new
  <2> QED
    BY <2>1, <2>2, <2>3, <2>4, <2>5, <2>6
<1> QED
  BY <1>0, <1>1, <1>3, <1>4

\* The handlers that mail a token make no other calls, and in one order.
LEMMA MailCalls ==
    ASSUME IInv, Courses, NEW r \in Requests, ~Idle(r)
    PROVE  /\ At(r, "sendMail") => req[r].todo = <<"sendMail">>
           /\ At(r, "saveToken") => req[r].todo = <<"saveToken", "sendMail">>
           /\ At(r, "createRow") =>
                \/ req[r].op = "create"
                \/ /\ req[r].op \in Inviting /\ Mails(r)
                   /\ req[r].todo = <<"createRow", "saveToken", "sendMail">>
           /\ req[r].todo \in Waiting => Mails(r)
<1> DEFINE f == req[r]
           s == f.todo
<1>1. /\ f.op \in Operations /\ s \in Seq(Calls) \ {<<>>} /\ s \in Seq(CallsOf(f.op))
      /\ Fixed(f.op, s)
  BY OpenFrame DEF Courses, OnCourse, Course
<1>2. Mails(r) <=> \E i \in DOMAIN s : s[i] = "sendMail"
  BY DEF Mails, Ahead
<1> HIDE DEF f, s
<1>3. Head(s) \in CallsOf(f.op)
  BY <1>1
<1>4. ASSUME Head(s) \in {"sendMail", "saveToken"} PROVE f.op \in Mailing
  BY <1>1, <1>3, <1>4 DEF Operations, CallsOf, Resetting, Mailing, Inviting, Code, Counted,
     Chosen
<1>5. ASSUME Head(s) = "createRow" PROVE f.op \in Inviting \cup {"create"}
  BY <1>1, <1>3, <1>5 DEF Operations, CallsOf, Resetting, Mailing, Inviting, Code, Counted,
     Chosen
<1>6. s \in Waiting \cup {<<"createRow", "saveToken", "sendMail">>} =>
        \E i \in DOMAIN s : s[i] = "sendMail"
  <2>1. CASE s = <<"sendMail">>
    <3>1. 1 \in DOMAIN s /\ s[1] = "sendMail"
      BY <2>1
    <3> QED
      BY <3>1
  <2>2. CASE s = <<"saveToken", "sendMail">>
    <3>1. 2 \in DOMAIN s /\ s[2] = "sendMail"
      BY <2>2
    <3> QED
      BY <3>1
  <2>3. CASE s = <<"createRow", "saveToken", "sendMail">>
    <3>1. 3 \in DOMAIN s /\ s[3] = "sendMail"
      BY <2>3
    <3> QED
      BY <3>1
  <2> QED
    BY <2>1, <2>2, <2>3 DEF Waiting
<1>7. /\ Head(s) = "sendMail" => s = <<"sendMail">>
      /\ Head(s) = "saveToken" => s = <<"saveToken", "sendMail">>
  BY <1>1, <1>4 DEF Fixed
<1>8. Head(s) = "createRow" =>
        \/ f.op = "create"
        \/ f.op \in Inviting /\ s = <<"createRow", "saveToken", "sendMail">>
  BY <1>1, <1>5 DEF Fixed, Mailing
<1> QED
  BY <1>2, <1>6, <1>7, <1>8 DEF At, f, s

LEMMA OthersStay ==
    ASSUME IInv, NEW r \in Requests, Turns(r)
    PROVE  \A q \in Requests : q # r => req'[q] = req[q]
  BY DEF Turns, IInv, TypeOK

LEMMA TokensStill ==
    ASSUME UNCHANGED row
    PROVE  \A u \in Users : Exists(u)' => Calmer(u)
  BY DEF Calmer, Exists

\* What ends with an error troubles its user.
LEMMA CaughtTokens ==
    ASSUME IInv, Courses, TokensReach, NEW r \in Requests, ~Idle(r), Turns(r), Caught(r),
           mailed \subseteq mailed',
           \A u \in Users : Exists(u)' /\ u \notin troubled' => Calmer(u)
    PROVE  TokensReach'
  BY OthersStay, CalmTokens, MailCalls DEF Caught

LEMMA SaveTokenReaches ==
    ASSUME IInv, Courses, TokensReach, NEW r \in Requests, SaveToken(r)
    PROVE  TokensReach'
<1>0. ~Idle(r) /\ User(r) \in Users
  BY OpenFrame DEF SaveToken, At
<1> PICK u \in Users : u = User(r)
  BY <1>0
<1> PICK t : t = tokens + 1
  OBVIOUS
<1>1. /\ ~Idle(r) /\ At(r, "saveToken") /\ Exists(u) /\ row[u] \in Row
      /\ t \in Nat /\ t # 0
  BY <1>0 DEF SaveToken, At, IInv, TypeOK, Exists
<1>2. req[r].todo = <<"saveToken", "sendMail">> /\ Turns(r) /\ Mails(r) /\ req[r] \in Frame
  BY <1>1, MailCalls, MovesTurn, OpenFrame DEF Moves, RowCall, Waiting, OnceFrame
<1>3. \A v \in Users : v # u => row'[v] = row[v]
  BY DEF SaveToken, IInv, TypeOK
<1>4. CASE Fault /\ Caught(r)
  <2>1. u \in troubled' /\ UNCHANGED mailed
    BY <1>2, <1>4 DEF Caught, SaveToken
  <2>2. \A v \in Users : Exists(v)' /\ v \notin troubled' => Calmer(v)
    BY <1>3, <2>1 DEF Calmer, Exists
  <2> QED
    BY <1>1, <1>2, <1>4, <2>1, <2>2, CaughtTokens
<1>5. CASE /\ Proceed(r, [req[r] EXCEPT !.token = t])
           /\ UNCHANGED <<challenge, troubled, faults>>
  <2> DEFINE f == [req[r] EXCEPT !.token = t]
  <2>1. Tail(f.todo) = <<"sendMail">> /\ f.user = u
    <3>1. f.todo = <<"saveToken", "sendMail">> /\ f.user = u
      BY <1>2 DEF Frame, User
    <3> HIDE DEF f
    <3> QED
      BY <3>1
  <2>2. req' = [req EXCEPT ![r] = [f EXCEPT !.todo = <<"sendMail">>]]
    <3>1. Then(r, f, Tail(f.todo))
      BY <1>5 DEF Proceed
    <3>2. <<"sendMail">> # <<>>
      OBVIOUS
    <3> HIDE DEF f
    <3> QED
      BY <2>1, <3>1, <3>2 DEF Then
  <2>3. /\ req'[r].todo = <<"sendMail">> /\ req'[r].token = t /\ req'[r].user = u
        /\ req'[r] # NoRequest
    <3>1. [f EXCEPT !.todo = <<"sendMail">>] \in Frame
      <4>1. f \in Frame \/ t \notin 0..MaxTokens
        BY <1>2 DEF Frame
      <4>2. t \in 0..MaxTokens
        BY UsersAssumption DEF SaveToken, IInv, TypeOK
      <4>3. <<"sendMail">> \in Seq(Calls) \ {<<>>}
        BY DEF Calls
      <4> QED
        BY <4>1, <4>2, <4>3 DEF Frame
    <3>2. [f EXCEPT !.todo = <<"sendMail">>].token = t
      BY <1>2 DEF Frame
    <3>3. [f EXCEPT !.todo = <<"sendMail">>].user = u
      BY <1>2, <2>1 DEF Frame
    <3>4. req'[r] = [f EXCEPT !.todo = <<"sendMail">>]
      BY <2>2 DEF IInv, TypeOK
    <3> HIDE DEF f
    <3> QED
      BY <1>2, <3>1, <3>2, <3>3, <3>4, NoneAssumption DEF Frame
  <2> HIDE DEF f
  <2>4. \A q \in Requests : q # r => req'[q] = req[q]
    BY <1>2, OthersStay
  <2>5. UNCHANGED <<mailed, troubled>>
    BY <1>5 DEF SaveToken
  <2>6. Reaching(u, t)'
    BY <2>3 DEF Reaching, Idle, User
  <2>7. \A v \in Users : \A x : Reaching(v, x) => Reaching(v, x)'
    BY <1>2, <2>4, <2>5 DEF Reaching, Idle, User
  <2>8. \A v \in Users : v # u => (Invited(v) => Invited(v)')
    BY <1>2, <2>4 DEF Invited, Idle, User
  <2>9. CASE req[r].op = "adminReset2FAForUser"
    <3>1. row'[u] = [row[u] EXCEPT !.tfToken = t]
      BY <1>1, <2>9 DEF SaveToken, IInv, TypeOK
    <3>2. row'[u].tfToken = t /\ row'[u].resetToken = row[u].resetToken
          /\ row'[u].password = row[u].password
      BY <1>1, <3>1 DEF Row
    <3>3. Invited(u) => Invited(u)'
      BY <1>2, <2>4, <2>9 DEF Invited, Idle, User, Inviting
    <3> QED
      BY <1>1, <1>3, <2>5, <2>6, <2>7, <2>8, <3>2, <3>3 DEF TokensReach, Exists
  <2>10. CASE req[r].op # "adminReset2FAForUser"
    <3>1. \/ row'[u] = [row[u] EXCEPT !.resetToken = t, !.password = FALSE]
          \/ row'[u] = [row[u] EXCEPT !.resetToken = t]
      BY <1>1, <2>10 DEF SaveToken, IInv, TypeOK
    <3>2. row'[u].resetToken = t /\ row'[u].tfToken = row[u].tfToken
      BY <1>1, <3>1 DEF Row
    <3> QED
      BY <1>1, <1>3, <2>5, <2>6, <2>7, <2>8, <3>2 DEF TokensReach, Exists
  <2> QED
    BY <2>9, <2>10
<1> QED
  BY <1>4, <1>5 DEF SaveToken, Answered

LEMMA SendMailReaches ==
    ASSUME IInv, Courses, TokensReach, NEW r \in Requests, SendMail(r)
    PROVE  TokensReach'
<1>1. /\ ~Idle(r) /\ req[r].todo = <<"sendMail">> /\ Turns(r)
  BY MailCalls, MovesTurn DEF SendMail, At, Moves, OtherCall
<1>2. /\ \A q \in Requests : q # r => req'[q] = req[q]
      /\ mailed' = mailed \cup {req[r].token} /\ UNCHANGED row /\ troubled \subseteq troubled'
  BY <1>1, OthersStay DEF SendMail, Answered, Caught, database
<1>3. \A u \in Users : \A t : Reaching(u, t) => Reaching(u, t)'
  BY <1>2 DEF Reaching, Idle, User
<1>4. \A u \in Users : Invited(u) => Invited(u)'
  BY <1>1, <1>2 DEF Invited, Idle, User
<1> QED
  BY <1>2, <1>3, <1>4 DEF TokensReach, Exists

LEMMA CreateRowReaches ==
    ASSUME IInv, Courses, TokensReach, NEW r \in Requests, CreateRow(r)
    PROVE  TokensReach'
<1>0. ~Idle(r) /\ User(r) \in Users /\ At(r, "createRow")
  BY OpenFrame DEF CreateRow, At
<1> PICK u \in Users : u = User(r)
  BY <1>0
<1>1. /\ Turns(r) /\ req[r].todo \notin Waiting /\ UNCHANGED mailed
      /\ troubled \subseteq troubled' /\ req[r] \in Frame
      /\ \/ Fault /\ Caught(r)
         \/ Proceed(r, req[r]) /\ UNCHANGED troubled
  <2>1. Turns(r) /\ req[r] \in Frame
    BY <1>0, MovesTurn, OpenFrame DEF Moves, RowCall, OnceFrame
  <2>2. req[r].todo \notin Waiting
    BY <1>0 DEF At, Waiting
  <2>3. UNCHANGED mailed /\ Answered(r, req[r])
    BY DEF CreateRow
  <2>4. troubled \subseteq troubled'
    BY <2>3 DEF Answered, Caught
  <2> QED
    BY <2>1, <2>2, <2>3, <2>4 DEF Answered
<1>2. /\ row'[u] = NewRow(req[r].op = "create")
      /\ \A v \in Users : v # u => row'[v] = row[v]
  BY DEF CreateRow, IInv, TypeOK
<1>3. row'[u].resetToken = 0 /\ row'[u].tfToken = 0 /\ row'[u].password = (req[r].op = "create")
  BY <1>2 DEF NewRow
<1>4. \A v \in Users : Exists(v)' /\ v # u => Calmer(v)
  BY <1>2 DEF Calmer, Exists
<1>5. CASE req[r].op = "create"
  <2>1. \A v \in Users : Exists(v)' => Calmer(v)
    BY <1>3, <1>4, <1>5 DEF Calmer
  <2> QED
    BY <1>0, <1>1, <2>1, OthersStay, CalmTokens
<1>6. CASE req[r].op \in Inviting /\ Fault /\ Caught(r)
  <2>1. u \in troubled'
    BY <1>0, <1>6, MailCalls DEF Caught, Inviting
  <2> QED
    BY <1>0, <1>1, <1>4, <2>1, OthersStay, CalmTokens
<1>7. CASE req[r].op \in Inviting /\ Proceed(r, req[r]) /\ UNCHANGED troubled
  <2>1. req[r].todo = <<"createRow", "saveToken", "sendMail">>
    BY <1>0, <1>7, MailCalls DEF Inviting
  <2>2. Tail(req[r].todo) = <<"saveToken", "sendMail">> /\ <<"saveToken", "sendMail">> # <<>>
    BY <2>1
  <2>3. req' = [req EXCEPT ![r] = [req[r] EXCEPT !.todo = <<"saveToken", "sendMail">>]]
    BY <1>7, <2>2 DEF Proceed, Then
  <2>4. /\ req'[r].todo = <<"saveToken", "sendMail">> /\ req'[r].op = req[r].op
        /\ req'[r].user = u /\ req'[r] # NoRequest
    <3>1. [req[r] EXCEPT !.todo = <<"saveToken", "sendMail">>] \in Frame
      <4>1. <<"saveToken", "sendMail">> \in Seq(Calls) \ {<<>>}
        BY DEF Calls
      <4> QED
        BY <1>1, <4>1 DEF Frame
    <3> QED
      BY <1>1, <2>3, <3>1, NoneAssumption DEF Frame, User, IInv, TypeOK
  <2>5. \A q \in Requests : q # r => req'[q] = req[q]
    BY <1>1, OthersStay
  <2>6. \A v \in Users : \A x : Reaching(v, x) => Reaching(v, x)'
    BY <1>1, <2>5 DEF Reaching, Idle, User, Waiting
  <2>7. \A v \in Users : Invited(v) => Invited(v)'
    BY <1>1, <2>5 DEF Invited, Idle, User, Waiting
  <2>8. Invited(u)'
    BY <1>7, <2>4 DEF Invited, Idle, User
  <2> QED
    BY <1>1, <1>2, <1>3, <1>7, <2>6, <2>7, <2>8 DEF TokensReach, Exists
<1> QED
  BY <1>0, <1>1, <1>5, <1>6, <1>7, MailCalls

LEMMA NextTokens ==
    ASSUME IInv, Courses, TokensReach, [Next]_vars
    PROVE  TokensReach'
<1>1. ASSUME NEW r \in Requests, Begin(r) PROVE TokensReach'
  <2>1. Idle(r) /\ Look /\ \A q \in Requests : q # r => req'[q] = req[q]
    BY <1>1, BeginRuns DEF Run, Free, IInv, TypeOK
  <2>2. UNCHANGED row /\ UNCHANGED mailed /\ UNCHANGED troubled
    BY <2>1 DEF Look, database, record
  <2> QED
    BY <2>1, <2>2, TokensStill, CalmTokens
<1>2. ASSUME NEW r \in Requests, Moves(r) PROVE TokensReach'
  <2>1. ~Idle(r) /\ Turns(r) /\ \A q \in Requests : q # r => req'[q] = req[q]
    BY <1>2, MovesOpen, MovesTurn, OthersStay
  <2>2. ASSUME Head(req[r].todo) \notin {"saveToken", "sendMail"},
               mailed \subseteq mailed', troubled \subseteq troubled',
               \A u \in Users : Exists(u)' => Calmer(u)
        PROVE  TokensReach'
    <3>1. req[r].todo \notin Waiting
      BY <2>2 DEF Waiting
    <3> QED
      BY <2>1, <2>2, <3>1, CalmTokens
  <2>3. ASSUME Head(req[r].todo) \notin {"saveToken", "sendMail"},
               UNCHANGED mailed, troubled \subseteq troubled', UNCHANGED row
        PROVE  TokensReach'
    BY <2>2, <2>3, TokensStill
  <2>4. CASE CallFails(r)
    <3>1. Caught(r) /\ UNCHANGED mailed /\ UNCHANGED row
      BY <2>4 DEF CallFails, database
    <3> QED
      BY <2>1, <3>1, TokensStill, CaughtTokens
  <2>5. CASE RowCall(r)
    <3>1. CASE SaveSecret(r) \/ SetVerified(r) \/ WriteMethod(r) \/ WriteDevices(r)
                 \/ RemoveDevice(r) \/ ResetTwoFactor(r) \/ SetPassword(r)
      BY <2>2, <3>1, WritesCalm DEF Answered, Caught
    <3>2. CASE DeleteRow(r)
      <4>1. \A u \in Users : Exists(u)' => Calmer(u)
        BY <3>2 DEF DeleteRow, Calmer, Exists, IInv, TypeOK
      <4> QED
        BY <2>2, <3>2, <4>1 DEF DeleteRow, Answered, Caught, At
    <3>3. CASE ReadRow(r)
      BY <2>3, <3>3 DEF ReadRow, At, Look, database, record
    <3> QED
      BY <2>5, <3>1, <3>2, <3>3, SaveTokenReaches, CreateRowReaches DEF RowCall
  <2>6. CASE KeyCall(r)
    <3>1. /\ Head(req[r].todo) \notin {"saveToken", "sendMail"}
          /\ UNCHANGED mailed /\ UNCHANGED row
      BY <2>6 DEF KeyCall, At, ReadKeys, PickMethod, CheckYubikey, Registered, NotRegistered,
         FindKey, CreateKey, OwnsKey, DeleteKey, DeleteKeys, Delete, CheckCode, Look, database,
         record
    <3>2. troubled \subseteq troubled'
      BY <2>6 DEF KeyCall, ReadKeys, PickMethod, CheckYubikey, Registered, NotRegistered,
         FindKey, CreateKey, OwnsKey, DeleteKey, DeleteKeys, Delete, CheckCode, Look, record,
         Answered, Caught
    <3> QED
      BY <2>3, <3>1, <3>2
  <2>7. CASE OtherCall(r) /\ ~SendMail(r)
    <3>1. /\ Head(req[r].todo) \notin {"saveToken", "sendMail"}
          /\ UNCHANGED mailed /\ UNCHANGED row
      BY <2>7 DEF OtherCall, At, StoreChallenge, GetChallenge, Credential, UpdateCounter,
         RemoveChallenge, NeedsVerification, NeedsSetup, GiveTemporary, Look, database, record
    <3>2. troubled \subseteq troubled'
      BY <2>7 DEF OtherCall, StoreChallenge, GetChallenge, Credential, UpdateCounter,
         RemoveChallenge, NeedsVerification, NeedsSetup, GiveTemporary, Look, record, Answered,
         Caught
    <3> QED
      BY <2>3, <3>1, <3>2
  <2> QED
    BY <1>2, <2>4, <2>5, <2>6, <2>7, SendMailReaches DEF Moves
<1>3. CASE Stop
  <2>1. ASSUME NEW r \in Requests, ~Idle(r), req[r].todo \in Waiting
        PROVE  User(r) \in troubled'
    <3>1. Mails(r)
      BY <2>1, MailCalls
    <3> QED
      BY <1>3, <2>1, <3>1 DEF Stop, Busy
  <2>2. /\ UNCHANGED row /\ UNCHANGED mailed /\ troubled \subseteq troubled'
    BY <1>3 DEF Stop, database
  <2>3. \A u \in Users : u \notin troubled' => ~Invited(u)
    BY <2>1 DEF Invited, Waiting
  <2>4. \A u \in Users : \A t : u \notin troubled' /\ Reaching(u, t) => t \in mailed
    BY <2>1 DEF Reaching, Waiting
  <2> QED
    BY <2>2, <2>3, <2>4 DEF TokensReach, Exists, Reaching
<1>4. CASE Expire \/ UNCHANGED vars
  <2>1. UNCHANGED <<row, req, mailed, troubled>>
    BY <1>4 DEF Expire, vars, database, record
  <2> QED
    BY <2>1 DEF TokensReach, Exists, Reaching, Invited, Idle, User
<1> QED
  BY <1>1, <1>2, <1>3, <1>4, NextMoves

\* Every token in a row is mailed, and every row without a password has one, unless
\* a request is about to mail it or one for this user has failed (forgotPassword,
\* adminResetPassword, adminReset2FAForUser, createByInvitation, importUsers):
\* however requests for the same user overlap, whatever calls fail, and whenever
\* the process ends.
THEOREM TokensReachUsers == Spec => []TokenReachesItsUser
<1>1. Init => TokensReach
  <2> SUFFICES ASSUME Init, NEW u \in Users, Exists(u)
               PROVE  row[u].resetToken = 0 /\ row[u].tfToken = 0 /\ row[u].password
    BY DEF TokensReach
  <2> QED
    BY DEF Init, Exists, NewRow
<1>2. IInv /\ Courses /\ TokensReach => TokenReachesItsUser
  <2> SUFFICES ASSUME IInv, Courses, TokensReach, NEW u \in Users, Exists(u),
                      u \notin troubled
               PROVE  /\ row[u].resetToken # 0 =>
                           \/ row[u].resetToken \in mailed
                           \/ \E r \in Requests :
                                Mails(r) /\ req[r].token = row[u].resetToken
                      /\ row[u].tfToken # 0 =>
                           \/ row[u].tfToken \in mailed
                           \/ \E r \in Requests :
                                Mails(r) /\ req[r].token = row[u].tfToken
                      /\ ~row[u].password =>
                           row[u].resetToken # 0 \/ \E r \in Requests : Mails(r) /\ User(r) = u
    BY DEF TokenReachesItsUser
  <2>1. \A r \in Requests : ~Idle(r) /\ req[r].todo \in Waiting => Mails(r)
    BY MailCalls
  <2> QED
    BY <2>1 DEF TokensReach, Reaching, Invited, Waiting
<1>3. IInv /\ Courses /\ TokensReach /\ [Next]_vars => (IInv /\ Courses /\ TokensReach)'
  BY NextKeeps, NextCourses, NextTokens
<1> QED
  BY <1>1, <1>2, <1>3, InitInv, InitCourses, PTL DEF Spec

----------------------------------------------------------------------------
(***************************************************************************)
(* Requests that do not overlap.                                           *)
(***************************************************************************)
LEMMA WorkStays ==
    ASSUME [Next]_vars
    PROVE  UNCHANGED work
<1>1. ASSUME NEW r \in Requests, Begin(r) PROVE UNCHANGED work
  BY <1>1 DEF Begin, BeginWithUser, BeginWithEmail, BeginWithToken, BeginWithChallenge,
     BeginCreate, Run, Look
<1>2. ASSUME NEW r \in Requests, Moves(r) PROVE UNCHANGED work
  <2>1. CASE RowCall(r)
    BY <2>1 DEF RowCall, ReadRow, SaveSecret, SetVerified, WriteMethod, WriteDevices,
       RemoveDevice, ResetTwoFactor, CreateRow, DeleteRow, SaveToken, SetPassword, Write,
       Update, Look
  <2>2. CASE KeyCall(r)
    BY <2>2 DEF KeyCall, ReadKeys, PickMethod, CheckYubikey, Registered, NotRegistered,
       FindKey, CreateKey, OwnsKey, DeleteKey, DeleteKeys, Delete, CheckCode, Look
  <2>3. CASE OtherCall(r) \/ CallFails(r)
    BY <2>3 DEF OtherCall, StoreChallenge, GetChallenge, Credential, UpdateCounter,
       RemoveChallenge, SendMail, NeedsVerification, NeedsSetup, GiveTemporary, Look, CallFails
  <2> QED
    BY <1>2, <2>1, <2>2, <2>3 DEF Moves
<1>3. CASE Stop \/ Expire \/ UNCHANGED vars
  BY <1>3 DEF Stop, Expire, vars
<1> QED
  BY <1>1, <1>2, <1>3, NextMoves

\* When a handler starts, no other runs.
LEMMA AloneFree ==
    ASSUME work.parallel = 1, Alone, NEW r \in Requests, NEW op, Free(r, op)
    PROVE  \A q \in Requests : Idle(q)
<1> SUFFICES ASSUME NEW q \in Requests, ~Idle(q) PROVE FALSE
  OBVIOUS
<1>1. Busy = {q}
  BY DEF Alone, Busy
<1>2. Cardinality(Busy) = 1
  BY <1>1, FS_Singleton
<1> QED
  BY <1>2 DEF Free

\* The steps when requests do not overlap: one starts, one goes on or ends, or they
\* all end.
Starts(r) ==
    /\ Begin(r) /\ Look /\ \A q \in Requests : Idle(q)
    /\ \E op \in work.ops \cap Operations, u \in Users : \E s, g :
         /\ req' = [req EXCEPT ![r] = Fresh(op, u, s, g)]
         /\ op \notin Creating => Exists(u) /\ s = row[u]
         /\ op \in ByToken => g \in Tokens /\ g = TokenOf(op, u)
         /\ op \in ByChallenge => g \in Challenges /\ challenge[g] = u
         /\ op \notin ByToken \cup ByChallenge => g = NoGrant
Goes(r) ==
    /\ ~Idle(r) /\ Moves(r) /\ \A q \in Requests : q # r => Idle(q) /\ Idle(q)'
    /\ Idle(r)' \/ Follows(req[r], req'[r])

LEMMA AloneSteps ==
    ASSUME IInv, work.parallel = 1, Alone, [Next]_vars
    PROVE  /\ \/ \E r \in Requests : Starts(r) \/ Goes(r)
              \/ Stop \/ Expire \/ UNCHANGED vars
           /\ Alone'
<1>1. ASSUME NEW r \in Requests, Begin(r) PROVE Starts(r) /\ Alone'
  <2>1. PICK op \in Operations, u \in Users : \E s, g :
               /\ Run(r, op, u, s, g)
               /\ op \notin Creating => Exists(u) /\ s = row[u]
               /\ op \in ByToken => g \in Tokens /\ g = TokenOf(op, u)
               /\ op \in ByChallenge => g \in Challenges /\ challenge[g] = u
               /\ op \notin ByToken \cup ByChallenge => g = NoGrant
    BY <1>1, BeginRuns
  <2>2. PICK s, g :
               /\ Run(r, op, u, s, g)
               /\ op \notin Creating => Exists(u) /\ s = row[u]
               /\ op \in ByToken => g \in Tokens /\ g = TokenOf(op, u)
               /\ op \in ByChallenge => g \in Challenges /\ challenge[g] = u
               /\ op \notin ByToken \cup ByChallenge => g = NoGrant
    BY <2>1
  <2>3. Free(r, op) /\ op \in work.ops /\ Look
        /\ req' = [req EXCEPT ![r] = Fresh(op, u, s, g)]
    BY <2>2 DEF Run, Free, Fresh
  <2>4. \A q \in Requests : Idle(q)
    BY <2>3, AloneFree
  <2>5. Starts(r)
    BY <1>1, <2>2, <2>3, <2>4 DEF Starts
  <2> QED
    BY <2>3, <2>4, <2>5 DEF Alone, Idle, IInv, TypeOK
<1>2. ASSUME NEW r \in Requests, Moves(r) PROVE Goes(r) /\ Alone'
  <2>1. ~Idle(r) /\ Turns(r)
    BY <1>2, MovesOpen, MovesTurn
  <2>2. \A q \in Requests : q # r => Idle(q) /\ Idle(q)'
    BY <2>1, OthersStay DEF Alone, Idle
  <2>3. Idle(r)' \/ Follows(req[r], req'[r])
    BY <2>1 DEF Turns, Idle, IInv, TypeOK
  <2> QED
    BY <1>2, <2>1, <2>2, <2>3 DEF Goes, Alone
<1>3. CASE Stop
  BY <1>3 DEF Stop, Alone, Idle
<1>4. CASE Expire \/ UNCHANGED vars
  BY <1>4 DEF Expire, vars, Alone, Idle
<1> QED
  BY <1>1, <1>2, <1>3, <1>4, NextMoves

----------------------------------------------------------------------------
(***************************************************************************)
(* What the calls do to a row.                                             *)
(***************************************************************************)
\* Call h of frame f turns row s into row t.
Rewrites(h, f, s, t) ==
    /\ s \in Row /\ t \in Row
    /\ h \in {"saveSecret", "resetTwoFactor"} \/ t.secret = s.secret
    /\ h \in {"saveSecret", "resetTwoFactor"} => ~t.verified
    /\ h \in {"saveSecret", "resetTwoFactor", "setVerified"} \/ t.verified = s.verified
    /\ h = "saveSecret" => t.secret # 0
    /\ h = "resetTwoFactor" => t.secret = 0
    /\ t.method = CASE h = "resetTwoFactor" -> "TOTP"
                    [] h = "writeMethod" -> f.method
                    [] OTHER -> s.method
    /\ t.resetToken = CASE h = "saveToken" /\ f.op # "adminReset2FAForUser" -> tokens + 1
                        [] h = "setPassword" /\ f.op = "resetPassword" -> 0
                        [] OTHER -> s.resetToken
    /\ t.tfToken = CASE h = "saveToken" /\ f.op = "adminReset2FAForUser" -> tokens + 1
                     [] h = "resetTwoFactor" /\ f.op = "confirm2FAReset" -> 0
                     [] OTHER -> s.tfToken

RowWrites == {"saveSecret", "setVerified", "writeMethod", "writeDevices", "removeDevice",
              "resetTwoFactor", "saveToken", "setPassword"}

LEMMA RowSteps ==
    ASSUME IInv, NEW r \in Requests, Moves(r), NEW u \in Users, u = User(r)
    PROVE  /\ \A v \in Users : v # u => row'[v] = row[v]
           /\ \/ row' = row /\ (CallFails(r) \/ ~RowCall(r) \/ ReadRow(r))
              \/ /\ CreateRow(r) /\ row[u] = Missing
                 /\ row'[u] = NewRow(req[r].op = "create")
              \/ DeleteRow(r) /\ row'[u] = Deleted
              \/ /\ RowCall(r) /\ Head(req[r].todo) \in RowWrites
                 /\ Exists(u) /\ Exists(u)'
                 /\ Rewrites(Head(req[r].todo), req[r], row[u], row'[u])
<1>0. ~Idle(r)
  BY MovesOpen
<1> DEFINE h == Head(req[r].todo)
           f == req[r]
           s == row[u]
<1>1. Exists(u) => s \in Row
  BY DEF IInv, TypeOK, Exists
<1>2. /\ MaxSecrets \in Nat /\ MaxTokens \in Nat /\ secrets \in 0..MaxSecrets
      /\ tokens \in 0..MaxTokens /\ NoDevices \in [Devices -> Nat] /\ "TOTP" \in Methods
  BY UsersAssumption DEF IInv, TypeOK, NoDevices, Methods
<1>3. ASSUME NEW new \in Row, Exists(u), RowCall(r), h \in RowWrites,
             row' = [row EXCEPT ![u] = new], Rewrites(h, f, s, new)
      PROVE  /\ \A v \in Users : v # u => row'[v] = row[v]
             /\ RowCall(r) /\ h \in RowWrites /\ Exists(u) /\ Exists(u)'
             /\ Rewrites(h, f, s, row'[u])
  <2>1. row'[u] = new /\ \A v \in Users : v # u => row'[v] = row[v]
    BY <1>3 DEF IInv, TypeOK
  <2>2. Exists(u)'
    BY <1>3, <2>1, NoneAssumption DEF Exists
  <2> QED
    BY <1>3, <2>1, <2>2
<1>4. CASE SaveSecret(r)
  <2> DEFINE new == [s EXCEPT !.secret = secrets + 1, !.verified = FALSE]
  <2>1. Exists(u) /\ h = "saveSecret" /\ row' = [row EXCEPT ![u] = new] /\ RowCall(r)
    BY <1>4 DEF SaveSecret, Update, At, RowCall
  <2>2. secrets + 1 \in 0..MaxSecrets /\ secrets + 1 # 0
    BY <1>2, <1>4 DEF SaveSecret
  <2>3. new \in Row /\ new.secret = secrets + 1 /\ ~new.verified /\ new.method = s.method
        /\ new.resetToken = s.resetToken /\ new.tfToken = s.tfToken
    BY <1>1, <2>1, <2>2 DEF Row
  <2> HIDE DEF new
  <2>4. Rewrites(h, f, s, new)
    BY <1>1, <2>1, <2>2, <2>3 DEF Rewrites
  <2> QED
    BY <1>3, <2>1, <2>3, <2>4 DEF RowWrites
<1>5. CASE SetVerified(r)
  <2> DEFINE new == [s EXCEPT !.verified = TRUE]
  <2>1. Exists(u) /\ h = "setVerified" /\ row' = [row EXCEPT ![u] = new] /\ RowCall(r)
    BY <1>5 DEF SetVerified, Write, Update, At, RowCall
  <2>2. new \in Row /\ new.secret = s.secret /\ new.method = s.method
        /\ new.resetToken = s.resetToken /\ new.tfToken = s.tfToken
    BY <1>1, <2>1 DEF Row
  <2> HIDE DEF new
  <2>3. Rewrites(h, f, s, new)
    BY <1>1, <2>1, <2>2 DEF Rewrites
  <2> QED
    BY <1>3, <2>1, <2>2, <2>3 DEF RowWrites
<1>6. CASE WriteMethod(r)
  <2> DEFINE new == [s EXCEPT !.method = f.method]
  <2>1. Exists(u) /\ h = "writeMethod" /\ row' = [row EXCEPT ![u] = new] /\ RowCall(r)
    BY <1>6 DEF WriteMethod, Write, Update, At, RowCall
  <2>2. f.method \in Methods
    BY <1>0, OpenFrame
  <2>3. new \in Row /\ new.secret = s.secret /\ new.method = f.method
        /\ new.verified = s.verified
        /\ new.resetToken = s.resetToken /\ new.tfToken = s.tfToken
    BY <1>1, <2>1, <2>2 DEF Row
  <2> HIDE DEF new
  <2>4. Rewrites(h, f, s, new)
    BY <1>1, <2>1, <2>3 DEF Rewrites
  <2> QED
    BY <1>3, <2>1, <2>3, <2>4 DEF RowWrites
<1>7. CASE WriteDevices(r) \/ RemoveDevice(r)
  <2>1. Snap(r).devices \in [Devices -> Nat]
    BY <1>7, OpenSnap DEF WriteDevices, RemoveDevice, OnceRow, Row, NewCalls
  <2>2. \E ds \in [Devices -> Nat] :
          row' = [row EXCEPT ![u] = [s EXCEPT !.devices = ds]]
    <3>1. CASE WriteDevices(r)
      <4>1. PICK d \in Devices :
              row' = [row EXCEPT ![u] = [s EXCEPT !.devices =
                        [Snap(r).devices EXCEPT ![d] = IF @ > 0 THEN @ ELSE 1]]]
        BY <3>1 DEF WriteDevices, Write, Update
      <4>2. [Snap(r).devices EXCEPT ![d] = IF @ > 0 THEN @ ELSE 1] \in [Devices -> Nat]
        BY <2>1
      <4> QED
        BY <4>1, <4>2
    <3>2. CASE RemoveDevice(r)
      <4>1. PICK gone \in {NoDevices} \cup {[NoDevices EXCEPT ![d] = 1] : d \in Devices} :
              row' = [row EXCEPT ![u] = [s EXCEPT !.devices =
                        [d \in Devices |-> IF Snap(r).devices[d] > 0
                                             THEN Snap(r).devices[d] - gone[d] ELSE 0]]]
        BY <3>2 DEF RemoveDevice, Write, Update
      <4>2. \A d \in Devices : gone[d] \in {0, 1}
        BY DEF NoDevices
      <4>3. [d \in Devices |-> IF Snap(r).devices[d] > 0
                THEN Snap(r).devices[d] - gone[d] ELSE 0] \in [Devices -> Nat]
        BY <2>1, <4>2
      <4> QED
        BY <4>1, <4>3
    <3> QED
      BY <1>7, <3>1, <3>2
  <2>3. PICK ds \in [Devices -> Nat] : row' = [row EXCEPT ![u] = [s EXCEPT !.devices = ds]]
    BY <2>2
  <2> DEFINE new == [s EXCEPT !.devices = ds]
  <2>4. Exists(u) /\ h \in {"writeDevices", "removeDevice"} /\ RowCall(r)
    BY <1>7 DEF WriteDevices, RemoveDevice, Write, Update, At, RowCall
  <2>5. new \in Row /\ new.secret = s.secret /\ new.method = s.method
        /\ new.verified = s.verified
        /\ new.resetToken = s.resetToken /\ new.tfToken = s.tfToken
    BY <1>1, <2>4 DEF Row
  <2>6. row' = [row EXCEPT ![u] = new]
    BY <2>3
  <2> HIDE DEF new
  <2>7. Rewrites(h, f, s, new)
    BY <1>1, <2>4, <2>5 DEF Rewrites
  <2> QED
    BY <1>3, <2>4, <2>5, <2>6, <2>7 DEF RowWrites
<1>8. CASE ResetTwoFactor(r)
  <2> DEFINE t == IF f.op = "confirm2FAReset" THEN 0 ELSE s.tfToken
             new == [s EXCEPT !.secret = 0, !.verified = FALSE, !.method = "TOTP",
                              !.devices = NoDevices, !.tfToken = t]
  <2>1. Exists(u) /\ h = "resetTwoFactor" /\ row' = [row EXCEPT ![u] = new] /\ RowCall(r)
    BY <1>8 DEF ResetTwoFactor, Update, At, RowCall
  <2>2. s \in Row /\ t \in 0..MaxTokens
    BY <1>1, <1>2, <2>1 DEF Row
  <2>3. t = (IF f.op = "confirm2FAReset" THEN 0 ELSE s.tfToken)
    OBVIOUS
  <2> HIDE DEF t
  <2>4. new \in Row /\ new.secret = 0 /\ ~new.verified /\ new.method = "TOTP"
        /\ new.resetToken = s.resetToken /\ new.tfToken = t
    <3>1. 0 \in 0..MaxSecrets
      BY <1>2
    <3> QED
      BY <1>2, <2>2, <3>1 DEF Row
  <2> HIDE DEF new
  <2>5. Rewrites(h, f, s, new)
    BY <2>1, <2>2, <2>3, <2>4 DEF Rewrites
  <2> QED
    BY <1>3, <2>1, <2>4, <2>5 DEF RowWrites
<1>9. CASE SetPassword(r)
  <2> DEFINE t == IF f.op = "resetPassword" THEN 0 ELSE s.resetToken
             ds == IF f.op = "changePassword" THEN s.devices ELSE NoDevices
             new == [s EXCEPT !.password = TRUE, !.devices = ds, !.resetToken = t]
  <2>1. Exists(u) /\ h = "setPassword" /\ row' = [row EXCEPT ![u] = new] /\ RowCall(r)
    BY <1>9 DEF SetPassword, Update, At, RowCall
  <2>2. s \in Row /\ t \in 0..MaxTokens /\ ds \in [Devices -> Nat]
    BY <1>1, <1>2, <2>1 DEF Row
  <2>3. t = (IF f.op = "resetPassword" THEN 0 ELSE s.resetToken)
    OBVIOUS
  <2> HIDE DEF t, ds
  <2>4. new \in Row /\ new.secret = s.secret /\ new.method = s.method
        /\ new.verified = s.verified
        /\ new.resetToken = t /\ new.tfToken = s.tfToken
    BY <2>2 DEF Row
  <2> HIDE DEF new
  <2>5. Rewrites(h, f, s, new)
    BY <2>1, <2>2, <2>3, <2>4 DEF Rewrites
  <2> QED
    BY <1>3, <2>1, <2>4, <2>5 DEF RowWrites
<1>10. CASE SaveToken(r)
  <2>1. Exists(u) /\ h = "saveToken" /\ RowCall(r) /\ s \in Row
    BY <1>1, <1>10 DEF SaveToken, At, RowCall
  <2> PICK t : t = tokens + 1
    OBVIOUS
  <2>2. t \in 0..MaxTokens
    BY <1>2, <1>10 DEF SaveToken
  <2>3. CASE f.op = "adminReset2FAForUser"
    <3> DEFINE new == [s EXCEPT !.tfToken = t]
    <3>1. row' = [row EXCEPT ![u] = new]
      BY <1>10, <2>3 DEF SaveToken
    <3>2. new \in Row /\ new.secret = s.secret /\ new.method = s.method
          /\ new.verified = s.verified
          /\ new.resetToken = s.resetToken /\ new.tfToken = t
      BY <2>1, <2>2 DEF Row
    <3> HIDE DEF new
    <3>3. Rewrites(h, f, s, new)
      BY <2>1, <2>3, <3>2 DEF Rewrites
    <3> QED
      BY <1>3, <2>1, <3>1, <3>2, <3>3 DEF RowWrites
  <2>4. CASE f.op # "adminReset2FAForUser"
    <3> DEFINE p == IF f.op = "adminResetPassword" THEN FALSE ELSE s.password
               new == [s EXCEPT !.resetToken = t, !.password = p]
    <3>1. row' = [row EXCEPT ![u] = new]
      <4>1. f.op # "adminResetPassword" => new = [s EXCEPT !.resetToken = t]
        BY <2>1 DEF Row
      <4>2. f.op = "adminResetPassword" =>
              new = [s EXCEPT !.resetToken = t, !.password = FALSE]
        BY <2>1 DEF Row
      <4> HIDE DEF new
      <4> QED
        BY <1>10, <2>4, <4>1, <4>2 DEF SaveToken
    <3>2. p \in BOOLEAN
      BY <2>1 DEF Row
    <3> HIDE DEF p
    <3>3. new \in Row /\ new.secret = s.secret /\ new.method = s.method
          /\ new.verified = s.verified
          /\ new.resetToken = t /\ new.tfToken = s.tfToken
      BY <2>1, <2>2, <3>2 DEF Row
    <3> HIDE DEF new
    <3>4. Rewrites(h, f, s, new)
      BY <2>1, <2>4, <3>3 DEF Rewrites
    <3> QED
      BY <1>3, <2>1, <3>1, <3>3, <3>4 DEF RowWrites
  <2> QED
    BY <2>3, <2>4
<1>11. CASE CreateRow(r)
  <2>1. At(r, "createRow") /\ row[u] = Missing
    BY <1>11 DEF CreateRow, Violates
  <2>2. row'[u] = NewRow(f.op = "create") /\ \A v \in Users : v # u => row'[v] = row[v]
    BY <1>11 DEF CreateRow, IInv, TypeOK
  <2> QED
    BY <1>11, <2>1, <2>2
<1>12. CASE DeleteRow(r)
  <2>1. row'[u] = Deleted /\ \A v \in Users : v # u => row'[v] = row[v]
    BY <1>12 DEF DeleteRow, IInv, TypeOK
  <2> QED
    BY <1>12, <2>1
<1>13. CASE ReadRow(r) \/ KeyCall(r) \/ OtherCall(r) \/ CallFails(r)
  <2>1. UNCHANGED row
    BY <1>13 DEF ReadRow, KeyCall, ReadKeys, PickMethod, CheckYubikey, Registered,
       NotRegistered, FindKey, CreateKey, OwnsKey, DeleteKey, DeleteKeys, Delete, CheckCode,
       OtherCall, StoreChallenge, GetChallenge, Credential, UpdateCounter, RemoveChallenge,
       SendMail, NeedsVerification, NeedsSetup, GiveTemporary, Look, CallFails, database
  <2>2. KeyCall(r) \/ OtherCall(r) => ~RowCall(r)
    BY DEF KeyCall, ReadKeys, PickMethod, CheckYubikey, Registered,
       NotRegistered, FindKey, CreateKey, OwnsKey, DeleteKey, DeleteKeys, CheckCode,
       OtherCall, StoreChallenge, GetChallenge, Credential, UpdateCounter, RemoveChallenge,
       SendMail, NeedsVerification, NeedsSetup, GiveTemporary, At,
       RowCall, ReadRow, SaveSecret, SetVerified, WriteMethod, WriteDevices,
       RemoveDevice, ResetTwoFactor, CreateRow, DeleteRow, SaveToken, SetPassword
  <2> QED
    BY <1>13, <2>1, <2>2
<1> QED
  BY <1>4, <1>5, <1>6, <1>7, <1>8, <1>9, <1>10, <1>11, <1>12, <1>13 DEF Moves, RowCall
----------------------------------------------------------------------------
(***************************************************************************)
(* What the calls do to the keys.                                          *)
(***************************************************************************)
LEMMA KeySteps ==
    ASSUME IInv, NEW r \in Requests, Moves(r), NEW u \in Users, u = User(r)
    PROVE  \/ keys' = keys
           \/ /\ CreateKey(r) /\ Exists(u) /\ keys[req[r].key] = NoUser
              /\ \A k \in Keys : keys'[k] = IF k = req[r].key THEN u ELSE keys[k]
           \/ /\ DeleteKey(r) /\ keys[req[r].key] = u
              /\ \A k \in Keys : keys'[k] = IF k = req[r].key THEN NoUser ELSE keys[k]
           \/ /\ DeleteKeys(r) \/ DeleteRow(r)
              /\ \A k \in Keys : keys'[k] = IF keys[k] = u THEN NoUser ELSE keys[k]
<1>1. CASE CreateKey(r)
  BY <1>1 DEF CreateKey, Violates, IInv, TypeOK
<1>2. CASE DeleteKey(r)
  BY <1>2 DEF DeleteKey, Delete, Violates, IInv, TypeOK
<1>3. CASE DeleteKeys(r)
  BY <1>3 DEF DeleteKeys, Delete, KeysOf, IInv, TypeOK
<1>4. CASE DeleteRow(r)
  BY <1>4 DEF DeleteRow, IInv, TypeOK
<1>5. CASE KeyCall(r) /\ ~CreateKey(r) /\ ~DeleteKey(r) /\ ~DeleteKeys(r)
  BY <1>5 DEF KeyCall, ReadKeys, PickMethod, CheckYubikey, Registered, NotRegistered,
     FindKey, OwnsKey, CheckCode, Look, database
<1>6. CASE RowCall(r) /\ ~DeleteRow(r)
  BY <1>6 DEF RowCall, ReadRow, SaveSecret, SetVerified, WriteMethod, WriteDevices,
     RemoveDevice, ResetTwoFactor, CreateRow, SaveToken, SetPassword, Write, Update, Look,
     database
<1>7. CASE OtherCall(r) \/ CallFails(r)
  BY <1>7 DEF OtherCall, StoreChallenge, GetChallenge, Credential, UpdateCounter,
     RemoveChallenge, SendMail, NeedsVerification, NeedsSetup, GiveTemporary, Look, CallFails,
     database
<1> QED
  BY <1>1, <1>2, <1>3, <1>4, <1>5, <1>6, <1>7 DEF Moves

LEMMA ConfirmedStays ==
    ASSUME NEW r \in Requests, Moves(r)
    PROVE  confirmed \subseteq confirmed'
<1>1. CASE RowCall(r)
  BY <1>1 DEF RowCall, ReadRow, SaveSecret, SetVerified, WriteMethod, WriteDevices,
     RemoveDevice, ResetTwoFactor, CreateRow, DeleteRow, SaveToken, SetPassword, Write,
     Look, record
<1>2. CASE KeyCall(r)
  BY <1>2 DEF KeyCall, ReadKeys, PickMethod, CheckYubikey, Registered, NotRegistered,
     FindKey, CreateKey, OwnsKey, DeleteKey, DeleteKeys, Delete, CheckCode, Look, record
<1>3. CASE OtherCall(r) \/ CallFails(r)
  BY <1>3 DEF OtherCall, StoreChallenge, GetChallenge, Credential, UpdateCounter,
     RemoveChallenge, SendMail, NeedsVerification, NeedsSetup, GiveTemporary, Look, CallFails,
     record
<1> QED
  BY <1>1, <1>2, <1>3 DEF Moves

\* What a frame becomes that goes on.
LEMMA Proceeds ==
    ASSUME IInv, NEW r \in Requests, NEW f \in Frame, Proceed(r, f), ~Idle(r)'
    PROVE  req'[r] = [f EXCEPT !.todo = Tail(f.todo)] /\ Tail(f.todo) # <<>>
  BY DEF Proceed, Then, Idle, IInv, TypeOK

LEMMA FailsIdle ==
    ASSUME IInv, NEW r \in Requests, Refuse(r) \/ Caught(r)
    PROVE  Idle(r)'
  BY DEF Caught, Refuse, Idle, IInv, TypeOK

LEMMA ReadSnap ==
    ASSUME IInv, NEW r \in Requests, Moves(r), At(r, "readRow"), ~Idle(r)'
    PROVE  Exists(User(r)) /\ req'[r].snap = row[User(r)]
<1>1. ~CallFails(r)
  BY FailsIdle DEF CallFails
<1>2. ReadRow(r)
  BY <1>1 DEF Moves, At, KeyCall, ReadKeys, PickMethod, CheckYubikey, Registered,
     NotRegistered, FindKey, CreateKey, OwnsKey, DeleteKey, DeleteKeys, CheckCode,
     OtherCall, StoreChallenge, GetChallenge, Credential, UpdateCounter, RemoveChallenge,
     SendMail, NeedsVerification, NeedsSetup, GiveTemporary,
     RowCall, SaveSecret, SetVerified, WriteMethod, WriteDevices,
     RemoveDevice, ResetTwoFactor, CreateRow, DeleteRow, SaveToken, SetPassword
<1>3. Exists(User(r)) /\ Proceed(r, [req[r] EXCEPT !.snap = row[User(r)]])
  BY <1>2 DEF ReadRow
<1> DEFINE s == row[User(r)]
           f == [req[r] EXCEPT !.snap = s]
<1>4. req[r] \in Frame /\ s \in Row
  BY <1>3, OpenFrame DEF At, OnceFrame, IInv, TypeOK, Exists
<1>5. f \in Frame /\ f.snap = s
  BY <1>4 DEF Frame
<1> HIDE DEF s, f
<1>6. req'[r] = [f EXCEPT !.todo = Tail(f.todo)]
  BY <1>3, <1>5, Proceeds DEF f, s
<1>7. [f EXCEPT !.todo = Tail(f.todo)].snap = s
  BY <1>5 DEF Frame
<1> QED
  BY <1>3, <1>6, <1>7 DEF s

----------------------------------------------------------------------------
(***************************************************************************)
(* Codes that are confirmed.                                               *)
(***************************************************************************)
\* Calls that neither check a code nor draw a key can follow.
LEMMA GuardedJoin ==
    ASSUME NEW s \in Seq(Calls), NEW t \in Seq(Calls), Guarded(s), Guarded(t),
           ~Has(t, Guards), ~Has(t, KeySources)
    PROVE  Guarded(s \o t)
  BY BarsJoin DEF Guarded

LEMMA ProgramsGuarded ==
    ASSUME NEW op \in Guarding, NEW u, NEW s, NEW held
    PROVE  /\ Guarded(Handler(op, u, s, held).calls)
           /\ Has(Handler(op, u, s, held).calls, Guards)
<1> DEFINE p == Handler(op, u, s, held).calls
           a == <<"readKeys", "checkCode", "setVerified">>
           b == <<"readKeys", "checkCode">>
           c == verifyWebAuthnAuthentication
           d == updateVerifiedDevices
           e == VerifiedOnce(s)
<1>1. p \in {a \o d, (b \o e) \o d, (c \o e) \o d}
  <2>1. op = "verify2FACode" => p = a \o d
    BY DEF Handler, verify2FACode
  <2>2. op = "verifySession2FA" => p = (b \o e) \o d
    BY DEF Handler, verifySession2FA
  <2>3. op = "completeWebAuthnAuthentication" => p = (c \o e) \o d
    BY DEF Handler, completeWebAuthnAuthentication, Always
  <2> HIDE DEF p, a, b, c, d, e
  <2> QED
    BY <2>1, <2>2, <2>3 DEF Guarding, Verify
<1>2. /\ a \in Seq(Calls) /\ b \in Seq(Calls) /\ c \in Seq(Calls) /\ d \in Seq(Calls)
      /\ e \in Seq(Calls)
  BY SharedCalls DEF Calls
<1>3. Guarded(a) /\ Has(a, Guards)
  BY DEF Guarded, Has, Bars, Guards, KeyUses, KeySources
<1>4. Guarded(b) /\ Has(b, Guards)
  BY DEF Guarded, Has, Bars, Guards, KeyUses, KeySources
<1>5. Guarded(c) /\ Has(c, Guards)
  BY DEF Guarded, Has, Bars, Guards, KeyUses, KeySources, verifyWebAuthnAuthentication
<1>6. Guarded(d) /\ ~Has(d, Guards) /\ ~Has(d, KeySources)
  BY DEF Guarded, Has, Bars, Guards, KeyUses, KeySources, updateVerifiedDevices
<1>7. Guarded(e) /\ ~Has(e, Guards) /\ ~Has(e, KeySources)
  BY DEF Guarded, Has, Bars, Guards, KeyUses, KeySources, VerifiedOnce
<1> HIDE DEF a, b, c, d, e
<1>8. ASSUME NEW x \in Seq(Calls), Guarded(x), Has(x, Guards)
      PROVE  /\ x \o d \in Seq(Calls) /\ Guarded(x \o d) /\ Has(x \o d, Guards)
             /\ x \o e \in Seq(Calls) /\ Guarded(x \o e) /\ Has(x \o e, Guards)
  BY <1>2, <1>6, <1>7, <1>8, GuardedJoin, HasJoin, JoinIn
<1>9. /\ b \o e \in Seq(Calls) /\ Guarded(b \o e) /\ Has(b \o e, Guards)
      /\ c \o e \in Seq(Calls) /\ Guarded(c \o e) /\ Has(c \o e, Guards)
  BY <1>2, <1>4, <1>5, <1>8
<1> QED
  BY <1>1, <1>2, <1>3, <1>8, <1>9
\* The handlers that mark a factor as verified.
LEMMA VerifiersOnly ==
    ASSUME NEW op \in Operations, NEW s \in Seq(CallsOf(op)),
           op \notin {"setupYubikey", "completeWebAuthnRegistration"}
    PROVE  /\ Has(s, {"setVerified"}) => op \in Guarding
           /\ ~Has(s, {"createKey"})
           /\ op \in Verify => ~Has(s, {"saveSecret", "resetTwoFactor", "createRow", "deleteRow"})
           /\ op \in Guarding /\ Has(s, {"checkCode"}) => op \in Verify
<1> PICK C : C = CallsOf(op)
  OBVIOUS
<1>1. "setVerified" \in C => op \in Guarding
  BY DEF Operations, CallsOf, Resetting, Mailing, Inviting, Code, Counted, Chosen, Guarding,
     Verify
<1>2. "createKey" \notin C
  BY DEF Operations, CallsOf, Resetting, Mailing, Inviting, Code, Counted, Chosen
<1>3. op \in Verify => C \cap {"saveSecret", "resetTwoFactor", "createRow", "deleteRow"} = {}
  BY DEF CallsOf, Verify, Resetting, Mailing, Inviting, Code
<1>4. op = "completeWebAuthnAuthentication" => "checkCode" \notin C
  BY DEF CallsOf, Resetting, Mailing, Inviting, Counted
<1>5. s \in Seq(C)
  OBVIOUS
<1> QED
  BY <1>1, <1>2, <1>3, <1>4, <1>5 DEF Has, Guarding

NoKeyAdded == work.ops \cap {"setupYubikey", "completeWebAuthnRegistration"} = {}

\* A check of a code lets a frame on only with a code of the secret, when there are
\* no keys.
LEMMA GuardPassed ==
    ASSUME IInv, Courses, NEW r \in Requests, Goes(r), ~Idle(r)', CodeOK(req[r]),
           \A k \in Keys : keys[k] = NoUser,
           req[r].op \in Guarding, Head(req[r].todo) \in Guards
    PROVE  \/ Has(req'[r].todo, Guards)
           \/ req[r].snap.secret \in confirmed' /\ Head(req[r].todo) = "checkCode"
<1> DEFINE f == req[r]
           s == f.todo
<1>1. /\ s \in Seq(Calls) \ {<<>>} /\ Tail(s) \in Seq(Calls) /\ User(r) \in Users
      /\ ~Idle(r) /\ Moves(r) /\ f \in Frame
  BY OpenFrame DEF Goes, OnceFrame
<1>2. ~CallFails(r)
  BY FailsIdle DEF CallFails
<1>3. RowCall(r) \/ KeyCall(r) \/ OtherCall(r)
  BY <1>1, <1>2 DEF Moves
<1>4. Registered(r) \/ Credential(r) \/ CheckCode(r)
  BY <1>3 DEF At, Guards, KeyCall, ReadKeys, PickMethod, CheckYubikey,
     NotRegistered, FindKey, CreateKey, OwnsKey, DeleteKey, DeleteKeys,
     OtherCall, StoreChallenge, GetChallenge, UpdateCounter, RemoveChallenge,
     SendMail, NeedsVerification, NeedsSetup, GiveTemporary,
     RowCall, ReadRow, SaveSecret, SetVerified, WriteMethod, WriteDevices,
     RemoveDevice, ResetTwoFactor, CreateRow, DeleteRow, SaveToken, SetPassword
<1>5. ASSUME Registered(r) \/ Credential(r) PROVE FALSE
  <2>1. Head(s) \in {"registered", "credential"}
    BY <1>5 DEF Registered, Credential, At
  <2>2. ~Has(Tail(s), KeySources)
    <3>1. Bars(s, KeyUses \cup {"checkCode"}, KeySources)
      BY DEF CodeOK, Guarded
    <3> HIDE DEF s
    <3> QED
      BY <1>1, <2>1, <3>1, BarsTail DEF KeyUses
  <2>3. Has(s, KeyUses) /\ ~Has(s, KeySources)
    <3> HIDE DEF s
    <3> QED
      BY <1>1, <2>1, <2>2, HasTail DEF KeyUses, KeySources
  <2>4. f.key \in Keys
    BY <1>1, <2>3 DEF Courses, OnCourse
  <2>5. keys[f.key] # User(r)
    BY <1>1, <2>4, NoneAssumption
  <2>6. Refuse(r)
    BY <1>5, <2>5 DEF Registered, Credential
  <2> QED
    BY <2>6, FailsIdle
<1>6. CASE CheckCode(r)
  <2>1. ~Refuse(r)
    BY FailsIdle
  <2>2. CASE confirmed' = confirmed \cup {f.snap.secret}
    BY <1>6, <2>2 DEF CheckCode, At
  <2>3. CASE Then(r, f, <<"checkYubikey", "registered">> \o Tail(s))
    <3> DEFINE rest == <<"checkYubikey", "registered">> \o Tail(s)
    <3>1. rest \in Seq(Calls) \ {<<>>} /\ Has(rest, Guards)
      <4> DEFINE a == <<"checkYubikey", "registered">>
      <4>1. a \in Seq(Calls) \ {<<>>} /\ Has(a, Guards)
        BY DEF Calls, Has, Guards
      <4> HIDE DEF a, s
      <4>2. a \o Tail(s) \in Seq(Calls) \ {<<>>} /\ Has(a \o Tail(s), Guards)
        BY <1>1, <4>1, JoinCalls, HasJoin
      <4> QED
        BY <4>2 DEF a
    <3>2. Then(r, f, rest)
      BY <2>3
    <3> HIDE DEF rest
    <3>3. req'[r] = [f EXCEPT !.todo = rest]
      BY <3>1, <3>2 DEF Then, IInv, TypeOK
    <3>4. [f EXCEPT !.todo = rest].todo = rest
      BY <1>1 DEF Frame
    <3> QED
      BY <3>1, <3>3, <3>4
  <2> QED
    BY <1>6, <2>1, <2>2, <2>3 DEF CheckCode, Snap
<1> QED
  BY <1>4, <1>5, <1>6

\* What is left to do when a handler goes on.
LEMMA FollowsParts ==
    ASSUME IInv, NEW r \in Requests, ~Idle(r), NEW g, Follows(req[r], g)
    PROVE  /\ g.todo \in Seq(Calls) \ {<<>>} /\ g.op = req[r].op /\ g.user = User(r)
           /\ \/ g.todo = Tail(req[r].todo)
              \/ /\ Head(req[r].todo) = "checkCode"
                 /\ g.todo = <<"checkYubikey", "registered">> \o Tail(req[r].todo)
              \/ /\ Head(req[r].todo) \in {"needsVerification", "needsSetup"}
                 /\ g.todo \in Seq({"needsSetup", "saveSecret", "giveTemporary"})
           /\ Head(req[r].todo) \in {"readRow"} \/ g.snap = req[r].snap
  BY DEF Follows, Frame, User

LEMMA FollowsGuarded ==
    ASSUME IInv, NEW r \in Requests, ~Idle(r), NEW g, Follows(req[r], g),
           Guarded(req[r].todo), Head(req[r].todo) \notin {"needsVerification", "needsSetup"}
    PROVE  /\ Guarded(g.todo)
           /\ Has(g.todo, {"setVerified"}) => Has(req[r].todo, {"setVerified"})
           /\ Has(req[r].todo, Guards) =>
                Head(req[r].todo) \in Guards \/ Has(g.todo, Guards)
<1> DEFINE s == req[r].todo
           a == <<"checkYubikey", "registered">>
<1>1. s \in Seq(Calls) \ {<<>>} /\ Tail(s) \in Seq(Calls)
  BY OpenFrame
<1>2. Guarded(Tail(s)) /\ (Head(s) = "checkCode" => ~Has(Tail(s), KeySources))
  <2>1. Guarded(s)
    OBVIOUS
  <2> HIDE DEF s
  <2> QED
    BY <1>1, <2>1, BarsTail DEF Guarded
<1>3. /\ a \in Seq(Calls) /\ ~Has(a, {"setVerified"})
      /\ Bars(a, KeyUses \cup {"checkCode"}, KeySources)
  BY DEF Calls, Has, Bars, KeyUses, KeySources
<1>4. \/ g.todo = Tail(s)
      \/ Head(s) = "checkCode" /\ g.todo = a \o Tail(s)
  BY FollowsParts
<1> HIDE DEF s, a
<1>5. CASE g.todo = Tail(s)
  <2>1. /\ Guarded(g.todo)
        /\ Has(g.todo, {"setVerified"}) => Has(s, {"setVerified"})
        /\ Has(s, Guards) => Head(s) \in Guards \/ Has(g.todo, Guards)
    BY <1>1, <1>2, <1>5, HasTail
  <2> QED
    BY <2>1 DEF s
<1>6. CASE Head(s) = "checkCode" /\ g.todo = a \o Tail(s)
  <2>1. Bars(a, {"setVerified"}, Guards)
    BY <1>3, BarsNone
  <2>2. Bars(a \o Tail(s), {"setVerified"}, Guards)
    BY <1>1, <1>2, <1>3, <2>1, BarsJoin DEF Guarded
  <2>3. Bars(a \o Tail(s), KeyUses \cup {"checkCode"}, KeySources)
    BY <1>1, <1>2, <1>3, <1>6, BarsJoin DEF Guarded
  <2>4. Has(a \o Tail(s), {"setVerified"}) => Has(s, {"setVerified"})
    BY <1>1, <1>3, HasJoin, HasTail
  <2>5. Head(s) \in Guards
    BY <1>6 DEF Guards
  <2> QED
    BY <1>6, <2>2, <2>3, <2>4, <2>5 DEF Guarded, s
<1> QED
  BY <1>4, <1>5, <1>6
LEMMA GoesCodes ==
    ASSUME IInv, Courses, CodesInv, work.parallel = 1, NoKeyAdded,
           NEW r \in Requests, Goes(r), Courses', IInv', UNCHANGED work
    PROVE  /\ \A k \in Keys : keys'[k] = NoUser
           /\ ~Idle(r)' => CodeOK(req[r])'
           /\ \A u \in Users : Exists(u)' /\ row'[u].verified => row'[u].secret \in confirmed'
<1> DEFINE f == req[r]
           s == f.todo
<1>1. /\ ~Idle(r) /\ Moves(r) /\ CodeOK(f) /\ \A k \in Keys : keys[k] = NoUser
      /\ \A v \in Users : Exists(v) /\ row[v].verified => row[v].secret \in confirmed
      /\ confirmed \subseteq confirmed'
  BY ConfirmedStays DEF Goes, CodesInv, NoKeyAdded
<1>2. /\ User(r) \in Users /\ f.op \in Operations /\ s \in Seq(Calls) \ {<<>>}
      /\ s \in Seq(CallsOf(f.op)) /\ f.snap \in Row \cup {Missing} /\ Tail(s) \in Seq(Calls)
  BY <1>1, OpenFrame DEF Courses, OnCourse, Course, OnceRow
<1>3. f.op \in work.ops /\ f.op \notin {"setupYubikey", "completeWebAuthnRegistration"}
  BY <1>1 DEF CodeOK, NoKeyAdded
<1> PICK u \in Users : u = User(r)
  BY <1>2
<1>4. /\ Has(s, {"setVerified"}) => f.op \in Guarding
      /\ ~Has(s, {"createKey"})
      /\ f.op \in Verify => ~Has(s, {"saveSecret", "resetTwoFactor", "createRow", "deleteRow"})
      /\ f.op \in Guarding /\ Has(s, {"checkCode"}) => f.op \in Verify
  <2> HIDE DEF f, s
  <2> QED
    BY <1>2, <1>3, VerifiersOnly
<1>5. \A A : Head(s) \in A => Has(s, A)
  <2> HIDE DEF f, s
  <2> QED
    BY <1>2, HasTail
<1>6. \A k \in Keys : keys'[k] = NoUser
  <2>1. ~CreateKey(r)
    BY <1>4, <1>5 DEF CreateKey, At
  <2> QED
    BY <1>1, <2>1, KeySteps
<1>7. /\ \A v \in Users : v # u => row'[v] = row[v]
      /\ \/ row' = row
         \/ Head(s) = "createRow" /\ row'[u] = NewRow(f.op = "create")
         \/ Head(s) = "deleteRow" /\ row'[u] = Deleted
         \/ Exists(u) /\ Rewrites(Head(s), f, row[u], row'[u])
  BY <1>1, RowSteps DEF CreateRow, DeleteRow, At
<1>8. f.op \in Verify /\ Exists(u)' => Exists(u) /\ row'[u].secret = row[u].secret
  BY <1>4, <1>5, <1>7 DEF Rewrites, Exists
<1>9. ASSUME Head(s) = "setVerified", Exists(u)
      PROVE  row[u].secret \in confirmed
  <2>1. f.op \in Guarding /\ Guarded(s)
    BY <1>1, <1>4, <1>5, <1>9 DEF CodeOK
  <2>2. ~Has(s, Guards)
    <3> HIDE DEF f, s
    <3> QED
      BY <1>2, <1>9, <2>1, HasTail, BarsTail DEF Guarded, Guards
  <2>3. Has(s, {"setVerified"})
    BY <1>5, <1>9
  <2> QED
    BY <1>1, <1>9, <2>2, <2>3 DEF CodeOK, User
<1>10. ASSUME NEW v \in Users, Exists(v)', row'[v].verified
       PROVE  row'[v].secret \in confirmed'
  <2>1. CASE v # u \/ row' = row
    BY <1>1, <1>7, <1>10, <2>1 DEF Exists
  <2>2. CASE v = u /\ Head(s) = "createRow" /\ row'[u] = NewRow(f.op = "create")
    BY <1>10, <2>2 DEF NewRow
  <2>3. CASE v = u /\ row'[u] = Deleted
    BY <1>10, <2>3 DEF Exists
  <2>4. CASE v = u /\ Exists(u) /\ Rewrites(Head(s), f, row[u], row'[u])
    <3>1. Head(s) \notin {"saveSecret", "resetTwoFactor"}
      BY <1>10, <2>4 DEF Rewrites
    <3>2. row'[u].secret = row[u].secret
      BY <2>4, <3>1 DEF Rewrites
    <3>3. CASE Head(s) = "setVerified"
      BY <1>1, <1>9, <2>4, <3>2, <3>3
    <3>4. CASE Head(s) # "setVerified"
      BY <1>1, <1>10, <2>4, <3>1, <3>2, <3>4 DEF Rewrites
    <3> QED
      BY <3>3, <3>4
  <2> QED
    BY <1>7, <2>1, <2>2, <2>3, <2>4
<1>11. ASSUME ~Idle(r)' PROVE CodeOK(req[r])'
  <2> PICK g : g = req'[r]
    OBVIOUS
  <2>1. Follows(f, g)
    BY <1>11 DEF Goes
  <2>2. g.op = f.op /\ g.user = u /\ g.todo \in Seq(CallsOf(f.op))
    BY <1>1, <1>11, <2>1, FollowsParts DEF Courses, OnCourse, Course, Idle
  <2>3. g.op \in work'.ops
    BY <1>3, <2>2
  <2>4. IF Head(s) = "readRow" THEN Exists(u) /\ g.snap = row[u] ELSE g.snap = f.snap
    BY <1>1, <1>11, <2>1, FollowsParts, ReadSnap DEF At
  <2>5. Head(s) = "readRow" => row' = row
    BY <1>1, <1>5, <1>7, RowSteps DEF RowWrites, CreateRow, DeleteRow, At
  <2>6. f.op \in Verify /\ Exists(u)' => g.snap.secret = row'[u].secret
    BY <1>1, <1>8, <2>4, <2>5 DEF CodeOK, User
  <2>7. f.op \in Verify => g.snap.secret = f.snap.secret
    BY <1>1, <2>4 DEF CodeOK, User
  <2>8. f.op \in Guarding => Guarded(s) /\ Head(s) \notin {"needsVerification", "needsSetup"}
    <3>1. f.op \in Guarding =>
            CallsOf(f.op) \cap {"needsVerification", "needsSetup"} = {}
      <4> HIDE DEF f
      <4> QED
        BY DEF Guarding, Verify, CallsOf, Resetting, Mailing, Inviting, Code, Counted
    <3>2. Head(s) \in CallsOf(f.op)
      <4> HIDE DEF f, s
      <4> QED
        BY <1>2
    <3> QED
      BY <1>1, <3>1, <3>2 DEF CodeOK
  <2>9. f.op \in Guarding =>
          /\ Guarded(g.todo)
          /\ Has(g.todo, {"setVerified"}) => Has(s, {"setVerified"})
          /\ Has(s, Guards) => Head(s) \in Guards \/ Has(g.todo, Guards)
    BY <1>1, <2>1, <2>8, FollowsGuarded
  <2>10. Has(g.todo, {"setVerified"}) => f.op \in Guarding
    BY <1>2, <1>3, <2>2, VerifiersOnly
  <2>11. ASSUME Has(g.todo, {"setVerified"}), ~Has(g.todo, Guards)
         PROVE  f.op \in Verify /\ g.snap.secret \in confirmed'
    <3>1. CASE Has(s, Guards)
      <4>1. f.op \in Guarding /\ Head(s) \in Guards
        BY <2>9, <2>10, <2>11, <3>1
      <4>2. f.snap.secret \in confirmed' /\ Head(s) = "checkCode"
        BY <1>1, <1>11, <2>11, <4>1, GuardPassed
      <4>3. f.op \in Verify
        BY <1>4, <1>5, <4>1, <4>2
      <4> QED
        BY <2>7, <4>2, <4>3
    <3>2. CASE ~Has(s, Guards)
      <4>1. f.op \in Verify /\ f.snap.secret \in confirmed
        BY <1>1, <2>9, <2>10, <2>11, <3>2 DEF CodeOK
      <4> QED
        BY <1>1, <2>7, <4>1
    <3> QED
      BY <3>1, <3>2
  <2>12. CodeOK(req[r])'
    BY <2>2, <2>3, <2>6, <2>9, <2>11 DEF CodeOK
  <2> QED
    BY <2>12
<1> QED
  BY <1>6, <1>10, <1>11

LEMMA NextCodes ==
    ASSUME IInv, Courses, CodesInv, [Next]_vars
    PROVE  CodesInv'
<1>0. UNCHANGED work /\ IInv' /\ Courses'
  BY WorkStays, NextKeeps, NextCourses
<1> SUFFICES ASSUME work.parallel = 1, NoKeyAdded
             PROVE  /\ Alone'
                    /\ \A k \in Keys : keys'[k] = NoUser
                    /\ \A r \in Requests : ~Idle(r)' => CodeOK(req[r])'
                    /\ \A u \in Users : Exists(u)' /\ row'[u].verified =>
                         row'[u].secret \in confirmed'
  BY <1>0 DEF CodesInv, NoKeyAdded
<1>1. /\ Alone
      /\ \A k \in Keys : keys[k] = NoUser
      /\ \A r \in Requests : ~Idle(r) => CodeOK(req[r])
      /\ \A u \in Users : Exists(u) /\ row[u].verified => row[u].secret \in confirmed
  BY DEF CodesInv, NoKeyAdded
<1>2. CASE \E r \in Requests : Starts(r)
  <2> PICK r \in Requests : Starts(r)
    BY <1>2
  <2>1. UNCHANGED <<row, keys, confirmed>> /\ \A q \in Requests : Idle(q)
    BY DEF Starts, Look, database, record
  <2>2. PICK op \in work.ops \cap Operations, u \in Users : \E s, g :
           /\ req' = [req EXCEPT ![r] = Fresh(op, u, s, g)]
           /\ op \notin Creating => Exists(u) /\ s = row[u]
    BY DEF Starts
  <2>3. PICK s, g :
           /\ req' = [req EXCEPT ![r] = Fresh(op, u, s, g)]
           /\ op \notin Creating => Exists(u) /\ s = row[u]
    BY <2>2
  <2> PICK f : f = Fresh(op, u, s, g)
    OBVIOUS
  <2>4. f.op = op /\ f.user = u /\ f.snap = s /\ f.todo = Handler(op, u, s, {}).calls
    BY DEF Fresh
  <2>5. f.op \in Verify => f.snap = row[u]
    BY <2>3, <2>4 DEF Verify, Creating
  <2>6. f.op \in Guarding => Guarded(f.todo) /\ Has(f.todo, Guards)
    BY <2>4, ProgramsGuarded
  <2>7. Has(f.todo, {"setVerified"}) => f.op \in Guarding
    BY <2>4, ProgramsIn, VerifiersOnly DEF NoKeyAdded
  <2>8. CodeOK(f)'
    BY <1>0, <2>1, <2>4, <2>5, <2>6, <2>7 DEF CodeOK, Exists
  <2>9. \A q \in Requests : ~Idle(q)' => req'[q] = f
    BY <2>1, <2>3 DEF Idle, IInv, TypeOK
  <2>10. \A q \in Requests : ~Idle(q)' => CodeOK(req[q])'
    BY <2>8, <2>9 DEF CodeOK
  <2> QED
    BY <1>1, <2>1, <2>10, AloneSteps DEF Exists
<1>3. CASE \E r \in Requests : Goes(r)
  <2> PICK r \in Requests : Goes(r)
    BY <1>3
  <2>1. /\ \A k \in Keys : keys'[k] = NoUser
        /\ ~Idle(r)' => CodeOK(req[r])'
        /\ \A u \in Users : Exists(u)' /\ row'[u].verified => row'[u].secret \in confirmed'
    BY <1>0, GoesCodes
  <2>2. \A q \in Requests : q # r => Idle(q)'
    BY DEF Goes
  <2> QED
    BY <1>1, <2>1, <2>2, AloneSteps
<1>4. CASE Stop \/ Expire \/ UNCHANGED vars
  <2>1. UNCHANGED <<row, keys, confirmed>>
    BY <1>4 DEF Stop, Expire, vars, database, record
  <2>2. \A r \in Requests : ~Idle(r)' => req'[r] = req[r]
    BY <1>4 DEF Stop, Expire, vars, Idle
  <2>3. \A r \in Requests : ~Idle(r)' => ~Idle(r)
    BY <2>2 DEF Idle
  <2>4. ASSUME NEW r \in Requests, ~Idle(r)' PROVE CodeOK(req[r])'
    BY <1>0, <1>1, <2>1, <2>2, <2>3, <2>4 DEF CodeOK, Exists
  <2> QED
    BY <1>1, <2>1, <2>4, AloneSteps DEF Exists
<1> QED
  BY <1>1, <1>2, <1>3, <1>4, AloneSteps

\* Where no keys are added and requests do not overlap, no secret counts as verified
\* unless a code of it was accepted, whatever calls fail and whenever the process
\* ends (generateTwoFactorSetup, verify2FACode, verifySession2FA, reset2FA).
THEOREM VerifiedIsConfirmed == Spec => []VerifiedMeansConfirmed
<1>1. Init => CodesInv
  <2> SUFFICES ASSUME Init PROVE CodesInv
    OBVIOUS
  <2>1. Alone /\ \A r \in Requests : Idle(r)
    BY DEF Init, Alone, Idle
  <2>2. \A k \in Keys : keys[k] = NoUser
    BY DEF Init
  <2>3. \A u \in Users : Exists(u) => ~row[u].verified
    BY DEF Init, Exists, NewRow
  <2> QED
    BY <2>1, <2>2, <2>3 DEF CodesInv
<1>2. CodesInv => VerifiedMeansConfirmed
  BY DEF CodesInv, VerifiedMeansConfirmed
<1>3. IInv /\ Courses /\ CodesInv /\ [Next]_vars => (IInv /\ Courses /\ CodesInv)'
  BY NextKeeps, NextCourses, NextCodes
<1> QED
  BY <1>1, <1>2, <1>3, InitInv, InitCourses, PTL DEF Spec

----------------------------------------------------------------------------
(***************************************************************************)
(* Grants that let one request through.                                    *)
(***************************************************************************)
\* What calls do to the challenges, and what they count.
LEMMA ChallengeSteps ==
    ASSUME IInv, NEW r \in Requests, Moves(r)
    PROVE  \A c \in Challenges :
             \/ challenge'[c] = challenge[c]
             \/ challenge'[c] = Gone
             \/ challenge[c] = Unused /\ challenge'[c] \in Users
<1>0. ~Idle(r) /\ User(r) \in Users
  BY MovesOpen, OpenFrame
<1>1. ASSUME Forget(req[r].grant) \/ UNCHANGED challenge
      PROVE  \A c \in Challenges : challenge'[c] \in {challenge[c], Gone}
  BY <1>1 DEF Forget, IInv, TypeOK
<1>2. ASSUME Answered(r, req[r]) \/ Caught(r)
             \/ Answered(r, [req[r] EXCEPT !.token = tokens + 1])
      PROVE  \A c \in Challenges : challenge'[c] \in {challenge[c], Gone}
  BY <1>1, <1>2 DEF Answered, Caught
<1>3. CASE RowCall(r)
  BY <1>1, <1>2, <1>3 DEF RowCall, ReadRow, SaveSecret, SetVerified, WriteMethod, WriteDevices,
     RemoveDevice, ResetTwoFactor, CreateRow, DeleteRow, SaveToken, SetPassword, Write,
     Update, Look
<1>4. CASE KeyCall(r) \/ CallFails(r)
  BY <1>1, <1>2, <1>4 DEF KeyCall, ReadKeys, PickMethod, CheckYubikey, Registered, NotRegistered,
     FindKey, CreateKey, OwnsKey, DeleteKey, DeleteKeys, Delete, CheckCode, Look, CallFails
<1>5. CASE StoreChallenge(r)
  BY <1>0, <1>5 DEF StoreChallenge, IInv, TypeOK
<1>6. CASE OtherCall(r) /\ ~StoreChallenge(r)
  BY <1>1, <1>2, <1>6 DEF OtherCall, GetChallenge, Credential, UpdateCounter,
     RemoveChallenge, SendMail, NeedsVerification, NeedsSetup, GiveTemporary, Look
<1> QED
  BY <1>3, <1>4, <1>5, <1>6 DEF Moves

LEMMA SpentSteps ==
    ASSUME IInv, NEW r \in Requests, Moves(r)
    PROVE  \/ spent' = spent
           \/ /\ \/ CreateKey(r)
                 \/ UpdateCounter(r)
                 \/ SetPassword(r) /\ req[r].op = "resetPassword"
                 \/ ResetTwoFactor(r) /\ req[r].op = "confirm2FAReset"
              /\ spent' = [spent EXCEPT ![req[r].grant] = @ + 1]
<1>1. CASE RowCall(r)
  <2>1. CASE SetPassword(r) \/ ResetTwoFactor(r)
    BY <2>1 DEF SetPassword, ResetTwoFactor
  <2>2. CASE ReadRow(r) \/ SaveSecret(r) \/ SetVerified(r) \/ WriteMethod(r)
             \/ WriteDevices(r) \/ RemoveDevice(r) \/ CreateRow(r) \/ DeleteRow(r)
             \/ SaveToken(r)
    BY <2>2 DEF ReadRow, SaveSecret, SetVerified, WriteMethod, WriteDevices,
       RemoveDevice, CreateRow, DeleteRow, SaveToken, Write, Look, record
  <2> QED
    BY <1>1, <2>1, <2>2 DEF RowCall
<1>2. CASE KeyCall(r)
  <2>1. CASE CreateKey(r)
    BY <2>1 DEF CreateKey
  <2>2. CASE ~CreateKey(r)
    BY <1>2, <2>2 DEF KeyCall, ReadKeys, PickMethod, CheckYubikey, Registered, NotRegistered,
       FindKey, OwnsKey, DeleteKey, DeleteKeys, Delete, CheckCode, Look, record
  <2> QED
    BY <2>1, <2>2
<1>3. CASE OtherCall(r) \/ CallFails(r)
  <2>1. CASE UpdateCounter(r)
    BY <2>1 DEF UpdateCounter
  <2>2. CASE ~UpdateCounter(r)
    BY <1>3, <2>2 DEF OtherCall, StoreChallenge, GetChallenge, Credential,
       RemoveChallenge, SendMail, NeedsVerification, NeedsSetup, GiveTemporary, Look,
       CallFails, record
  <2> QED
    BY <2>1, <2>2
<1> QED
  BY <1>1, <1>2, <1>3 DEF Moves

LEMMA TokenSteps ==
    ASSUME IInv, NEW r \in Requests, Moves(r)
    PROVE  IF SaveToken(r) THEN tokens' = tokens + 1 ELSE tokens' = tokens
<1>1. CASE RowCall(r)
  BY <1>1 DEF RowCall, ReadRow, SaveSecret, SetVerified, WriteMethod, WriteDevices,
     RemoveDevice, ResetTwoFactor, CreateRow, DeleteRow, SaveToken, SetPassword, Write,
     Look, drawn, At
<1>2. CASE KeyCall(r)
  BY <1>2 DEF KeyCall, ReadKeys, PickMethod, CheckYubikey, Registered, NotRegistered,
     FindKey, CreateKey, OwnsKey, DeleteKey, DeleteKeys, Delete, CheckCode, Look, drawn,
     SaveToken, At
<1>3. CASE OtherCall(r) \/ CallFails(r)
  <2>1. tokens' = tokens
    BY <1>3 DEF OtherCall, StoreChallenge, GetChallenge, Credential, UpdateCounter,
       RemoveChallenge, SendMail, NeedsVerification, NeedsSetup, GiveTemporary, Look, CallFails,
       drawn
  <2>2. SaveToken(r) => tokens' = tokens + 1
    BY DEF SaveToken
  <2> QED
    BY <2>1, <2>2
<1> QED
  BY <1>1, <1>2, <1>3 DEF Moves

\* No row takes a new token, and what is spent is in none.
LEMMA UniqueKept ==
    ASSUME TokensUnique, tokens \in Nat, tokens' \in Nat, tokens <= tokens',
           \A v \in Users : Exists(v)' =>
             /\ row'[v].resetToken # 0 => Exists(v) /\ row'[v].resetToken = row[v].resetToken
             /\ row'[v].tfToken # 0 => Exists(v) /\ row'[v].tfToken = row[v].tfToken,
           \A t \in Tokens : \/ spent'[t] = spent[t]
                             \/ /\ spent'[t] = 1 /\ t <= tokens
                                /\ \A v \in Users : ~Holds(v, t)'
    PROVE  TokensUnique'
<1>1. \A t \in Tokens : t \in Nat /\ t # 0
  BY UsersAssumption DEF Tokens
<1>2. \A t \in Tokens, v \in Users : Holds(v, t)' => Holds(v, t)
  BY <1>1 DEF Holds
<1>3. \A t \in Tokens, u, v \in Users : Holds(u, t)' /\ Holds(v, t)' => u = v
  BY <1>2 DEF TokensUnique
<1>4. \A u \in Users : Exists(u)' /\ row'[u].resetToken # 0 =>
        row'[u].resetToken # row'[u].tfToken
  BY DEF TokensUnique
<1>5. \A t \in Tokens, u \in Users : Holds(u, t)' => t <= tokens' /\ spent'[t] = 0
  <2> SUFFICES ASSUME NEW t \in Tokens, NEW u \in Users, Holds(u, t)'
               PROVE  t <= tokens' /\ spent'[t] = 0
    OBVIOUS
  <2>1. t <= tokens /\ spent[t] = 0
    BY <1>2 DEF TokensUnique
  <2> QED
    BY <1>1, <2>1
<1>6. \A t \in Tokens : spent'[t] <= 1 /\ (spent'[t] # 0 => t <= tokens')
  <2> SUFFICES ASSUME NEW t \in Tokens
               PROVE  spent'[t] <= 1 /\ (spent'[t] # 0 => t <= tokens')
    OBVIOUS
  <2>1. spent[t] <= 1 /\ (spent[t] # 0 => t <= tokens)
    BY DEF TokensUnique
  <2> QED
    BY <1>1, <2>1
<1> QED
  BY <1>3, <1>4, <1>5, <1>6 DEF TokensUnique

\* The tokens in the rows are never the same twice.
LEMMA GoesTokens ==
    ASSUME IInv, Courses, GrantsInv, work.parallel = 1,
           NEW r \in Requests, Goes(r)
    PROVE  TokensUnique'
<1> DEFINE f == req[r]
           s == f.todo
<1>1. /\ ~Idle(r) /\ Moves(r) /\ TokensUnique /\ TokenFrames /\ GrantOK(f)
      /\ f.op \in Operations /\ User(r) \in Users /\ s \in Seq(CallsOf(f.op))
      /\ s \in Seq(Calls) \ {<<>>} /\ Fixed(f.op, s) /\ f.grant \in Grants \cup {NoGrant}
  BY OpenFrame DEF Goes, GrantsInv, Courses, OnCourse, Course
<1> PICK u \in Users : u = User(r)
  BY <1>1
<1>2. Head(s) \in CallsOf(f.op)
  <2> HIDE DEF f, s
  <2> QED
    BY <1>1
<1>3. /\ tokens \in Nat /\ spent \in [Grants -> Nat] /\ MaxTokens \in Nat
      /\ \A v \in Users : Exists(v) => row[v] \in Row
  BY UsersAssumption DEF IInv, TypeOK, Exists
<1>4. /\ \A v \in Users : v # u => row'[v] = row[v]
      /\ \/ row' = row
         \/ row'[u] = NewRow(f.op = "create")
         \/ row'[u] = Deleted
         \/ /\ Exists(u) /\ Exists(u)' /\ RowCall(r)
            /\ Rewrites(Head(s), f, row[u], row'[u])
  BY <1>1, RowSteps
<1>5. CASE SaveToken(r)
  <2> PICK t : t = tokens + 1
    OBVIOUS
  <2>1. /\ t \in Tokens /\ tokens' = t /\ Exists(u) /\ Head(s) = "saveToken"
        /\ \A v \in Users : v # u => row'[v] = row[v]
        /\ spent' = spent
    <3>1. t \in Tokens
      BY <1>3, <1>5, UsersAssumption DEF SaveToken, IInv, TypeOK, Tokens
    <3> QED
      BY <1>4, <1>5, <3>1 DEF SaveToken, At
  <2>2. \/ row'[u].resetToken = t /\ row'[u].tfToken = row[u].tfToken
        \/ row'[u].resetToken = row[u].resetToken /\ row'[u].tfToken = t
    <3>1. CASE f.op = "adminReset2FAForUser"
      <4>1. row'[u] = [row[u] EXCEPT !.tfToken = t]
        BY <1>5, <3>1 DEF SaveToken, IInv, TypeOK
      <4> QED
        BY <1>3, <2>1, <4>1 DEF Row
    <3>2. CASE f.op # "adminReset2FAForUser"
      <4>1. \/ row'[u] = [row[u] EXCEPT !.resetToken = t, !.password = FALSE]
            \/ row'[u] = [row[u] EXCEPT !.resetToken = t]
        BY <1>5, <3>2 DEF SaveToken, IInv, TypeOK
      <4> QED
        BY <1>3, <2>1, <4>1 DEF Row
    <3> QED
      BY <3>1, <3>2
  <2>3. /\ \A v \in Users : ~Holds(v, t)
        /\ spent[t] = 0
    BY <1>1, <1>3, <2>1 DEF TokensUnique
  <2>4. \A x \in Tokens, v \in Users : Holds(v, x)' => Holds(v, x) \/ (x = t /\ v = u)
    BY <2>1, <2>2 DEF Holds, Exists
  <2>5. \A x \in Tokens, v, w \in Users : Holds(v, x)' /\ Holds(w, x)' => v = w
    BY <1>1, <2>3, <2>4 DEF TokensUnique
  <2>6. \A v \in Users : Exists(v)' /\ row'[v].resetToken # 0 =>
          row'[v].resetToken # row'[v].tfToken
    <3> SUFFICES ASSUME NEW v \in Users, Exists(v)', row'[v].resetToken # 0
                 PROVE  row'[v].resetToken # row'[v].tfToken
      OBVIOUS
    <3>1. CASE v # u
      BY <1>1, <2>1, <3>1 DEF TokensUnique, Exists
    <3>2. CASE v = u
      BY <2>1, <2>2, <2>3, <3>2 DEF Holds
    <3> QED
      BY <3>1, <3>2
  <2>7. \A x \in Tokens, v \in Users : Holds(v, x)' => x <= tokens' /\ spent'[x] = 0
    <3> SUFFICES ASSUME NEW x \in Tokens, NEW v \in Users, Holds(v, x)'
                 PROVE  x <= tokens' /\ spent'[x] = 0
      OBVIOUS
    <3>1. x \in Nat
      BY UsersAssumption DEF Tokens
    <3> QED
      BY <1>1, <1>3, <2>1, <2>3, <2>4, <3>1 DEF TokensUnique
  <2>8. \A x \in Tokens : spent'[x] <= 1 /\ (spent'[x] # 0 => x <= tokens')
    <3> SUFFICES ASSUME NEW x \in Tokens
                 PROVE  spent'[x] <= 1 /\ (spent'[x] # 0 => x <= tokens')
      OBVIOUS
    <3>1. x \in Nat /\ spent[x] <= 1 /\ (spent[x] # 0 => x <= tokens)
      BY <1>1, UsersAssumption DEF Tokens, TokensUnique
    <3> QED
      BY <1>3, <2>1, <3>1
  <2>9. f.op \notin ByToken
    <3> HIDE DEF f, s
    <3> QED
      BY <1>2, <2>1 DEF ByToken, CallsOf, Resetting, Mailing, Inviting
  <2> QED
    BY <2>5, <2>6, <2>7, <2>8, <2>9 DEF TokensUnique
<1>6. ASSUME ~SaveToken(r) PROVE TokensUnique'
  <2>1. tokens' = tokens
    BY <1>1, <1>6, TokenSteps
  <2>2. \A v \in Users : Exists(v)' =>
          /\ row'[v].resetToken # 0 => Exists(v) /\ row'[v].resetToken = row[v].resetToken
          /\ row'[v].tfToken # 0 => Exists(v) /\ row'[v].tfToken = row[v].tfToken
    <3> SUFFICES ASSUME NEW v \in Users, Exists(v)'
        PROVE  /\ row'[v].resetToken # 0 => Exists(v) /\ row'[v].resetToken = row[v].resetToken
               /\ row'[v].tfToken # 0 => Exists(v) /\ row'[v].tfToken = row[v].tfToken
      OBVIOUS
    <3>1. CASE row'[v] = row[v]
      BY <3>1 DEF Exists
    <3>2. CASE v = u /\ row'[u] = NewRow(f.op = "create")
      BY <3>2 DEF NewRow
    <3>3. CASE v = u /\ row'[u] = Deleted
      BY <3>3 DEF Exists
    <3>4. CASE /\ v = u /\ Exists(u) /\ RowCall(r)
               /\ Rewrites(Head(s), f, row[u], row'[u])
      <4>1. Head(s) # "saveToken"
        BY <1>6, <3>4 DEF RowCall, At, ReadRow, SaveSecret, SetVerified, WriteMethod,
           WriteDevices, RemoveDevice, ResetTwoFactor, CreateRow, DeleteRow, SetPassword
      <4>2. /\ row'[u].resetToken \in {0, row[u].resetToken}
            /\ row'[u].tfToken \in {0, row[u].tfToken}
        BY <3>4, <4>1 DEF Rewrites
      <4> QED
        BY <3>4, <4>2
    <3> QED
      BY <1>4, <3>1, <3>2, <3>3, <3>4
  <2>3. \A t \in Tokens : \/ spent'[t] = spent[t]
                          \/ /\ spent'[t] = 1 /\ t <= tokens
                             /\ \A v \in Users : ~Holds(v, t)'
    <3>1. CASE spent' = spent
      BY <3>1
    <3>2. CASE /\ CreateKey(r) \/ UpdateCounter(r)
               /\ spent' = [spent EXCEPT ![f.grant] = @ + 1]
      <4>1. f.op \notin ByToken
        <5>1. Head(s) \in {"createKey", "updateCounter"}
          BY <3>2 DEF CreateKey, UpdateCounter, At
        <5> HIDE DEF f, s
        <5> QED
          BY <1>2, <5>1 DEF ByToken, CallsOf, Resetting, Mailing, Inviting
      <4>2. f.grant \notin Tokens
        BY <1>1, <4>1, GrantsAssumption, NoneAssumption DEF GrantOK, Grants
      <4> QED
        BY <1>3, <3>2, <4>2 DEF Grants
    <3>3. CASE /\ \/ SetPassword(r) /\ f.op = "resetPassword"
                  \/ ResetTwoFactor(r) /\ f.op = "confirm2FAReset"
               /\ spent' = [spent EXCEPT ![f.grant] = @ + 1]
      <4>1. /\ Exists(u) /\ f.grant \in Tokens /\ f.grant = TokenOf(f.op, u)
            /\ f.op \in ByToken
        BY <1>1, <3>3 DEF TokenFrames, ByToken
      <4>2. Holds(u, f.grant) /\ spent[f.grant] = 0 /\ f.grant <= tokens
        BY <1>1, <4>1 DEF Holds, TokenOf, TokensUnique
      <4>3. spent'[f.grant] = 1 /\ \A t \in Tokens : t # f.grant => spent'[t] = spent[t]
        BY <1>3, <3>3, <4>1, <4>2 DEF Grants
      <4>4. IF f.op = "resetPassword"
              THEN row'[u].resetToken = 0 /\ row'[u].tfToken = row[u].tfToken
              ELSE row'[u].tfToken = 0 /\ row'[u].resetToken = row[u].resetToken
        <5>1. CASE SetPassword(r) /\ f.op = "resetPassword"
          <6>1. row'[u] = [row[u] EXCEPT !.password = TRUE,
                             !.devices = IF f.op = "changePassword" THEN @ ELSE NoDevices,
                             !.resetToken = 0]
            BY <5>1 DEF SetPassword, Update, IInv, TypeOK
          <6> QED
            BY <1>3, <4>1, <5>1, <6>1 DEF Row
        <5>2. CASE ResetTwoFactor(r) /\ f.op = "confirm2FAReset"
          <6>1. row'[u] = [row[u] EXCEPT
                             !.secret = 0, !.verified = FALSE, !.method = "TOTP",
                             !.devices = NoDevices, !.tfToken = 0]
            BY <5>2 DEF ResetTwoFactor, Update, IInv, TypeOK
          <6> QED
            BY <1>3, <4>1, <5>2, <6>1 DEF Row
        <5> QED
          BY <3>3, <5>1, <5>2
      <4> PICK g : g = f.grant
        OBVIOUS
      <4>5. ~Holds(u, g)'
        <5>1. f.grant # 0
          BY <4>1, UsersAssumption DEF Tokens
        <5>2. row[u].resetToken # 0 => row[u].resetToken # row[u].tfToken
          BY <1>1, <4>1 DEF TokensUnique
        <5>3. row'[u].resetToken # f.grant /\ row'[u].tfToken # f.grant
          BY <4>1, <4>4, <5>1, <5>2 DEF TokenOf
        <5> QED
          BY <5>3 DEF Holds
      <4>6. \A v \in Users : ~Holds(v, g)'
        BY <1>1, <1>4, <4>1, <4>2, <4>5 DEF Holds, TokensUnique, Exists
      <4> QED
        BY <4>2, <4>3, <4>6
    <3> QED
      BY <1>1, <3>1, <3>2, <3>3, SpentSteps
  <2> QED
    BY <1>1, <1>3, <2>1, <2>2, <2>3, UniqueKept
<1> QED
  BY <1>5, <1>6

\* A call that is no check ends its handler only by an error, or as the last one.
LEMMA EndsCaught ==
    ASSUME IInv, NEW r \in Requests, Moves(r), Idle(r)',
           Head(req[r].todo) \notin Checks \cup {"needsVerification", "needsSetup"}
    PROVE  Caught(r) \/ Tail(req[r].todo) = <<>>
<1> DEFINE h == Head(req[r].todo)
<1>1. ~Idle(r) /\ req[r] \in Frame /\ Tail(req[r].todo) \in Seq(Calls)
  BY MovesOpen, OpenFrame DEF OnceFrame
<1>2. ASSUME NEW f \in Frame, f.todo = req[r].todo, Proceed(r, f)
      PROVE  Tail(req[r].todo) = <<>>
  <2> PICK rest : rest = Tail(req[r].todo)
    OBVIOUS
  <2>1. rest \in Seq(Calls) /\ Then(r, f, rest)
    BY <1>1, <1>2 DEF Proceed
  <2>2. rest # <<>> => [f EXCEPT !.todo = rest] \in Frame
    BY <2>1 DEF Frame
  <2>3. rest # <<>> => req'[r] # NoRequest
    BY <2>1, <2>2, NoneAssumption DEF Then, IInv, TypeOK
  <2> QED
    BY <2>3 DEF Idle
<1>3. ASSUME NEW f \in Frame, f.todo = req[r].todo, Answered(r, f)
      PROVE  Caught(r) \/ Tail(req[r].todo) = <<>>
  BY <1>2, <1>3 DEF Answered
<1>4. CASE ReadRow(r)
  <2>1. [req[r] EXCEPT !.snap = row[User(r)]] \in Frame
    BY <1>1, <1>4 DEF ReadRow, Exists, IInv, TypeOK, Frame, User
  <2> QED
    BY <1>1, <1>2, <1>4, <2>1 DEF ReadRow, Frame
<1>5. CASE SaveToken(r)
  <2> PICK t : t = tokens + 1
    OBVIOUS
  <2>1. t \in 0..MaxTokens /\ Answered(r, [req[r] EXCEPT !.token = t])
    BY <1>5, UsersAssumption DEF SaveToken, IInv, TypeOK
  <2> QED
    BY <1>1, <1>3, <2>1 DEF Frame
<1>6. CASE RowCall(r) /\ ~ReadRow(r) /\ ~SaveToken(r)
  <2>1. Answered(r, req[r])
    BY <1>6 DEF RowCall, SaveSecret, SetVerified, WriteMethod, WriteDevices, RemoveDevice,
       ResetTwoFactor, CreateRow, DeleteRow, SetPassword, Write, Update
  <2> QED
    BY <1>1, <1>3, <2>1
<1>7. CASE PickMethod(r)
  <2>1. [req[r] EXCEPT !.method = AutoMethod(Snap(r), KeysOf(User(r)))] \in Frame
    BY <1>1 DEF AutoMethod, Frame, Methods
  <2> QED
    BY <1>1, <1>2, <1>7, <2>1 DEF PickMethod, Frame
<1>8. CASE CreateKey(r) \/ DeleteKey(r) \/ DeleteKeys(r) \/ UpdateCounter(r) \/ SendMail(r)
  BY <1>1, <1>3, <1>8 DEF CreateKey, DeleteKey, DeleteKeys, Delete, UpdateCounter, SendMail
<1>9. CASE StoreChallenge(r) \/ RemoveChallenge(r) \/ GiveTemporary(r)
  BY <1>1, <1>2, <1>9 DEF StoreChallenge, RemoveChallenge, GiveTemporary
<1>10. CASE CallFails(r)
  BY <1>10 DEF CallFails
<1>11. CASE KeyCall(r) /\ ~PickMethod(r) /\ ~CreateKey(r) /\ ~DeleteKey(r) /\ ~DeleteKeys(r)
  <2>1. Head(req[r].todo) \in Checks
    BY <1>11 DEF KeyCall, ReadKeys, CheckYubikey, Registered, NotRegistered, FindKey, OwnsKey,
       CheckCode, At, Checks, Code
  <2> QED
    BY <2>1
<1>12. CASE /\ OtherCall(r) /\ ~StoreChallenge(r) /\ ~UpdateCounter(r) /\ ~RemoveChallenge(r)
            /\ ~SendMail(r) /\ ~GiveTemporary(r)
  <2>1. Head(req[r].todo) \in Checks \cup {"needsVerification", "needsSetup"}
    BY <1>12 DEF OtherCall, GetChallenge, Credential, NeedsVerification, NeedsSetup, At, Checks
  <2> QED
    BY <2>1
<1> QED
  BY <1>4, <1>5, <1>6, <1>7, <1>8, <1>9, <1>10, <1>11, <1>12 DEF Moves, OtherCall

\* What the handlers that got a challenge still do.
LEMMA ChallengedCalls ==
    ASSUME NEW op \in Operations
    PROVE  /\ op \in Challenged =>
                /\ op \notin ByToken
                /\ CallsOf(op) \cap {"needsVerification", "needsSetup", "checkCode"} = {}
           /\ op \notin Challenged => "getChallenge" \notin CallsOf(op)
  BY DEF Operations, CallsOf, Challenged, ByToken, Spends, Resetting, Mailing, Inviting, Code,
     Counted, Chosen

\* The challenge of a handler that spent it, or is about to, is removed, by the
\* handler or by its catch block.
LEMMA Closing ==
    ASSUME IInv, Courses, NEW r \in Requests, Goes(r), req[r].op \in Challenged,
           NEW c \in Challenges, req[r].grant = c,
           Head(req[r].todo) \notin Checks, Has(req[r].todo, {"removeChallenge"}),
           ~Has(Tail(req[r].todo), Checks \cup Effects)
    PROVE  \/ challenge'[c] = Gone
           \/ /\ ~Idle(r)' /\ req'[r].grant = c /\ req'[r].op \in Challenged
              /\ Spent(req'[r])
<1> DEFINE s == req[r].todo
<1>1. /\ ~Idle(r) /\ Moves(r) /\ s \in Seq(Calls) \ {<<>>} /\ req[r].op \in Operations
      /\ s \in Seq(CallsOf(req[r].op)) /\ Tail(s) \in Seq(Calls)
  BY OpenFrame DEF Goes, Courses, OnCourse, Course
<1>2. Head(s) \notin {"needsVerification", "needsSetup", "checkCode"}
  <2>1. Head(s) \in CallsOf(req[r].op)
    BY <1>1
  <2> QED
    BY <1>1, <2>1, ChallengedCalls
<1>3. CASE Head(s) = "removeChallenge"
  <2>1. RemoveChallenge(r)
    BY <1>1, <1>3 DEF Moves, At, KeyCall, ReadKeys, PickMethod, CheckYubikey, Registered,
       NotRegistered, FindKey, CreateKey, OwnsKey, DeleteKey, DeleteKeys, CheckCode,
       OtherCall, StoreChallenge, GetChallenge, Credential, UpdateCounter,
       SendMail, NeedsVerification, NeedsSetup, GiveTemporary,
       RowCall, ReadRow, SaveSecret, SetVerified, WriteMethod, WriteDevices,
       RemoveDevice, ResetTwoFactor, CreateRow, DeleteRow, SaveToken, SetPassword,
       CallFails, Synchronous
  <2> QED
    BY <2>1 DEF RemoveChallenge, Forget, IInv, TypeOK
<1>4. CASE Head(s) # "removeChallenge"
  <2>1. Has(Tail(s), {"removeChallenge"}) /\ ~Has(s, Checks)
    <3>1. Has(s, {"removeChallenge"}) /\ Head(s) \notin Checks
          /\ ~Has(Tail(s), Checks \cup Effects)
      OBVIOUS
    <3> HIDE DEF s
    <3> QED
      BY <1>1, <1>4, <3>1, HasTail, HasMore
  <2>2. CASE Idle(r)'
    <3>1. Tail(s) # <<>>
      BY <2>1 DEF Has
    <3>2. Caught(r)
      BY <1>1, <1>2, <2>2, <3>1, EndsCaught
    <3>3. Verifying(r)
      <4>1. DOMAIN s = 1..Len(s)
        BY <1>1
      <4> QED
        BY <1>1, <2>1, <4>1 DEF Verifying, Ahead, Has, Checks
    <3> QED
      BY <3>2, <3>3 DEF Caught, Forget, IInv, TypeOK
  <2>3. CASE ~Idle(r)'
    <3>1. Follows(req[r], req'[r])
      BY <2>3 DEF Goes
    <3>2. /\ req'[r].todo = Tail(s) /\ req'[r].op = req[r].op /\ req'[r].grant = c
      BY <1>2, <3>1 DEF Follows, Checks
    <3> QED
      BY <2>1, <2>3, <3>2 DEF Spent
  <2> QED
    BY <2>2, <2>3
<1> QED
  BY <1>3, <1>4

\* What a challenge brings to the frame that gets it.
LEMMA GetsChallenge ==
    ASSUME IInv, NEW r \in Requests, Moves(r), At(r, "getChallenge"), ~Idle(r)'
    PROVE  /\ UNCHANGED <<row, challenge, spent>>
           /\ req'[r].grant \in Challenges /\ challenge[req'[r].grant] = User(r)
<1>1. GetChallenge(r) /\ req[r] \in Frame
  <2>1. ~CallFails(r)
    BY FailsIdle DEF CallFails
  <2> QED
    BY <2>1, OpenFrame DEF Moves, At, KeyCall, ReadKeys, PickMethod, CheckYubikey, Registered,
       NotRegistered, FindKey, CreateKey, OwnsKey, DeleteKey, DeleteKeys, CheckCode,
       OtherCall, StoreChallenge, Credential, UpdateCounter, RemoveChallenge,
       SendMail, NeedsVerification, NeedsSetup, GiveTemporary,
       RowCall, ReadRow, SaveSecret, SetVerified, WriteMethod, WriteDevices,
       RemoveDevice, ResetTwoFactor, CreateRow, DeleteRow, SaveToken, SetPassword, OnceFrame
<1>2. PICK c \in Challenges, k \in WebAuthnKeys :
        /\ challenge[c] = User(r)
        /\ Proceed(r, [req[r] EXCEPT !.grant = c, !.key = k])
  BY <1>1, FailsIdle DEF GetChallenge
<1> DEFINE f == [req[r] EXCEPT !.grant = c, !.key = k]
<1>3. f \in Frame /\ f.grant = c
  BY <1>1, UsersAssumption DEF Frame, Grants
<1> HIDE DEF f
<1>4. req'[r] = [f EXCEPT !.todo = Tail(f.todo)]
  BY <1>2, <1>3, Proceeds DEF f
<1>5. req'[r].grant = c
  BY <1>3, <1>4 DEF Frame
<1> QED
  BY <1>1, <1>2, <1>5 DEF GetChallenge, Look, database, record

LEMMA GoesTokenFrames ==
    ASSUME IInv, Courses, GrantsInv, work.parallel = 1,
           NEW r \in Requests, Goes(r), ~Idle(r)', NEW op \in ByToken, op = req[r].op,
           NEW u \in Users, u = User(r)
    PROVE  /\ req'[r].op = op /\ User(r)' = u /\ Exists(u)'
           /\ req'[r].grant \in Tokens /\ req'[r].grant = TokenOf(op, u)'
<1> DEFINE f == req[r]
           s == f.todo
<1> PICK g : g = req'[r]
  OBVIOUS
<1>1. /\ ~Idle(r) /\ Moves(r) /\ TokenFrames /\ Follows(f, g) /\ Fixed(f.op, s)
      /\ g.todo \in Seq(Calls) \ {<<>>} /\ g.op = f.op /\ g.user = u /\ f.op \in ByToken
  BY FollowsParts DEF Goes, GrantsInv, Courses, OnCourse, Course, Follows
<1>2. Head(s) \notin {"checkCode", "needsVerification", "needsSetup"} => g.todo = Tail(s)
  BY <1>1 DEF Follows
<1>3. f.op = "confirm2FAReset" /\ Head(s) = "deleteKeys"
  <2>1. s \in {<<"setPassword">>, <<"resetTwoFactor">>, <<"deleteKeys", "resetTwoFactor">>}
        /\ (f.op = "confirm2FAReset" \/ s = <<"setPassword">>)
    BY <1>1 DEF Fixed, ByToken, Resetting
  <2>2. /\ Tail(<<"setPassword">>) = <<>> /\ Head(<<"setPassword">>) = "setPassword"
        /\ Tail(<<"resetTwoFactor">>) = <<>> /\ Head(<<"resetTwoFactor">>) = "resetTwoFactor"
        /\ Head(<<"deleteKeys", "resetTwoFactor">>) = "deleteKeys"
    OBVIOUS
  <2> HIDE DEF f, s
  <2> QED
    BY <1>1, <1>2, <2>1, <2>2
<1>4. row' = row
  BY <1>1, <1>3, RowSteps DEF RowWrites, CreateRow, DeleteRow, At
<1>5. g.grant = f.grant
  BY <1>1, <1>3 DEF Follows
<1>6. Exists(u) /\ f.grant \in Tokens /\ f.grant = TokenOf(f.op, u)
  BY <1>1 DEF TokenFrames
<1> QED
  BY <1>1, <1>4, <1>5, <1>6 DEF Exists, TokenOf, User

\* What has changed of the count of a challenge.
LEMMA ChallengeSpends ==
    ASSUME IInv, Courses, NEW r \in Requests, Goes(r), GrantOK(req[r]), TokenFrames,
           NEW c \in Challenges, spent'[c] # spent[c]
    PROVE  /\ req[r].op \in Challenged /\ req[r].grant = c
           /\ Head(req[r].todo) \in Spends /\ spent'[c] = spent[c] + 1
<1> DEFINE f == req[r]
<1>1. /\ ~Idle(r) /\ Moves(r) /\ f.op \in Operations /\ Head(f.todo) \in CallsOf(f.op)
      /\ f.grant \in Grants \cup {NoGrant} /\ spent \in [Grants -> Nat]
  BY OpenFrame DEF Goes, Courses, OnCourse, Course, IInv, TypeOK
<1>2. f.grant = c /\ spent'[c] = spent[c] + 1
  BY <1>1, SpentSteps DEF Grants
<1>3. /\ Head(f.todo) \in Spends \/ f.op \in ByToken
  BY <1>1, SpentSteps DEF CreateKey, UpdateCounter, At, Spends, ByToken
<1>4. f.op \notin ByToken
  BY <1>1, <1>2, GrantsAssumption DEF TokenFrames
<1>5. f.op \in Challenged
  BY <1>2, <1>4, NoneAssumption DEF GrantOK, Grants
<1> QED
  BY <1>2, <1>3, <1>4, <1>5

LEMMA GoesChallenges ==
    ASSUME IInv, Courses, GrantsInv, work.parallel = 1, NEW r \in Requests, Goes(r)
    PROVE  ChallengesSpent'
<1> DEFINE f == req[r]
           s == f.todo
<1>1. /\ ~Idle(r) /\ Moves(r) /\ TokenFrames /\ ChallengesSpent /\ GrantOK(f) /\ Alone
      /\ s \in Seq(Calls) \ {<<>>} /\ Tail(s) \in Seq(Calls) /\ Ordered(f.op, s)
  BY OpenFrame DEF Goes, GrantsInv, Courses, OnCourse, Course
<1> SUFFICES ASSUME NEW c \in Challenges
             PROVE  /\ spent'[c] <= 1
                    /\ spent'[c] # 0 => challenge'[c] # Unused
                    /\ spent'[c] # 0 =>
                         \/ challenge'[c] = Gone
                         \/ \E q \in Requests : /\ ~Idle(q)' /\ req'[q].grant = c
                                                /\ req'[q].op \in Challenged /\ Spent(req'[q])
  BY DEF ChallengesSpent, Idle, Spent, Has
<1>2. challenge[c] # Unused => challenge'[c] # Unused
  BY <1>1, ChallengeSteps, NoneAssumption
<1>3. CASE spent'[c] # spent[c]
  <2>1. f.op \in Challenged /\ f.grant = c /\ Head(s) \in Spends /\ spent'[c] = spent[c] + 1
    BY <1>1, <1>3, ChallengeSpends
  <2>2. Head(s) \notin Checks /\ Head(s) \in Effects
    BY <2>1 DEF Spends, Checks, Effects, Code
  <2>3. /\ ~Has(Tail(s), Checks \cup Effects) /\ Has(s, {"removeChallenge"})
        /\ ~Has(s, {"getChallenge"}) /\ Has(s, Spends)
    <3>1. Bars(s, Effects, Checks \cup Effects) /\ Leads(s, Spends, {"removeChallenge"})
      BY <1>1, <2>1 DEF Ordered
    <3>2. "getChallenge" \in Checks
      BY DEF Checks
    <3> HIDE DEF f, s
    <3> QED
      BY <1>1, <2>1, <2>2, <3>1, <3>2, HasTail, HasMore, LeadsTail, BarsTail
  <2>4. spent[c] = 0 /\ challenge[c] # Unused
    BY <1>1, <2>1, <2>3 DEF GrantOK
  <2>5. \/ challenge'[c] = Gone
        \/ /\ ~Idle(r)' /\ req'[r].grant = c /\ req'[r].op \in Challenged
           /\ Spent(req'[r])
    BY <2>1, <2>2, <2>3, Closing
  <2> QED
    BY <1>2, <2>1, <2>4, <2>5
<1>4. CASE spent'[c] = spent[c] /\ spent[c] # 0
  <2>1. spent[c] <= 1 /\ challenge[c] # Unused
    BY <1>1, <1>4 DEF ChallengesSpent
  <2>2. CASE challenge[c] = Gone
    <3>1. challenge'[c] = Gone
      BY <1>1, <2>2, ChallengeSteps, NoneAssumption
    <3> QED
      BY <1>2, <1>4, <2>1, <3>1
  <2>3. CASE challenge[c] # Gone
    <3>1. f.grant = c /\ f.op \in Challenged /\ Spent(f)
      BY <1>1, <1>4, <2>3 DEF ChallengesSpent, Alone
    <3>2. /\ Head(s) \notin Checks /\ Has(s, {"removeChallenge"})
          /\ ~Has(Tail(s), Checks \cup Effects)
      <4>1. Has(s, {"removeChallenge"}) /\ ~Has(s, Checks \cup Effects)
        BY <3>1 DEF Spent
      <4> HIDE DEF f, s
      <4> QED
        BY <1>1, <4>1, HasTail
    <3>3. \/ challenge'[c] = Gone
          \/ /\ ~Idle(r)' /\ req'[r].grant = c /\ req'[r].op \in Challenged
             /\ Spent(req'[r])
      BY <3>1, <3>2, Closing
    <3> QED
      BY <1>2, <1>4, <2>1, <3>3
  <2> QED
    BY <2>2, <2>3
<1>5. CASE spent'[c] = spent[c] /\ spent[c] = 0
  BY <1>5
<1> QED
  BY <1>3, <1>4, <1>5

LEMMA GoesGrant ==
    ASSUME IInv, Courses, GrantsInv, work.parallel = 1, NEW r \in Requests, Goes(r), ~Idle(r)'
    PROVE  GrantOK(req[r])'
<1> DEFINE f == req[r]
           s == f.todo
<1> PICK g : g = req'[r]
  OBVIOUS
<1>1. /\ ~Idle(r) /\ Moves(r) /\ TokenFrames /\ ChallengesSpent /\ GrantOK(f) /\ Alone
      /\ s \in Seq(Calls) \ {<<>>} /\ Tail(s) \in Seq(Calls) /\ Ordered(f.op, s)
      /\ f.op \in Operations /\ s \in Seq(CallsOf(f.op)) /\ User(r) \in Users
      /\ spent \in [Grants -> Nat]
  BY OpenFrame DEF Goes, GrantsInv, Courses, OnCourse, Course, IInv, TypeOK
<1>2. Follows(f, g) /\ g.op = f.op
  BY <1>1 DEF Goes, Follows
<1>3. Head(s) \in CallsOf(f.op) /\ (Head(s) # "getChallenge" => g.grant = f.grant)
  BY <1>1, <1>2 DEF Follows
<1>4. ASSUME Head(s) = "getChallenge"
      PROVE  /\ f.op \in Challenged /\ g.grant \in Challenges
             /\ challenge'[g.grant] # Unused /\ spent'[g.grant] = 0
  <2>1. /\ UNCHANGED <<row, challenge, spent>>
        /\ g.grant \in Challenges /\ challenge[g.grant] = User(r)
    BY <1>1, <1>4, GetsChallenge DEF At
  <2>2. challenge[g.grant] \notin {Unused, Gone}
    BY <1>1, <2>1, NoneAssumption
  <2>3. ~Spent(f)
    <3>1. Has(s, Checks \cup Effects)
      <4>1. Head(s) \in Checks \cup Effects
        BY <1>4 DEF Checks
      <4> HIDE DEF f, s
      <4> QED
        BY <1>1, <4>1, HasTail
    <3> QED
      BY <3>1 DEF Spent
  <2>4. spent[g.grant] = 0
    BY <1>1, <2>1, <2>2, <2>3 DEF ChallengesSpent, Alone
  <2>5. f.op \in Challenged
    BY <1>1, <1>3, <1>4, ChallengedCalls
  <2> QED
    BY <2>1, <2>2, <2>4, <2>5
<1>5. ASSUME f.op \in Challenged, Head(s) # "getChallenge"
      PROVE  \/ Has(g.todo, {"getChallenge"})
             \/ /\ g.grant \in Challenges /\ challenge'[g.grant] # Unused
                /\ Has(g.todo, Spends) => spent'[g.grant] = 0
  <2>1. g.todo = Tail(s)
    BY <1>1, <1>2, <1>3, <1>5, ChallengedCalls DEF Follows
  <2>2. CASE Has(s, {"getChallenge"})
    <3> HIDE DEF f, s
    <3> QED
      BY <1>1, <1>5, <2>1, <2>2, HasTail
  <2>3. CASE ~Has(s, {"getChallenge"})
    <3>1. /\ f.grant \in Challenges /\ challenge[f.grant] # Unused
          /\ Has(s, Spends) => spent[f.grant] = 0
      BY <1>1, <1>5, <2>3 DEF GrantOK
    <3>2. challenge'[f.grant] # Unused
      BY <1>1, <3>1, ChallengeSteps, NoneAssumption
    <3>3. ASSUME Has(g.todo, Spends) PROVE spent'[f.grant] = 0
      <4>1. Has(s, Spends) /\ Head(s) \notin Spends
        <5>1. Bars(s, Effects, Checks \cup Effects) /\ Spends \subseteq Effects
          BY <1>1 DEF Ordered, Spends, Effects
        <5> HIDE DEF f, s
        <5>2. Has(Tail(s), Spends)
          BY <2>1, <3>3
        <5>3. Has(Tail(s), Checks \cup Effects)
          BY <5>1, <5>2, HasMore
        <5> QED
          BY <1>1, <5>1, <5>2, <5>3, HasTail, BarsTail
      <4>2. spent'[f.grant] = spent[f.grant]
        BY <1>1, <3>1, <4>1, ChallengeSpends
      <4> QED
        BY <3>1, <4>1, <4>2
    <3> QED
      BY <1>3, <1>5, <3>1, <3>2, <3>3
  <2> QED
    BY <2>2, <2>3
<1>6. g.op \notin ByToken => g.grant \in Challenges \cup {NoGrant}
  BY <1>1, <1>2, <1>3, <1>4 DEF GrantOK
<1>7. g.op \notin Challenged \cup ByToken => g.grant = NoGrant
  BY <1>1, <1>2, <1>3, <1>4 DEF GrantOK
<1>8. g.op \in Challenged =>
         \/ Has(g.todo, {"getChallenge"})
         \/ /\ g.grant \in Challenges /\ challenge'[g.grant] # Unused
            /\ Has(g.todo, Spends) => spent'[g.grant] = 0
  BY <1>2, <1>4, <1>5
<1> QED
  BY <1>6, <1>7, <1>8 DEF GrantOK

LEMMA ProgramsChallenged ==
    ASSUME NEW op \in Challenged, NEW u, NEW s, NEW held
    PROVE  Has(Handler(op, u, s, held).calls, {"getChallenge"})
<1> DEFINE p == Handler(op, u, s, held).calls
           a == verifyWebAuthnRegistration
           b == verifyWebAuthnAuthentication
           c == autoUpdateTwoFactorMethod
           d == VerifiedOnce(s)
           e == updateVerifiedDevices
           i == <<"readKeys">>
           j == <<"setPassword">>
<1>1. p \in {a \o c, (b \o d) \o e, b, (i \o b) \o j}
  <2>1. op = "completeWebAuthnRegistration" => p = a \o c
    BY DEF Handler, Always, completeWebAuthnRegistration
  <2>2. op = "completeWebAuthnAuthentication" => p = (b \o d) \o e
    BY DEF Handler, Always, completeWebAuthnAuthentication
  <2>3. op = "completeWebAuthnReAuthentication" => p = b
    BY DEF Handler, Always, completeWebAuthnReAuthentication
  <2>4. op = "changePasswordWithWebAuthn" => p = (i \o b) \o j
    BY DEF Handler, changePasswordWithWebAuthn
  <2> HIDE DEF p, a, b, c, d, e, i, j
  <2> QED
    BY <2>1, <2>2, <2>3, <2>4 DEF Challenged
<1>2. /\ a \in Seq(Calls) /\ b \in Seq(Calls) /\ c \in Seq(Calls) /\ d \in Seq(Calls)
      /\ e \in Seq(Calls) /\ i \in Seq(Calls) /\ j \in Seq(Calls)
  BY SharedCalls DEF Calls
<1>3. Has(a, {"getChallenge"}) /\ Has(b, {"getChallenge"})
  BY DEF Has, verifyWebAuthnRegistration, verifyWebAuthnAuthentication
<1> HIDE DEF p, a, b, c, d, e, i, j
<1>4. Has(p, {"getChallenge"})
  BY <1>1, <1>2, <1>3, JoinIn, HasJoin
<1> QED
  BY <1>4 DEF p

LEMMA StartsGrants ==
    ASSUME IInv, GrantsInv, work.parallel = 1, NEW r \in Requests, Starts(r)
    PROVE  /\ TokensUnique' /\ TokenFrames' /\ ChallengesSpent'
           /\ \A q \in Requests : ~Idle(q)' => GrantOK(req[q])'
<1>1. /\ UNCHANGED <<row, challenge, spent, tokens>> /\ \A q \in Requests : Idle(q)
      /\ TokensUnique /\ ChallengesSpent
  BY DEF Starts, Look, database, record, drawn, GrantsInv
<1>2. PICK op \in work.ops \cap Operations, u \in Users : \E s, g :
         /\ req' = [req EXCEPT ![r] = Fresh(op, u, s, g)]
         /\ op \notin Creating => Exists(u) /\ s = row[u]
         /\ op \in ByToken => g \in Tokens /\ g = TokenOf(op, u)
         /\ op \in ByChallenge => g \in Challenges /\ challenge[g] = u
         /\ op \notin ByToken \cup ByChallenge => g = NoGrant
  BY DEF Starts
<1>3. PICK s, g :
         /\ req' = [req EXCEPT ![r] = Fresh(op, u, s, g)]
         /\ op \notin Creating => Exists(u) /\ s = row[u]
         /\ op \in ByToken => g \in Tokens /\ g = TokenOf(op, u)
         /\ op \in ByChallenge => g \in Challenges /\ challenge[g] = u
         /\ op \notin ByToken \cup ByChallenge => g = NoGrant
  BY <1>2
<1> PICK f : f = Fresh(op, u, s, g)
  OBVIOUS
<1>4. f.op = op /\ f.user = u /\ f.grant = g /\ f.todo = Handler(op, u, s, {}).calls
  BY DEF Fresh
<1>5. \A q \in Requests : ~Idle(q)' => req'[q] = f
  BY <1>1, <1>3 DEF Idle, IInv, TypeOK
<1>6. TokensUnique'
  BY <1>1 DEF TokensUnique, Holds, Exists
<1>7. ChallengesSpent'
  BY <1>1 DEF ChallengesSpent
<1>8. ASSUME op \in ByToken
      PROVE  Exists(u)' /\ g \in Tokens /\ g = TokenOf(op, u)'
  <2>1. op \notin Creating
    BY <1>8 DEF ByToken, Creating
  <2> QED
    BY <1>1, <1>3, <1>8, <2>1 DEF Exists, TokenOf
<1>9. TokenFrames'
  BY <1>4, <1>5, <1>8 DEF TokenFrames, User
<1>10. GrantOK(f)'
  <2>1. op \in Challenged => Has(f.todo, {"getChallenge"})
    BY <1>4, ProgramsChallenged
  <2>2. op \notin ByToken => g \in Challenges \cup {NoGrant}
    BY <1>3
  <2>3. op \notin Challenged \cup ByToken => g = NoGrant
    BY <1>3 DEF Challenged, ByChallenge
  <2> QED
    BY <1>4, <2>1, <2>2, <2>3 DEF GrantOK
<1>11. \A q \in Requests : ~Idle(q)' => GrantOK(req[q])'
  BY <1>5, <1>10 DEF GrantOK
<1> QED
  BY <1>6, <1>7, <1>9, <1>11

LEMMA NextGrants ==
    ASSUME IInv, Courses, GrantsInv, [Next]_vars
    PROVE  GrantsInv'
<1>0. UNCHANGED work
  BY WorkStays
<1> SUFFICES ASSUME work.parallel = 1
             PROVE  /\ Alone' /\ TokensUnique' /\ TokenFrames' /\ ChallengesSpent'
                    /\ \A q \in Requests : ~Idle(q)' => GrantOK(req[q])'
  BY <1>0 DEF GrantsInv
<1>1. /\ Alone /\ TokensUnique /\ TokenFrames /\ ChallengesSpent
      /\ \A q \in Requests : ~Idle(q) => GrantOK(req[q])
  BY DEF GrantsInv
<1>2. Alone'
  BY <1>1, AloneSteps
<1>3. CASE \E r \in Requests : Starts(r)
  BY <1>2, <1>3, StartsGrants
<1>4. CASE \E r \in Requests : Goes(r)
  <2> PICK r \in Requests : Goes(r)
    BY <1>4
  <2>1. /\ ~Idle(r) /\ req[r].op \in Operations /\ User(r) \in Users
        /\ \A q \in Requests : q # r => Idle(q)'
    BY OpenFrame DEF Goes
  <2>2. TokensUnique' /\ ChallengesSpent' /\ (~Idle(r)' => GrantOK(req[r])')
    BY GoesTokens, GoesChallenges, GoesGrant
  <2>3. TokenFrames'
    <3> SUFFICES ASSUME NEW q \in Requests, ~Idle(q)', req'[q].op \in ByToken
                 PROVE  /\ Exists(User(q))' /\ req'[q].grant \in Tokens
                        /\ req'[q].grant = TokenOf(req[q].op, User(q))'
      BY DEF TokenFrames
    <3>1. q = r /\ Follows(req[r], req'[r])
      BY <2>1 DEF Goes
    <3>2. req'[r].op = req[r].op
      BY <3>1 DEF Follows
    <3> PICK op \in ByToken, u \in Users : op = req[r].op /\ u = User(r)
      BY <2>1, <3>1, <3>2
    <3>3. /\ req'[r].op = op /\ User(r)' = u /\ Exists(u)'
          /\ req'[r].grant \in Tokens /\ req'[r].grant = TokenOf(op, u)'
      BY <3>1, GoesTokenFrames
    <3> QED
      BY <3>1, <3>3 DEF Exists, TokenOf
  <2> QED
    BY <1>2, <2>1, <2>2, <2>3
<1>5. CASE Stop \/ Expire \/ UNCHANGED vars
  <2>1. UNCHANGED <<row, spent, tokens>>
    BY <1>5 DEF Stop, Expire, vars, database, record, drawn
  <2>2. \A q \in Requests : ~Idle(q)' => ~Idle(q) /\ req'[q] = req[q]
    BY <1>5 DEF Stop, Expire, vars, Idle
  <2>3. \A c \in Challenges : challenge'[c] \in {challenge[c], Gone}
    BY <1>5 DEF Stop, Expire, vars, Forget, IInv, TypeOK
  <2>4. \A c \in Challenges : challenge[c] # Unused => challenge'[c] # Unused
    BY <2>3, NoneAssumption
  <2>5. TokensUnique'
    BY <1>1, <2>1 DEF TokensUnique, Holds, Exists
  <2>6. TokenFrames'
    BY <1>1, <2>1, <2>2 DEF TokenFrames, User, Exists, TokenOf
  <2>7. ChallengesSpent'
    <3>1. CASE Stop
      BY <1>1, <2>1, <2>4, <3>1 DEF Stop, ChallengesSpent
    <3>2. CASE Expire \/ UNCHANGED vars
      <4>1. UNCHANGED req
        BY <3>2 DEF Expire, vars
      <4> QED
        BY <1>1, <2>1, <2>3, <2>4, <4>1 DEF ChallengesSpent, Idle
    <3> QED
      BY <1>5, <3>1, <3>2
  <2>8. ASSUME NEW q \in Requests, ~Idle(q)' PROVE GrantOK(req[q])'
    BY <1>1, <2>1, <2>2, <2>4, <2>8 DEF GrantOK
  <2> QED
    BY <1>2, <2>5, <2>6, <2>7, <2>8
<1> QED
  BY <1>1, <1>3, <1>4, <1>5, AloneSteps

\* When requests do not overlap, no token and no challenge lets two of them through,
\* whatever calls fail and whenever the process ends: what spends a token takes it
\* out of its row, and a challenge that was spent is removed on every way out of the
\* handler that spent it (resetPassword, confirm2FAReset,
\* verifyWebAuthnAuthentication, verifyWebAuthnRegistration).
THEOREM GrantsOnce == Spec => []OneTimeGrants
<1>1. Init => GrantsInv
  <2> SUFFICES ASSUME Init PROVE GrantsInv
    OBVIOUS
  <2>1. /\ \A r \in Requests : Idle(r)
        /\ \A u \in Users : Exists(u) => row[u] = NewRow(TRUE)
        /\ \A g \in Grants : spent[g] = 0
    BY DEF Init, Exists, Idle
  <2>2. \A t \in Tokens, u \in Users : ~Holds(u, t)
    <3>1. \A t \in Tokens : t # 0
      BY UsersAssumption DEF Tokens
    <3> QED
      BY <2>1, <3>1 DEF Holds, NewRow
  <2>3. TokensUnique
    BY <2>1, <2>2 DEF TokensUnique, Grants, NewRow
  <2>4. Alone /\ TokenFrames /\ ChallengesSpent
    BY <2>1 DEF Alone, TokenFrames, ChallengesSpent, Grants
  <2> QED
    BY <2>1, <2>3, <2>4 DEF GrantsInv
<1>2. GrantsInv => OneTimeGrants
  BY DEF GrantsInv, OneTimeGrants, Grants, TokensUnique, ChallengesSpent
<1>3. IInv /\ Courses /\ GrantsInv /\ [Next]_vars => (IInv /\ Courses /\ GrantsInv)'
  BY NextKeeps, NextCourses, NextGrants
<1> QED
  BY <1>1, <1>2, <1>3, InitInv, InitCourses, PTL DEF Spec

----------------------------------------------------------------------------
(***************************************************************************)
(* Methods that fit the factors a user has.                                *)
(***************************************************************************)
LEMMA ProgramsChoose ==
    ASSUME NEW op \in Operations, NEW u, NEW s, NEW held
    PROVE  /\ Has(Handler(op, u, s, held).calls, {"writeMethod"}) =>
                Has(Handler(op, u, s, held).calls, {Choice(op)})
           /\ op \in Resetting =>
                Handler(op, u, s, held).calls = <<"deleteKeys", "resetTwoFactor">>
<1> DEFINE p == Handler(op, u, s, held).calls
           a == <<"readKeys", "checkYubikey", "notRegistered">>
           b == addYubikeyToUser
           c == <<"ownsKey", "deleteKey">>
           d == verifyWebAuthnRegistration
           e == autoUpdateTwoFactorMethod
<1>1. op \in Resetting => p = <<"deleteKeys", "resetTwoFactor">>
  BY DEF Resetting, Handler, Always, disable2FA, confirm2FAReset
<1>2. CASE op = "setTwoFactorMethod"
  <2>1. p = <<"readKeys", "writeMethod">>
    BY <1>2 DEF Handler, Always, setTwoFactorMethod
  <2>2. Has(<<"readKeys", "writeMethod">>, {"readKeys"})
    BY DEF Has
  <2> QED
    BY <1>1, <1>2, <2>1, <2>2 DEF Choice
<1>3. CASE op \in {"setupYubikey", "removeYubikey", "completeWebAuthnRegistration"}
  <2>1. p \in {(a \o b) \o e, c \o e, d \o e}
    <3>1. op = "setupYubikey" => p = (a \o b) \o e
      BY DEF Handler, setupYubikey
    <3>2. op = "removeYubikey" => p = c \o e
      BY DEF Handler, Always, removeYubikey
    <3>3. op = "completeWebAuthnRegistration" => p = d \o e
      BY DEF Handler, Always, completeWebAuthnRegistration
    <3> HIDE DEF p, a, b, c, d, e
    <3> QED
      BY <1>3, <3>1, <3>2, <3>3
  <2>2. /\ a \in Seq(Calls) /\ b \in Seq(Calls) /\ c \in Seq(Calls) /\ d \in Seq(Calls)
        /\ e \in Seq(Calls)
    BY SharedCalls DEF Calls
  <2>3. Has(e, {"pickMethod"})
    BY DEF Has, autoUpdateTwoFactorMethod
  <2> HIDE DEF p, a, b, c, d, e
  <2>4. Has(p, {"pickMethod"})
    BY <2>1, <2>2, <2>3, JoinIn, HasJoin
  <2> QED
    BY <1>1, <1>3, <2>4 DEF Choice, p
<1>4. CASE op \notin {"setTwoFactorMethod", "setupYubikey", "removeYubikey",
                     "completeWebAuthnRegistration"}
  <2>1. CallsOf(op) \cap {"writeMethod"} = {}
    BY <1>4 DEF Operations, CallsOf, Resetting, Mailing, Inviting, Code, Counted
  <2>2. p \in Seq(CallsOf(op))
    BY ProgramsIn
  <2> HIDE DEF p
  <2>3. ~Has(p, {"writeMethod"})
    BY <2>1, <2>2, HasNone
  <2> QED
    BY <1>1, <2>3 DEF p
<1> QED
  BY <1>2, <1>3, <1>4

\* What the handlers that write a method call.
LEMMA WritingCalls ==
    ASSUME NEW op \in Operations
    PROVE  /\ op \in Writing =>
                CallsOf(op) \subseteq Checks \cup Effects \cup
                  {"setVerified", "readRow", "pickMethod", "writeMethod", "removeChallenge"}
           /\ op \in Writing =>
                "checkCode" \notin CallsOf(op) /\ op \notin Resetting \cup Creating
           /\ op = "setTwoFactorMethod" => CallsOf(op) \cap {"createKey", "deleteKey"} = {}
           /\ CallsOf(op) \cap {"writeMethod", "createKey", "deleteKey"} # {} => op \in Writing
           /\ CallsOf(op) \cap {"deleteKeys", "resetTwoFactor"} # {} => op \in Resetting
           /\ "createRow" \in CallsOf(op) => op \in Creating
           /\ "deleteRow" \in CallsOf(op) => op = "delete"
           /\ op \in Resetting => CallsOf(op) = {"deleteKeys", "resetTwoFactor"}
<1>1. CASE op \in Writing
  <2>1. /\ CallsOf(op) \subseteq Checks \cup Effects \cup
             {"setVerified", "readRow", "pickMethod", "writeMethod", "removeChallenge"}
        /\ "checkCode" \notin CallsOf(op)
    BY <1>1 DEF CallsOf, Writing, Checks, Effects, Resetting, Mailing, Inviting, Code, Chosen
  <2>2. CallsOf(op) \cap {"deleteKeys", "resetTwoFactor", "createRow", "deleteRow"} = {}
    BY <1>1 DEF CallsOf, Writing, Resetting, Mailing, Inviting, Code, Chosen
  <2>3. op \notin Resetting \cup Creating
    BY <1>1 DEF Writing, Resetting, Creating
  <2>4. op = "setTwoFactorMethod" => CallsOf(op) \cap {"createKey", "deleteKey"} = {}
    BY DEF CallsOf, Resetting, Mailing, Inviting
  <2> QED
    BY <1>1, <2>1, <2>2, <2>3, <2>4
<1>2. CASE op \notin Writing
  <2>1. CallsOf(op) \cap {"writeMethod", "createKey", "deleteKey"} = {}
    BY <1>2 DEF Operations, CallsOf, Writing, Resetting, Mailing, Inviting, Code, Counted
  <2>2. IF op \in Resetting THEN CallsOf(op) = {"deleteKeys", "resetTwoFactor"}
        ELSE CallsOf(op) \cap {"deleteKeys", "resetTwoFactor"} = {}
    BY <1>2 DEF Operations, CallsOf, Writing, Resetting, Mailing, Inviting, Code, Counted
  <2>3. /\ "createRow" \in CallsOf(op) => op \in Creating
        /\ "deleteRow" \in CallsOf(op) => op = "delete"
    BY <1>2 DEF Operations, CallsOf, Writing, Creating, Resetting, Mailing, Inviting, Code,
       Counted
  <2>4. op # "setTwoFactorMethod"
    BY <1>2 DEF Writing
  <2> QED
    BY <1>2, <2>1, <2>2, <2>3, <2>4
<1> QED
  BY <1>1, <1>2

LEMMA NoFault ==
    ASSUME IInv, Sequential
    PROVE  ~Fault
  BY DEF Fault, Sequential, IInv, TypeOK

\* The call that tells which method to write.
LEMMA ChoosesMethod ==
    ASSUME IInv, NEW r \in Requests, Moves(r), ~Idle(r)',
           Head(req[r].todo) \in {"pickMethod", "readKeys"},
           NEW s, s = Snap(r), NEW held, held = KeysOf(User(r)), NEW f, f = req[r]
    PROVE  /\ UNCHANGED database
           /\ IF Head(f.todo) = "pickMethod" THEN req'[r].method = AutoMethod(s, held)
              ELSE IF f.op = "setTwoFactorMethod" THEN Selectable(req'[r].method, s, held)
              ELSE req'[r].method = f.method
<1>1. f \in Frame /\ ~CallFails(r)
  BY MovesOpen, OpenFrame, FailsIdle DEF CallFails, OnceFrame
<1>2. PickMethod(r) \/ ReadKeys(r)
  BY <1>1 DEF Moves, At, KeyCall, CheckYubikey, Registered,
     NotRegistered, FindKey, CreateKey, OwnsKey, DeleteKey, DeleteKeys, CheckCode,
     OtherCall, StoreChallenge, GetChallenge, Credential, UpdateCounter, RemoveChallenge,
     SendMail, NeedsVerification, NeedsSetup, GiveTemporary,
     RowCall, ReadRow, SaveSecret, SetVerified, WriteMethod, WriteDevices,
     RemoveDevice, ResetTwoFactor, CreateRow, DeleteRow, SaveToken, SetPassword
<1>3. UNCHANGED database
  BY <1>2 DEF PickMethod, ReadKeys, Look
<1>4. ASSUME NEW m \in Methods, Proceed(r, [f EXCEPT !.method = m])
      PROVE  req'[r].method = m
  <2> PICK g : g = [f EXCEPT !.method = m]
    OBVIOUS
  <2>1. g \in Frame /\ g.method = m
    BY <1>1 DEF Frame
  <2>2. req'[r] = [g EXCEPT !.todo = Tail(g.todo)]
    BY <1>4, <2>1, Proceeds
  <2> QED
    BY <2>1, <2>2 DEF Frame
<1>5. CASE PickMethod(r)
  <2>1. AutoMethod(s, held) \in Methods
    BY DEF AutoMethod, Methods
  <2>2. Proceed(r, [f EXCEPT !.method = AutoMethod(s, held)]) /\ Head(f.todo) = "pickMethod"
    BY <1>5 DEF PickMethod, At
  <2> QED
    BY <1>3, <1>4, <2>1, <2>2
<1>6. CASE ReadKeys(r)
  <2>1. Head(f.todo) = "readKeys" /\ ~Refuse(r)
    BY <1>6, FailsIdle DEF ReadKeys, At
  <2>2. PICK m \in Methods :
          /\ IF f.op = "setTwoFactorMethod" THEN Selectable(m, s, held) ELSE m = f.method
          /\ Proceed(r, [f EXCEPT !.method = m])
    BY <1>6, <2>1 DEF ReadKeys
  <2>3. req'[r].method = m
    BY <1>4, <2>2
  <2> QED
    BY <1>3, <2>1, <2>2, <2>3
<1> QED
  BY <1>2, <1>5, <1>6

\* A handler that has changed the keys comes to write the method.
LEMMA Continues ==
    ASSUME IInv, Courses, Sequential, NEW r \in Requests, Goes(r), MethodOK(req[r]),
           req[r].op \in Writing \cup Resetting, Repairs(req[r])
    PROVE  /\ ~CallFails(r)
           /\ \/ Head(req[r].todo) \in {"writeMethod", "resetTwoFactor"}
              \/ ~Idle(r)' /\ Repairs(req'[r])
<1> DEFINE f == req[r]
           s == f.todo
<1>1. /\ ~Idle(r) /\ Moves(r) /\ s \in Seq(Calls) \ {<<>>} /\ Tail(s) \in Seq(Calls)
      /\ f.op \in Operations /\ s \in Seq(CallsOf(f.op)) /\ ~Fault
  BY OpenFrame, NoFault DEF Goes, Courses, OnCourse, Course
<1>2. Exists(User(r))
  <2>1. f.op \notin Creating
    BY DEF Writing, Resetting, Creating
  <2> QED
    BY <2>1 DEF MethodOK, User
<1>3. CASE s = <<"resetTwoFactor">>
  <2>1. Head(s) = "resetTwoFactor"
    BY <1>3
  <2>2. ~CallFails(r)
    BY <1>1, <1>2, <2>1 DEF CallFails, Violates, Exhausted, At, NeedsRow
  <2> QED
    BY <2>1, <2>2
<1>4. CASE Has(s, {"writeMethod"}) /\ ~Has(s, Checks \cup Effects)
  <2>1. Head(s) \in CallsOf(f.op) /\ Head(s) \notin Checks \cup Effects
    <3> HIDE DEF f, s
    <3> QED
      BY <1>1, <1>4, HasTail
  <2>2. f.op \in Writing
    <3>1. CASE f.op \in Writing
      BY <3>1
    <3>2. CASE f.op \in Resetting
      <4>1. CallsOf(f.op) \cap {"writeMethod"} = {}
        BY <1>1, <3>2, WritingCalls
      <4> HIDE DEF f, s
      <4> QED
        BY <1>1, <1>4, <4>1, HasNone
    <3> QED
      BY <3>1, <3>2
  <2>3. Head(s) \in {"setVerified", "readRow", "pickMethod", "writeMethod", "removeChallenge"}
    BY <1>1, <2>1, <2>2, WritingCalls
  <2>4. ~CallFails(r)
    BY <1>1, <1>2, <2>3 DEF CallFails, Violates, Exhausted, At, NeedsRow, Synchronous, Sequential
  <2>5. CASE Head(s) # "writeMethod"
    <3>1. Has(Tail(s), {"writeMethod"}) /\ ~Has(Tail(s), Checks \cup Effects)
      <4> HIDE DEF f, s
      <4> QED
        BY <1>1, <1>4, <2>5, HasTail
    <3>2. Tail(s) # <<>>
      <4> HIDE DEF f, s
      <4> QED
        BY <3>1 DEF Has
    <3>3. ~Caught(r) \/ ~Idle(r)'
      <4>1. ASSUME Caught(r), Idle(r)' PROVE FALSE
        <5>1. ReadRow(r) \/ SetVerified(r) \/ PickMethod(r) \/ RemoveChallenge(r)
          BY <1>1, <2>3, <2>4, <2>5 DEF Moves, At, KeyCall, CheckYubikey, Registered,
             ReadKeys, NotRegistered, FindKey, CreateKey, OwnsKey, DeleteKey, DeleteKeys,
             CheckCode, OtherCall, StoreChallenge, GetChallenge, Credential, UpdateCounter,
             SendMail, NeedsVerification, NeedsSetup, GiveTemporary,
             RowCall, SaveSecret, WriteMethod, WriteDevices,
             RemoveDevice, ResetTwoFactor, CreateRow, DeleteRow, SaveToken, SetPassword
        <5>2. PICK g \in Frame : Proceed(r, g) /\ g.todo = s
          <6>1. f \in Frame /\ row[User(r)] \in Row
            BY <1>1, <1>2, OpenFrame DEF OnceFrame, IInv, TypeOK, Exists
          <6>2. /\ [f EXCEPT !.snap = row[User(r)]] \in Frame
                /\ [f EXCEPT !.snap = row[User(r)]].todo = s
            BY <6>1 DEF Frame
          <6>3. /\ [f EXCEPT !.method = AutoMethod(Snap(r), KeysOf(User(r)))] \in Frame
                /\ [f EXCEPT !.method = AutoMethod(Snap(r), KeysOf(User(r)))].todo = s
            BY <6>1 DEF Frame, AutoMethod, Methods
          <6> QED
            BY <1>1, <5>1, <6>1, <6>2, <6>3 DEF ReadRow, SetVerified, Write, Update, Answered,
               PickMethod, RemoveChallenge
        <5>3. req'[r] = [g EXCEPT !.todo = Tail(s)] /\ [g EXCEPT !.todo = Tail(s)] \in Frame
          <6> PICK rest \in Seq(Calls) : rest = Tail(s)
            BY <1>1
          <6>1. rest # <<>> /\ Then(r, g, rest)
            BY <3>2, <5>2 DEF Proceed
          <6>2. req'[r] = [g EXCEPT !.todo = rest] /\ [g EXCEPT !.todo = rest] \in Frame
            BY <6>1 DEF Then, IInv, TypeOK, Frame
          <6> QED
            BY <6>2
        <5> QED
          BY <4>1, <5>3, NoneAssumption DEF Idle
      <4> QED
        BY <4>1
    <3>4. ~Idle(r)'
      <4>1. Head(s) \notin Checks \cup {"needsVerification", "needsSetup"}
        BY <2>1, <2>3
      <4> QED
        BY <1>1, <3>2, <3>3, <4>1, EndsCaught
    <3>5. req'[r].todo = Tail(s)
      BY <2>1, <2>3, <3>4 DEF Goes, Follows, Checks, Code
    <3> QED
      BY <2>4, <3>1, <3>4, <3>5 DEF Repairs
  <2> QED
    BY <2>4, <2>5
<1> QED
  BY <1>3, <1>4 DEF Repairs

\* What a handler that changes keys, or resets them, leaves to do.
LEMMA ChangesKeys ==
    ASSUME IInv, Courses, Sequential, NEW r \in Requests, Goes(r), ~CallFails(r),
           Head(req[r].todo) \in {"createKey", "deleteKey", "deleteKeys"}
    PROVE  /\ ~Idle(r)' /\ Repairs(req'[r]) /\ req[r].op \in Writing \cup Resetting
           /\ req'[r].op = req[r].op
           /\ IF Head(req[r].todo) = "deleteKeys" THEN DeleteKeys(r)
              ELSE CreateKey(r) \/ DeleteKey(r)
<1> DEFINE f == req[r]
           s == f.todo
<1>1. /\ ~Idle(r) /\ Moves(r) /\ s \in Seq(Calls) \ {<<>>} /\ Tail(s) \in Seq(Calls)
      /\ f.op \in Operations /\ Head(s) \in CallsOf(f.op) /\ ~Fault /\ Course(f.op, s)
      /\ f \in Frame
  BY OpenFrame, NoFault DEF Goes, Courses, OnCourse, Course, OnceFrame
<1>2. /\ CreateKey(r) \/ DeleteKey(r) \/ DeleteKeys(r)
      /\ Proceed(r, f)
      /\ IF Head(s) = "deleteKeys" THEN DeleteKeys(r) ELSE CreateKey(r) \/ DeleteKey(r)
  <2>1. /\ CreateKey(r) \/ DeleteKey(r) \/ DeleteKeys(r)
        /\ IF Head(s) = "deleteKeys" THEN DeleteKeys(r) ELSE CreateKey(r) \/ DeleteKey(r)
    BY <1>1 DEF Moves, At, KeyCall, CheckYubikey, Registered,
       ReadKeys, PickMethod, NotRegistered, FindKey, CreateKey, OwnsKey, DeleteKey, DeleteKeys,
       CheckCode, OtherCall, StoreChallenge, GetChallenge, Credential, UpdateCounter,
       RemoveChallenge, SendMail, NeedsVerification, NeedsSetup, GiveTemporary,
       RowCall, ReadRow, SaveSecret, SetVerified, WriteMethod, WriteDevices,
       RemoveDevice, ResetTwoFactor, CreateRow, DeleteRow, SaveToken, SetPassword
  <2> QED
    BY <1>1, <2>1 DEF CreateKey, DeleteKey, DeleteKeys, Delete, Answered
<1>3. f.op \in Writing \cup Resetting
  BY <1>1, WritingCalls
<1>4. CASE Head(s) = "deleteKeys"
  <2>1. f.op \in Resetting
    BY <1>1, <1>4, WritingCalls
  <2>2. s = <<"deleteKeys", "resetTwoFactor">>
    <3>1. s \in {<<"deleteKeys", "resetTwoFactor">>, <<"resetTwoFactor">>}
      BY <1>1, <2>1 DEF Course, Fixed
    <3>2. Head(<<"resetTwoFactor">>) = "resetTwoFactor"
      OBVIOUS
    <3> HIDE DEF f, s
    <3> QED
      BY <1>4, <3>1, <3>2
  <2>3. Tail(s) = <<"resetTwoFactor">> /\ Tail(s) # <<>>
    <3>1. Tail(<<"deleteKeys", "resetTwoFactor">>) = <<"resetTwoFactor">>
          /\ <<"resetTwoFactor">> # <<>>
      OBVIOUS
    <3> HIDE DEF f, s
    <3> QED
      BY <2>2, <3>1
  <2>4. req'[r] = [f EXCEPT !.todo = Tail(s)]
    BY <1>1, <1>2, <2>3 DEF Proceed, Then, IInv, TypeOK
  <2>5. req'[r].todo = Tail(s) /\ req'[r].op = f.op
    BY <1>1, <2>4 DEF Frame
  <2>6. ~Idle(r)'
    <3>1. [f EXCEPT !.todo = Tail(s)] \in Frame
      <4> PICK rest \in Seq(Calls) : rest = Tail(s)
        BY <1>1
      <4>1. [f EXCEPT !.todo = rest] \in Frame
        BY <1>1, <2>3 DEF Frame
      <4> QED
        BY <4>1
    <3> QED
      BY <2>4, <3>1, NoneAssumption DEF Idle
  <2> QED
    BY <1>2, <1>3, <2>3, <2>5, <2>6 DEF Repairs
<1>5. CASE Head(s) \in {"createKey", "deleteKey"}
  <2>1. Has(Tail(s), {"writeMethod"}) /\ ~Has(Tail(s), Checks \cup Effects)
    <3>1. /\ Bars(s, Effects, Checks \cup Effects)
          /\ Leads(s, {"createKey", "deleteKey"}, {"pickMethod"})
          /\ Leads(s, {"pickMethod"}, {"writeMethod"})
          /\ Head(s) \in Effects
      BY <1>1, <1>5 DEF Course, Ordered, Effects
    <3> HIDE DEF f, s
    <3>2. Has(Tail(s), {"pickMethod"}) /\ Leads(Tail(s), {"pickMethod"}, {"writeMethod"})
      BY <1>1, <1>5, <3>1, LeadsTail
    <3>3. Has(Tail(s), {"writeMethod"})
      BY <3>2 DEF Has, Leads
    <3> QED
      BY <1>1, <3>1, <3>3, BarsTail
  <2>2. Tail(s) # <<>>
    <3> HIDE DEF f, s
    <3> QED
      BY <2>1 DEF Has
  <2>3. req'[r] = [f EXCEPT !.todo = Tail(s)]
    BY <1>1, <1>2, <2>2 DEF Proceed, Then, IInv, TypeOK
  <2>4. req'[r].todo = Tail(s) /\ req'[r].op = f.op
    BY <1>1, <2>3 DEF Frame
  <2>5. ~Idle(r)'
    <3>1. [f EXCEPT !.todo = Tail(s)] \in Frame
      <4> PICK rest \in Seq(Calls) : rest = Tail(s)
        BY <1>1
      <4>1. [f EXCEPT !.todo = rest] \in Frame
        BY <1>1, <2>2 DEF Frame
      <4> QED
        BY <4>1
    <3> QED
      BY <2>3, <3>1, NoneAssumption DEF Idle
  <2> QED
    BY <1>2, <1>3, <2>1, <2>4, <2>5 DEF Repairs
<1> QED
  BY <1>1, <1>4, <1>5

\* The keys belong to users that exist.
LEMMA GoesOwners ==
    ASSUME IInv, NEW r \in Requests, Goes(r),
           \A k \in Keys : keys[k] # NoUser => Exists(keys[k])
    PROVE  \A k \in Keys : keys'[k] # NoUser => row'[keys'[k]] \notin {Missing, Deleted}
<1>1. ~Idle(r) /\ Moves(r) /\ User(r) \in Users
  BY OpenFrame DEF Goes
<1> PICK u \in Users : u = User(r)
  BY <1>1
<1>2. keys \in [Keys -> Users \cup {NoUser}]
  BY DEF IInv, TypeOK
<1>3. CASE DeleteRow(r)
  <2>1. /\ \A k \in Keys : keys'[k] # NoUser => keys'[k] = keys[k] /\ keys[k] # u
        /\ \A v \in Users : v # u => row'[v] = row[v]
    BY <1>1, <1>2, <1>3, RowSteps DEF DeleteRow
  <2> SUFFICES ASSUME NEW k \in Keys, keys'[k] # NoUser
               PROVE  row'[keys'[k]] \notin {Missing, Deleted}
    OBVIOUS
  <2> PICK v \in Users : v = keys[k] /\ v # u /\ v = keys'[k]
    BY <1>2, <2>1
  <2>2. Exists(v) /\ row'[v] = row[v]
    BY <2>1
  <2> QED
    BY <2>2 DEF Exists
<1>4. CASE ~DeleteRow(r)
  <2>1. \A v \in Users : Exists(v) => Exists(v)'
    <3>1. /\ \A v \in Users : v # u => row'[v] = row[v]
          /\ \/ row' = row
             \/ row[u] = Missing
             \/ Exists(u)'
      BY <1>1, <1>4, RowSteps
    <3> QED
      BY <3>1 DEF Exists
  <2>2. \A k \in Keys : keys'[k] # NoUser => Exists(keys'[k])
    BY <1>1, <1>2, KeySteps
  <2>3. \A k \in Keys : keys'[k] # NoUser => keys'[k] \in Users
    BY <1>1, <1>2, KeySteps
  <2>4. ASSUME NEW k \in Keys, keys'[k] # NoUser
        PROVE  row'[keys'[k]] \notin {Missing, Deleted}
    <3> PICK v \in Users : v = keys'[k]
      BY <2>3, <2>4
    <3>1. Exists(v)'
      BY <2>1, <2>2, <2>4
    <3> QED
      BY <3>1 DEF Exists
  <2> QED
    BY <2>4
<1> QED
  BY <1>3, <1>4

\* A method that fits is not made unfit by a new secret, or by what leaves secret,
\* method and keys alone.
LEMMA FitsKept ==
    ASSUME NEW s, NEW t, NEW held, NEW m, Fits(m, s, held),
           t.secret = s.secret \/ t.secret # 0
    PROVE  Fits(m, t, held)
  BY DEF Fits

\* Every user has a method that fits, or a handler that will write one.
LEMMA GoesFits ==
    ASSUME IInv, Courses, MethodsInv, Sequential, NEW r \in Requests, Goes(r),
           NEW v \in Users, Exists(v)'
    PROVE  \/ Fits(row'[v].method, row'[v], KeysOf(v)')
           \/ /\ ~Idle(r)' /\ User(r)' = v /\ req'[r].op \in Writing \cup Resetting
              /\ Repairs(req'[r])
<1> DEFINE f == req[r]
           s == f.todo
<1>1. /\ ~Idle(r) /\ Moves(r) /\ s \in Seq(Calls) \ {<<>>} /\ Tail(s) \in Seq(Calls)
      /\ f.op \in Operations /\ Head(s) \in CallsOf(f.op) /\ ~Fault /\ Course(f.op, s)
      /\ MethodOK(f) /\ Alone /\ User(r) \in Users
      /\ \A k \in Keys : keys[k] # NoUser => Exists(keys[k])
  BY OpenFrame, NoFault DEF Goes, Courses, OnCourse, Course, MethodsInv
<1> PICK u \in Users : u = User(r)
  BY <1>1
<1>2. \A w \in Users : Exists(w) =>
        \/ Fits(row[w].method, row[w], KeysOf(w))
        \/ w = u /\ f.op \in Writing \cup Resetting /\ Repairs(f)
  BY <1>1 DEF MethodsInv, Alone
<1>3. /\ \A w \in Users : w # u => row'[w] = row[w]
      /\ \/ row' = row /\ (CallFails(r) \/ ~RowCall(r) \/ ReadRow(r))
         \/ /\ Head(s) = "createRow" /\ row[u] = Missing
            /\ row'[u] = NewRow(f.op = "create")
         \/ DeleteRow(r) /\ row'[u] = Deleted
         \/ /\ RowCall(r) /\ Head(s) \in RowWrites
            /\ Exists(u) /\ Exists(u)'
            /\ Rewrites(Head(s), f, row[u], row'[u])
  BY <1>1, RowSteps DEF CreateRow, At
<1>4. ~Idle(r)' => User(r)' = u /\ req'[r].op = f.op
  BY DEF Goes, Follows, User
<1>5. CASE v # u
  <2>1. KeysOf(v)' = KeysOf(v)
    <3>1. \A k \in Keys : keys'[k] = v <=> keys[k] = v
      <4>1. v # NoUser
        BY NoneAssumption
      <4> QED
        BY <1>1, <1>5, <4>1, KeySteps
    <3> QED
      BY <3>1 DEF KeysOf
  <2>2. row'[v] = row[v] /\ Exists(v)
    BY <1>3, <1>5 DEF Exists
  <2> QED
    BY <1>2, <1>5, <2>1, <2>2
<1>6. CASE v = u /\ Head(s) \in {"createKey", "deleteKey", "deleteKeys"} /\ ~CallFails(r)
  BY <1>4, <1>6, ChangesKeys
<1>7. CASE v = u /\ DeleteRow(r)
  <2>1. row'[u] = Deleted
    BY <1>7 DEF DeleteRow, IInv, TypeOK
  <2> QED
    BY <1>7, <2>1 DEF Exists
<1>8. ASSUME v = u, ~DeleteRow(r),
             Head(s) \notin {"createKey", "deleteKey", "deleteKeys"} \/ CallFails(r)
      PROVE  KeysOf(u)' = KeysOf(u)
  <2>1. (~CreateKey(r) /\ ~DeleteKey(r) /\ ~DeleteKeys(r)) \/ UNCHANGED keys
    BY <1>8 DEF CreateKey, DeleteKey, DeleteKeys, At, CallFails, database
  <2>2. UNCHANGED keys
    BY <1>1, <1>8, <2>1, KeySteps
  <2> QED
    BY <2>2 DEF KeysOf
<1>9. CASE /\ v = u /\ ~DeleteRow(r)
           /\ Head(s) \notin {"createKey", "deleteKey", "deleteKeys"} \/ CallFails(r)
  <2>1. KeysOf(u)' = KeysOf(u)
    BY <1>8, <1>9
  <2>2. CASE row'[u] = NewRow(f.op = "create") /\ row[u] = Missing
    <3>1. KeysOf(u) = {}
      BY <1>1, <2>2, NoneAssumption DEF KeysOf, Exists
    <3> QED
      BY <1>9, <2>1, <2>2, <3>1 DEF Fits, NewRow
  <2>3. ASSUME f.op \in Writing \cup Resetting, Repairs(f)
        PROVE  /\ ~CallFails(r)
               /\ \/ WriteMethod(r) \/ ResetTwoFactor(r)
                  \/ ~Idle(r)' /\ Repairs(req'[r])
    <3>1. /\ ~CallFails(r)
          /\ \/ Head(s) \in {"writeMethod", "resetTwoFactor"}
             \/ ~Idle(r)' /\ Repairs(req'[r])
      BY <1>1, <2>3, Continues
    <3>2. Head(s) \in {"writeMethod", "resetTwoFactor"} =>
            WriteMethod(r) \/ ResetTwoFactor(r)
      BY <1>1, <3>1 DEF Moves, At, KeyCall, CheckYubikey, Registered,
         ReadKeys, PickMethod, NotRegistered, FindKey, CreateKey, OwnsKey, DeleteKey,
         DeleteKeys, CheckCode, OtherCall, StoreChallenge, GetChallenge, Credential,
         UpdateCounter, RemoveChallenge, SendMail, NeedsVerification, NeedsSetup,
         GiveTemporary, RowCall, ReadRow, SaveSecret, SetVerified, WriteDevices,
         RemoveDevice, CreateRow, DeleteRow, SaveToken, SetPassword
    <3> QED
      BY <3>1, <3>2
  <2>4. CASE row' = row /\ (CallFails(r) \/ ~RowCall(r) \/ ReadRow(r))
    <3>1. Exists(u)
      BY <1>9, <2>4 DEF Exists
    <3>2. CASE Fits(row[u].method, row[u], KeysOf(u))
      BY <1>9, <2>1, <2>4, <3>2
    <3>3. CASE f.op \in Writing \cup Resetting /\ Repairs(f)
      <4>1. CallFails(r) \/ ~(WriteMethod(r) \/ ResetTwoFactor(r))
        BY <2>4 DEF RowCall, WriteMethod, ResetTwoFactor, ReadRow, At
      <4> QED
        BY <1>4, <1>9, <2>3, <3>3, <4>1
    <3> QED
      BY <1>2, <3>1, <3>2, <3>3
  <2>5. CASE Exists(u) /\ Rewrites(Head(s), f, row[u], row'[u])
    <3>1. CASE Head(s) = "resetTwoFactor"
      <4>1. f.op \in Resetting
        BY <1>1, <3>1, WritingCalls
      <4>2. s = <<"resetTwoFactor">>
        <5>1. s \in {<<"deleteKeys", "resetTwoFactor">>, <<"resetTwoFactor">>}
          BY <1>1, <4>1 DEF Course, Fixed
        <5>2. Head(<<"deleteKeys", "resetTwoFactor">>) = "deleteKeys"
          OBVIOUS
        <5> HIDE DEF f, s
        <5> QED
          BY <3>1, <5>1, <5>2
      <4>3. KeysOf(u) = {}
        BY <1>1, <4>2 DEF MethodOK, User
      <4> QED
        BY <1>9, <2>1, <2>5, <3>1, <4>3 DEF Rewrites, Fits
    <3>2. CASE Head(s) = "writeMethod"
      <4>1. f.op \in Writing
        BY <1>1, <3>2, WritingCalls
      <4>2. Has(s, {"writeMethod"}) /\ ~Has(s, {Choice(f.op)})
        <5>1. /\ Bars(s, {"writeMethod"}, {"readKeys", "pickMethod"})
              /\ {Choice(f.op)} \subseteq {"readKeys", "pickMethod"}
          BY <1>1 DEF Course, Ordered, Choice
        <5> HIDE DEF f, s
        <5>2. ~Has(Tail(s), {"readKeys", "pickMethod"})
          BY <1>1, <3>2, <5>1, BarsTail
        <5>3. ~Has(s, {"readKeys", "pickMethod"})
          BY <1>1, <3>2, <5>2, HasTail
        <5> QED
          BY <1>1, <3>2, <5>1, <5>3, HasTail, HasMore
      <4>3. Fits(f.method, row[u], KeysOf(u))
        BY <1>1, <4>1, <4>2 DEF MethodOK, User
      <4>4. row'[u].method = f.method /\ row'[u].secret = row[u].secret
        BY <2>5, <3>2 DEF Rewrites
      <4> QED
        BY <1>9, <2>1, <4>3, <4>4, FitsKept
    <3>3. CASE Head(s) \notin {"resetTwoFactor", "writeMethod"}
      <4>1. /\ row'[u].method = row[u].method
            /\ row'[u].secret = row[u].secret \/ row'[u].secret # 0
        BY <2>5, <3>3 DEF Rewrites
      <4>2. ~WriteMethod(r) /\ ~ResetTwoFactor(r)
        BY <3>3 DEF WriteMethod, ResetTwoFactor, At
      <4> QED
        BY <1>2, <1>4, <1>9, <2>1, <2>3, <2>5, <4>1, <4>2, FitsKept
    <3> QED
      BY <3>1, <3>2, <3>3
  <2> QED
    BY <1>3, <1>9, <2>2, <2>4, <2>5
<1> QED
  BY <1>5, <1>6, <1>7, <1>9

LEMMA GoesMethod ==
    ASSUME IInv, Courses, MethodsInv, Sequential, NEW r \in Requests, Goes(r), ~Idle(r)'
    PROVE  MethodOK(req[r])'
<1> DEFINE f == req[r]
           s == f.todo
<1> PICK g : g = req'[r]
  OBVIOUS
<1>1. /\ ~Idle(r) /\ Moves(r) /\ s \in Seq(Calls) \ {<<>>} /\ Tail(s) \in Seq(Calls)
      /\ f.op \in Operations /\ s \in Seq(CallsOf(f.op)) /\ Head(s) \in CallsOf(f.op)
      /\ Course(f.op, s) /\ MethodOK(f) /\ User(r) \in Users /\ ~CallFails(r)
  BY OpenFrame, FailsIdle DEF Goes, Courses, OnCourse, Course, MethodsInv, CallFails
<1> PICK u \in Users : u = User(r)
  BY <1>1
<1>2. Follows(f, g) /\ g.op = f.op /\ g.user = u /\ g.todo \in Seq(Calls) \ {<<>>}
  BY <1>1, FollowsParts DEF Goes
<1>3. \/ row' = row
      \/ Head(s) = "createRow"
      \/ Head(s) = "deleteRow"
      \/ Exists(u)' /\ Rewrites(Head(s), f, row[u], row'[u])
  BY <1>1, RowSteps DEF CreateRow, DeleteRow, At
<1>4. Head(s) # "deleteRow"
  <2>1. ASSUME Head(s) = "deleteRow" PROVE FALSE
    <3>1. f.op = "delete"
      BY <1>1, <2>1, WritingCalls
    <3>2. s = <<"deleteRow">>
      BY <1>1, <3>1 DEF Course, Fixed
    <3>3. Tail(s) = <<>>
      <4>1. Tail(<<"deleteRow">>) = <<>>
        OBVIOUS
      <4> HIDE DEF f, s
      <4> QED
        BY <3>2, <4>1
    <3> QED
      BY <1>2, <2>1, <3>3 DEF Follows
  <2> QED
    BY <2>1
<1>5. g.op \notin Creating => Exists(u)'
  <2> SUFFICES ASSUME f.op \notin Creating PROVE Exists(u)'
    BY <1>2
  <2>1. Exists(u) /\ Head(s) # "createRow"
    BY <1>1, WritingCalls DEF MethodOK, User
  <2> QED
    BY <1>3, <1>4, <2>1 DEF Exists
<1>6. ASSUME f.op \in Writing
      PROVE  /\ row'[u].secret = row[u].secret
             /\ g.snap.secret = row[u].secret
             /\ g.todo = Tail(s)
  <2>1. Head(s) \notin {"saveSecret", "resetTwoFactor", "createRow", "checkCode",
                        "needsVerification", "needsSetup"}
    BY <1>1, <1>6, WritingCalls DEF Checks, Effects, Code, Resetting, Creating
  <2>2. row'[u].secret = row[u].secret
    BY <1>3, <1>4, <2>1 DEF Rewrites
  <2>3. g.snap.secret = row[u].secret
    <3>1. CASE Head(s) = "readRow"
      BY <1>1, <3>1, ReadSnap DEF At
    <3>2. CASE Head(s) # "readRow"
      BY <1>1, <1>2, <1>6, <3>2 DEF Follows, MethodOK, User
    <3> QED
      BY <3>1, <3>2
  <2> QED
    BY <1>2, <2>1, <2>2, <2>3 DEF Follows
<1>7. ASSUME f.op \in Writing, Has(g.todo, {"writeMethod"}), ~Has(g.todo, {Choice(f.op)})
      PROVE  Fits(g.method, row'[u], KeysOf(u)')
  <2>1. Has(s, {"writeMethod"})
    BY <1>1, <1>6, <1>7, HasTail
  <2>2. Head(s) \notin {"createKey", "deleteKey"}
    <3>1. ASSUME Head(s) \in {"createKey", "deleteKey"} PROVE FALSE
      <4>1. Has(Tail(s), {"pickMethod"})
        <5>1. Leads(s, {"createKey", "deleteKey"}, {"pickMethod"})
          BY <1>1 DEF Course, Ordered
        <5> HIDE DEF f, s
        <5> QED
          BY <1>1, <3>1, <5>1, LeadsTail
      <4>2. f.op # "setTwoFactorMethod"
        BY <1>1, <3>1, WritingCalls
      <4> QED
        BY <1>6, <1>7, <4>1, <4>2 DEF Choice
    <3> QED
      BY <3>1
  <2>3. UNCHANGED keys
    <3>1. Head(s) \notin {"deleteKeys", "deleteRow"}
      BY <1>1, <1>4, <1>7, WritingCalls DEF Writing, Resetting
    <3> QED
      BY <1>1, <2>2, <3>1, KeySteps DEF CreateKey, DeleteKey, DeleteKeys, DeleteRow, At
  <2>4. KeysOf(u)' = KeysOf(u)
    BY <2>3 DEF KeysOf
  <2>5. row'[u].secret = row[u].secret /\ f.snap.secret = row[u].secret
    BY <1>1, <1>6, <1>7 DEF MethodOK, User
  <2>6. CASE Head(s) = Choice(f.op)
    <3> PICK h : h = KeysOf(u)
      OBVIOUS
    <3>1. IF Head(s) = "pickMethod" THEN g.method = AutoMethod(f.snap, h)
          ELSE IF f.op = "setTwoFactorMethod" THEN Selectable(g.method, f.snap, h)
          ELSE g.method = f.method
      BY <1>1, <2>6, ChoosesMethod DEF Choice, Snap
    <3>2. \/ g.method = AutoMethod(f.snap, h)
          \/ Selectable(g.method, f.snap, h)
      BY <2>6, <3>1 DEF Choice
    <3>3. Fits(g.method, f.snap, h)
      BY <3>2 DEF Fits, AutoMethod, Selectable
    <3> QED
      BY <2>4, <2>5, <3>3, FitsKept
  <2>7. CASE Head(s) # Choice(f.op)
    <3>1. ~Has(s, {Choice(f.op)})
      BY <1>1, <1>6, <1>7, <2>7, HasTail
    <3>2. Fits(f.method, row[u], KeysOf(u))
      BY <1>1, <1>7, <2>1, <3>1 DEF MethodOK, User
    <3>3. g.method = f.method
      <4>1. CASE Head(s) \in {"pickMethod", "readKeys"}
        <5>1. Head(s) = "readKeys" /\ f.op # "setTwoFactorMethod"
          <6>1. Head(s) # "pickMethod"
            <7>1. ASSUME Head(s) = "pickMethod" PROVE FALSE
              <8>1. f.op = "setTwoFactorMethod"
                BY <2>7, <7>1 DEF Choice
              <8>2. "pickMethod" \notin CallsOf(f.op)
                BY <8>1 DEF CallsOf, Resetting, Mailing, Inviting
              <8> QED
                BY <1>1, <7>1, <8>2
            <7> QED
              BY <7>1
          <6> QED
            BY <2>7, <4>1, <6>1 DEF Choice
        <5> QED
          BY <1>1, <4>1, <5>1, ChoosesMethod
      <4>2. CASE Head(s) \notin {"pickMethod", "readKeys"}
        BY <1>2, <4>2 DEF Follows
      <4> QED
        BY <4>1, <4>2
    <3> QED
      BY <2>4, <2>5, <3>2, <3>3, FitsKept
  <2> QED
    BY <2>6, <2>7
<1>8. ASSUME g.todo = <<"resetTwoFactor">> PROVE KeysOf(u)' = {}
  <2>1. Head(g.todo) = "resetTwoFactor" /\ g.todo \in Seq(CallsOf(f.op))
    <3>1. Head(<<"resetTwoFactor">>) = "resetTwoFactor"
      OBVIOUS
    <3>2. OnCourse(g)
      BY <1>1, <1>2, FollowsCourse DEF Courses
    <3> QED
      BY <1>2, <1>8, <3>1, <3>2 DEF OnCourse, Course
  <2>2. "resetTwoFactor" \in CallsOf(f.op)
    BY <1>2, <2>1
  <2>3. f.op \in Resetting
    BY <1>1, <2>2, WritingCalls
  <2>4. Head(s) = "deleteKeys"
    <3>1. s \in {<<"deleteKeys", "resetTwoFactor">>, <<"resetTwoFactor">>}
          /\ g.todo = Tail(s)
      <4>1. Head(s) \in {"deleteKeys", "resetTwoFactor"}
        BY <1>1, <2>3, WritingCalls
      <4> QED
        BY <1>1, <1>2, <2>3, <4>1 DEF Course, Fixed, Follows
    <3>2. /\ Head(<<"deleteKeys", "resetTwoFactor">>) = "deleteKeys"
          /\ Tail(<<"resetTwoFactor">>) = <<>>
      OBVIOUS
    <3> HIDE DEF f, s
    <3> QED
      BY <1>2, <3>1, <3>2
  <2>5. DeleteKeys(r)
    BY <1>1, <2>4, ChangesKeys
  <2>6. \A k \in Keys : keys'[k] # u
    BY <2>5, NoneAssumption DEF DeleteKeys, Delete, KeysOf, IInv, TypeOK
  <2> QED
    BY <2>6 DEF KeysOf
<1> QED
  BY <1>2, <1>5, <1>6, <1>7, <1>8 DEF MethodOK

LEMMA NextMethods ==
    ASSUME IInv, Courses, MethodsInv, [Next]_vars
    PROVE  MethodsInv'
<1>0. UNCHANGED work
  BY WorkStays
<1> SUFFICES ASSUME Sequential
             PROVE  /\ Alone'
                    /\ \A k \in Keys : keys'[k] # NoUser =>
                         row'[keys'[k]] \notin {Missing, Deleted}
                    /\ \A r \in Requests : ~Idle(r)' => MethodOK(req[r])'
                    /\ \A u \in Users : Exists(u)' =>
                         \/ Fits(row'[u].method, row'[u], KeysOf(u)')
                         \/ \E r \in Requests :
                              /\ ~Idle(r)' /\ User(r)' = u
                              /\ req'[r].op \in Writing \cup Resetting
                              /\ Repairs(req'[r])
  BY <1>0 DEF MethodsInv, Sequential, Exists, Idle, User, KeysOf, Fits, Repairs, Has
<1>1. /\ Alone /\ work.parallel = 1 /\ ~Fault
      /\ \A k \in Keys : keys[k] # NoUser => Exists(keys[k])
      /\ \A r \in Requests : ~Idle(r) => MethodOK(req[r])
      /\ \A u \in Users : Exists(u) =>
           \/ Fits(row[u].method, row[u], KeysOf(u))
           \/ \E r \in Requests : /\ ~Idle(r) /\ User(r) = u
                                  /\ req[r].op \in Writing \cup Resetting
                                  /\ Repairs(req[r])
  BY NoFault DEF MethodsInv, Sequential
<1>2. Alone'
  BY <1>1, AloneSteps
<1>3. CASE \E r \in Requests : Starts(r)
  <2> PICK r \in Requests : Starts(r)
    BY <1>3
  <2>1. UNCHANGED <<row, keys>> /\ \A q \in Requests : Idle(q)
    BY DEF Starts, Look, database
  <2>2. PICK op \in work.ops \cap Operations, u \in Users : \E s, g :
           /\ req' = [req EXCEPT ![r] = Fresh(op, u, s, g)]
           /\ op \notin Creating => Exists(u) /\ s = row[u]
    BY DEF Starts
  <2>3. PICK s, g :
           /\ req' = [req EXCEPT ![r] = Fresh(op, u, s, g)]
           /\ op \notin Creating => Exists(u) /\ s = row[u]
    BY <2>2
  <2> PICK f : f = Fresh(op, u, s, g)
    OBVIOUS
  <2>4. f.op = op /\ f.user = u /\ f.snap = s /\ f.todo = Handler(op, u, s, {}).calls
    BY DEF Fresh
  <2>5. op \in Writing => op \notin Creating
    BY DEF Writing, Creating
  <2>6. f.todo # <<"resetTwoFactor">>
    <3>1. ASSUME f.todo = <<"resetTwoFactor">> PROVE FALSE
      <4>1. Head(f.todo) = "resetTwoFactor"
        BY <3>1
      <4>2. f.todo \in Seq(CallsOf(op)) \ {<<>>}
        BY <2>4, ProgramsIn, HandlerCalls
      <4>3. "resetTwoFactor" \in CallsOf(op)
        <5> PICK p \in Seq(CallsOf(op)) : p = f.todo /\ p # <<>>
          BY <4>2
        <5>1. Head(p) \in CallsOf(op)
          OBVIOUS
        <5> QED
          BY <4>1, <5>1
      <4>4. op \in Resetting
        BY <4>3, WritingCalls
      <4>5. f.todo = <<"deleteKeys", "resetTwoFactor">>
        BY <2>4, <4>4, ProgramsChoose
      <4>6. Head(<<"deleteKeys", "resetTwoFactor">>) = "deleteKeys"
        OBVIOUS
      <4> QED
        BY <4>1, <4>5, <4>6
    <3> QED
      BY <3>1
  <2>7. Has(f.todo, {"writeMethod"}) => Has(f.todo, {Choice(op)})
    BY <2>4, ProgramsChoose
  <2>8. MethodOK(f)'
    BY <2>1, <2>3, <2>4, <2>5, <2>6, <2>7 DEF MethodOK, Exists
  <2>9. \A q \in Requests : ~Idle(q)' => req'[q] = f
    BY <2>1, <2>3 DEF Idle, IInv, TypeOK
  <2>10. \A q \in Requests : ~Idle(q)' => MethodOK(req[q])'
    BY <2>8, <2>9 DEF MethodOK
  <2>11. \A v \in Users : Exists(v)' => Fits(row'[v].method, row'[v], KeysOf(v)')
    BY <1>1, <2>1 DEF Exists, KeysOf
  <2> QED
    BY <1>1, <1>2, <2>1, <2>10, <2>11 DEF Exists
<1>4. CASE \E r \in Requests : Goes(r)
  <2> PICK r \in Requests : Goes(r)
    BY <1>4
  <2>1. \A q \in Requests : q # r => Idle(q)'
    BY DEF Goes
  <2>2. ~Idle(r)' => MethodOK(req[r])'
    BY GoesMethod
  <2>3. \A u \in Users : Exists(u)' =>
          \/ Fits(row'[u].method, row'[u], KeysOf(u)')
          \/ /\ ~Idle(r)' /\ User(r)' = u /\ req'[r].op \in Writing \cup Resetting
             /\ Repairs(req'[r])
    BY GoesFits
  <2> QED
    BY <1>1, <1>2, <2>1, <2>2, <2>3, GoesOwners
<1>5. CASE Expire \/ UNCHANGED vars
  <2>1. UNCHANGED <<row, keys, req>>
    BY <1>5 DEF Expire, vars, database
  <2>2. /\ \A u \in Users : KeysOf(u)' = KeysOf(u) /\ (Exists(u)' <=> Exists(u))
        /\ \A r \in Requests : (Idle(r)' <=> Idle(r)) /\ User(r)' = User(r)
    BY <2>1 DEF KeysOf, Exists, Idle, User
  <2>3. \A r \in Requests : ~Idle(r)' => MethodOK(req[r])'
    BY <1>1, <2>1, <2>2 DEF MethodOK, Exists, KeysOf
  <2> QED
    BY <1>1, <1>2, <2>1, <2>2, <2>3 DEF Exists
<1>6. ~Stop
  BY <1>1 DEF Stop
<1> QED
  BY <1>1, <1>3, <1>4, <1>5, <1>6, AloneSteps

\* Between requests that do not overlap and do not fail, a login never asks for a
\* second factor that cannot be given: whatever changes the keys or the secret is
\* followed, within its handler, by a method that fits them (setTwoFactorMethod,
\* autoUpdateTwoFactorMethod, reset2FA).
THEOREM NobodyLockedOut == Spec => []NotLockedOut
<1>1. Init => MethodsInv
  <2> SUFFICES ASSUME Init PROVE MethodsInv
    OBVIOUS
  <2>1. /\ \A r \in Requests : Idle(r)
        /\ \A u \in Users : Exists(u) => row[u] = NewRow(TRUE)
        /\ \A k \in Keys : keys[k] = NoUser
    BY DEF Init, Exists, Idle
  <2>2. \A u \in Users : Exists(u) => Fits(row[u].method, row[u], KeysOf(u))
    BY <2>1, NoneAssumption DEF Fits, NewRow, KeysOf
  <2> QED
    BY <2>1, <2>2 DEF MethodsInv, Alone
<1>2. IInv /\ MethodsInv => NotLockedOut
  <2> SUFFICES ASSUME IInv, MethodsInv, Sequential, Quiet,
                      NEW u \in Users, Exists(u), NEW s, s = row[u], NEW held,
                      held = KeysOf(u), HasTwoFactor(s, held)
               PROVE  /\ AvailableMethods(s, held) # {}
                      /\ \/ AcceptsTotp(s)
                         \/ WebAuthn(held)
                         \/ AcceptsOtp(s, held) /\ Otp(held)
    BY DEF NotLockedOut
  <2>1. s.method \in Methods /\ Fits(s.method, s, held)
    BY DEF MethodsInv, Quiet, Busy, IInv, TypeOK, Exists, Row
  <2>2. AvailableMethods(s, held) # {}
    <3> DEFINE offered == {m \in {"TOTP", "YUBIKEY"} :
                             IF m = "TOTP" THEN s.secret # 0 ELSE held # {}}
    <3>1. offered # {}
      <4>1. s.secret # 0 => "TOTP" \in offered
        OBVIOUS
      <4>2. held # {} => "YUBIKEY" \in offered
        OBVIOUS
      <4> QED
        BY <4>1, <4>2 DEF HasTwoFactor
    <3>2. AvailableMethods(s, held) \in {offered, offered \cup {"ANY"}}
      BY DEF AvailableMethods
    <3> HIDE DEF offered
    <3> QED
      BY <3>1, <3>2
  <2>3. \/ AcceptsTotp(s)
        \/ WebAuthn(held)
        \/ AcceptsOtp(s, held) /\ Otp(held)
    BY <2>1 DEF AcceptsTotp, AcceptsOtp, WebAuthn, Otp, Fits, Methods, HasTwoFactor
  <2> QED
    BY <2>2, <2>3
<1>3. IInv /\ Courses /\ MethodsInv /\ [Next]_vars => (IInv /\ Courses /\ MethodsInv)'
  BY NextKeeps, NextCourses, NextMethods
<1> QED
  BY <1>1, <1>2, <1>3, InitInv, InitCourses, PTL DEF Spec

=============================================================================
