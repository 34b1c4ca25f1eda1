------------------------------- MODULE Accounts -------------------------------
(***************************************************************************)
(* The accounts of users: the second factors of TwoFactor together with    *)
(* passwords (password.controller.ts), the administration of users         *)
(* (user.controller.ts) and the login (auth.controller.ts), all on the     *)
(* same rows.                                                              *)
(*                                                                         *)
(* Local accounts of one organization.  A row that already holds what is   *)
(* asked for does not matter to the handlers that read only, or write only *)
(* name, role or nickname: they are left out.  A file that is imported     *)
(* holds one user.  Passwords are right or wrong: a client may always send *)
(* a wrong one, which is refused.                                          *)
(***************************************************************************)
EXTENDS TwoFactor

\* The workload lets one more handler run.
Free(r, op) ==
    /\ Idle(r) /\ op \in work.ops
    /\ Cardinality(Busy) < work.parallel

----------------------------------------------------------------------------
\* password.controller.ts

changePassword(s, held) ==
    [when |-> s.password, admits |-> ~HasTwoFactor(s, held),
     calls |-> <<"readKeys", "setPassword">>]

changePasswordWith2FA(s, held) ==
    [when |-> s.password, admits |-> HasTwoFactor(s, held),
     calls |-> <<"readKeys", "checkCode", "setPassword">>]

changePasswordWithWebAuthn(s, held) ==
    [when |-> s.password, admits |-> WebAuthn(held),
     calls |-> <<"readKeys">> \o verifyWebAuthnAuthentication \o <<"setPassword">>]

startPasswordChangeWebAuthn(s, held) ==
    [when |-> s.password, admits |-> WebAuthn(held),
     calls |-> <<"readKeys">> \o generateWebAuthnAuthenticationOptions]

forgotPassword == Always(<<"saveToken", "sendMail">>)

resetPassword == Always(<<"setPassword">>)

adminResetPassword == Always(<<"saveToken", "sendMail">>)

----------------------------------------------------------------------------
\* user.controller.ts; `update`, the export and the lists change nothing here.

create == Always(<<"createRow">>)

createByInvitation == Always(<<"createRow", "saveToken", "sendMail">>)

MutantImportUsers == Always(<<"createRow", "saveToken">>)

importUsers == Always(<<"createRow", "saveToken", "sendMail">>)

\* The row read first is of no use here; the audit logs deleted next are not
\* modelled.
delete == Always(<<"deleteRow">>)

removeAuthorizedDevice == Always(<<"readRow", "removeDevice">>)

----------------------------------------------------------------------------
\* auth.controller.ts

\* The rest is decided by what is2FAVerificationNeeded and is2FASetupRequired read.
login(s) == [when |-> s.password, admits |-> TRUE,
             calls |-> <<"readRow", "needsVerification", "needsSetup">>]

\* Of the handler `op` of user u that read row s and keys `held`.
Handler(op, u, s, held) ==
    CASE op = "setup2FA" -> setup2FA
      [] op = "verify2FACode" -> verify2FACode(s, held)
      [] op = "verifySession2FA" -> verifySession2FA(u, s, held)
      [] op = "disable2FA" -> disable2FA(s)
      [] op = "adminReset2FAForUser" -> adminReset2FAForUser(s)
      [] op = "confirm2FAReset" -> confirm2FAReset
      [] op = "setupYubikey" -> setupYubikey(held)
      [] op = "verifyYubikey" -> verifyYubikey
      [] op = "removeYubikey" -> removeYubikey
      [] op = "setTwoFactorMethod" -> setTwoFactorMethod
      [] op = "startWebAuthnRegistration" -> startWebAuthnRegistration
      [] op = "completeWebAuthnRegistration" -> completeWebAuthnRegistration
      [] op = "startWebAuthnAuthentication" -> startWebAuthnAuthentication(u, held)
      [] op = "completeWebAuthnAuthentication" -> completeWebAuthnAuthentication(s)
      [] op = "startWebAuthnReAuthentication" -> startWebAuthnReAuthentication(held)
      [] op = "completeWebAuthnReAuthentication" -> completeWebAuthnReAuthentication
      [] op = "changePassword" -> changePassword(s, held)
      [] op = "changePasswordWith2FA" -> changePasswordWith2FA(s, held)
      [] op = "changePasswordWithWebAuthn" -> changePasswordWithWebAuthn(s, held)
      [] op = "startPasswordChangeWebAuthn" -> startPasswordChangeWebAuthn(s, held)
      [] op = "forgotPassword" -> forgotPassword
      [] op = "resetPassword" -> resetPassword
      [] op = "adminResetPassword" -> adminResetPassword
      [] op = "create" -> create
      [] op = "createByInvitation" -> createByInvitation
      [] op = "importUsers" -> importUsers
      [] op = "delete" -> delete
      [] op = "removeAuthorizedDevice" -> removeAuthorizedDevice
      [] op = "login" -> login(s)

----------------------------------------------------------------------------
\* How handlers start.

Run(r, op, u, s, grant) ==
    /\ Free(r, op)
    /\ Handler(op, u, s, {}).when
    /\ req' = [req EXCEPT ![r] =
           [op |-> op, user |-> u, todo |-> Handler(op, u, s, {}).calls, snap |-> s,
            method |-> "TOTP", key |-> NoKey, grant |-> grant, token |-> 0]]
    /\ Look

Creating == {"create", "createByInvitation", "importUsers"}
ByToken == {"resetPassword", "confirm2FAReset"}
ByEmail == {"forgotPassword", "login"}
ByChallenge == {"completeWebAuthnAuthentication"}

\* The user of the request, or the one whose id it gives, is read: by
\* userInfoMiddleware or as the first call.
BeginWithUser(r) ==
    \E op \in Operations \ (Creating \cup ByToken \cup ByEmail \cup ByChallenge), u \in Users :
        Exists(u) /\ Run(r, op, u, row[u], NoGrant)

\* The user is looked up by e-mail, in lower case.
BeginWithEmail(r) ==
    \E op \in ByEmail, e \in Users :
        Exists(Lower[e]) /\ Run(r, op, Lower[e], row[Lower[e]], NoGrant)

\* The user is looked up by the token presented.
TokenOf(op, u) == IF op = "resetPassword" THEN row[u].resetToken ELSE row[u].tfToken

BeginWithToken(r) ==
    \E op \in ByToken, u \in Users :
        /\ Exists(u) /\ TokenOf(op, u) \in mailed \ {0}
        /\ Run(r, op, u, row[u], TokenOf(op, u))

\* The challenge tells whose row to read.
BeginWithChallenge(r) ==
    \E op \in ByChallenge, c \in Challenges :
        /\ challenge[c] \in Users /\ Exists(challenge[c])
        /\ Run(r, op, challenge[c], row[challenge[c]], c)

\* No user with the e-mail in lower case is found; the row gets the e-mail as it
\* was given, except by an import.
BeginCreate(r) ==
    \E op \in Creating, e \in Users :
        /\ ~Exists(Lower[e])
        /\ Run(r, op, IF op = "importUsers" THEN Lower[e] ELSE e, Missing, NoGrant)

----------------------------------------------------------------------------
\* Calls.

\* getUserYubikeys or findWebAuthnCredentialsByUserId, and what the handler
\* decides by it.
ReadKeys(r) ==
    LET held == KeysOf(User(r)) IN
    /\ At(r, "readKeys")
    /\ \/ /\ Handler(req[r].op, User(r), Snap(r), held).admits
          /\ \E m \in Methods :
               /\ IF req[r].op = "setTwoFactorMethod" THEN Selectable(m, Snap(r), held)
                                                      ELSE m = req[r].method
               /\ Proceed(r, [req[r] EXCEPT !.method = m])
       \/ Refuse(r)
    /\ Look

CreateRow(r) ==
    /\ At(r, "createRow") /\ ~Violates(r)
    /\ row' = [row EXCEPT ![User(r)] = NewRow(req[r].op = "create")]
    /\ Answered(r, req[r])
    /\ UNCHANGED <<keys, temporary, drawn, work, mailed, confirmed, spent>>

\* The keys of a user are deleted with the row.
DeleteRow(r) ==
    /\ At(r, "deleteRow") /\ Exists(User(r))
    /\ row' = [row EXCEPT ![User(r)] = Deleted]
    /\ keys' = [k \in Keys |-> IF keys[k] = User(r) THEN NoUser ELSE keys[k]]
    /\ Answered(r, req[r])
    /\ UNCHANGED <<temporary, drawn, work, mailed, confirmed, spent>>

\* A new token: of the reset of the second factor, or of the password, which an
\* administrator's request takes away.
SaveToken(r) ==
    LET t == tokens + 1
        u == User(r)
        new == CASE req[r].op = "adminReset2FAForUser" -> [row[u] EXCEPT !.tfToken = t]
                 [] req[r].op = "adminResetPassword" ->
                      [row[u] EXCEPT !.resetToken = t, !.password = FALSE]
                 [] OTHER -> [row[u] EXCEPT !.resetToken = t]
    IN
    /\ At(r, "saveToken") /\ tokens < MaxTokens /\ Exists(u)
    /\ row' = [row EXCEPT ![u] = new]
    /\ tokens' = t
    /\ Answered(r, [req[r] EXCEPT !.token = t])
    /\ UNCHANGED <<keys, temporary, secrets, work, mailed, confirmed, spent>>

SendMail(r) ==
    /\ At(r, "sendMail")
    /\ mailed' = mailed \cup {req[r].token}
    /\ Answered(r, req[r])
    /\ UNCHANGED <<database, temporary, drawn, work, confirmed, spent>>

\* All but a change without a second factor clear the verified devices.
SetPassword(r) ==
    LET u == User(r)
        byToken == req[r].op = "resetPassword"
    IN
    /\ At(r, "setPassword")
    /\ Update(r, [row[u] EXCEPT !.password = TRUE,
                     !.devices = IF req[r].op = "changePassword" THEN @ ELSE NoDevices,
                     !.resetToken = IF byToken THEN 0 ELSE @])
    /\ spent' = IF byToken THEN [spent EXCEPT ![req[r].grant] = @ + 1] ELSE spent
    /\ UNCHANGED <<drawn, confirmed>>

\* is2FAVerificationNeeded: the device is not in the list read, or its entry is too
\* old.  The answer decides how the login ends.
NeedsVerification(r) ==
    /\ At(r, "needsVerification")
    /\ \E d \in Devices, old \in BOOLEAN :
         LET needed == /\ HasTwoFactor(Snap(r), KeysOf(User(r)))
                       /\ Snap(r).devices[d] = 0 \/ old
         IN  Then(r, req[r], <<"needsSetup">> \o
                     IF needed THEN <<"giveTemporary">> ELSE <<>>)
    /\ Look

\* is2FASetupRequired, which reads the row again.
NeedsSetup(r) ==
    LET s == row[User(r)] IN
    /\ At(r, "needsSetup") /\ Exists(User(r))
    /\ IF work.enforce2FA /\ ~(s.verified /\ s.secret # 0)
         THEN Then(r, req[r], <<"saveSecret", "giveTemporary">>)
         ELSE Proceed(r, req[r])
    /\ Look

GiveTemporary(r) ==
    /\ At(r, "giveTemporary")
    /\ temporary' = temporary \cup {User(r)}
    /\ Proceed(r, req[r])
    /\ UNCHANGED <<database, challenge, drawn, faults, work, record>>

----------------------------------------------------------------------------

Init ==
    /\ work \in Workloads
    /\ row = [u \in Users |-> IF u \in work.existing THEN NewRow(TRUE) ELSE Missing]
    /\ keys = [k \in Keys |-> NoUser]
    /\ challenge = [c \in Challenges |-> Unused]
    /\ temporary = {}
    /\ req = [r \in Requests |-> NoRequest]
    /\ secrets = 0 /\ tokens = 0 /\ faults = 0
    /\ mailed = {} /\ troubled = {} /\ confirmed = {}
    /\ spent = [g \in Grants |-> 0]

Begin(r) ==
    \/ BeginWithUser(r) \/ BeginWithEmail(r) \/ BeginWithToken(r)
    \/ BeginWithChallenge(r) \/ BeginCreate(r)

RowCall(r) ==
    \/ ReadRow(r) \/ SaveSecret(r) \/ SetVerified(r) \/ WriteMethod(r)
    \/ WriteDevices(r) \/ RemoveDevice(r) \/ ResetTwoFactor(r) \/ CreateRow(r)
    \/ DeleteRow(r) \/ SaveToken(r) \/ SetPassword(r)

KeyCall(r) ==
    \/ ReadKeys(r) \/ PickMethod(r) \/ CheckYubikey(r) \/ Registered(r)
    \/ NotRegistered(r) \/ FindKey(r) \/ CreateKey(r) \/ OwnsKey(r)
    \/ DeleteKey(r) \/ DeleteKeys(r) \/ CheckCode(r)

OtherCall(r) ==
    \/ StoreChallenge(r) \/ GetChallenge(r) \/ Credential(r) \/ UpdateCounter(r)
    \/ RemoveChallenge(r) \/ SendMail(r) \/ NeedsVerification(r) \/ NeedsSetup(r)
    \/ GiveTemporary(r)

Next ==
    \/ \E r \in Requests : Begin(r) \/ RowCall(r) \/ KeyCall(r) \/ OtherCall(r) \/ CallFails(r)
    \/ Stop
    \/ Expire

Spec == Init /\ [][Next]_vars

----------------------------------------------------------------------------
\* Properties.

TypeOK ==
    /\ row \in [Users -> Row \cup {Missing, Deleted}]
    /\ keys \in [Keys -> Users \cup {NoUser}]
    /\ challenge \in [Challenges -> Users \cup {Unused, Gone}]
    /\ temporary \subseteq Users
    /\ req \in [Requests -> Frame \cup {NoRequest}]
    /\ secrets \in 0..MaxSecrets /\ tokens \in 0..MaxTokens
    /\ faults \in Nat
    /\ work \in Workloads
    /\ mailed \subseteq 0..MaxTokens /\ troubled \subseteq Users /\ confirmed \subseteq Secrets
    /\ spent \in [Grants -> Nat]

\* The list of verified devices names no device twice, however the handlers that
\* read it and write it back interleave (updateVerifiedDevices,
\* removeAuthorizedDevice and the resets).
OneEntryPerDevice ==
    \A u \in Users : Exists(u) => \A d \in Devices : row[u].devices[d] <= 1

Sequential == work.parallel = 1 /\ work.faults = 0
Quiet == Busy = {}

\* Between requests that do not overlap and do not fail, a login never asks for a
\* second factor that cannot be given: a method is offered, and a code or WebAuthn
\* is accepted by the method in force (setTwoFactorMethod,
\* autoUpdateTwoFactorMethod, verify2FACode, is2FAVerificationNeeded).
NotLockedOut ==
    Sequential /\ Quiet =>
        \A u \in Users : Exists(u) /\ HasTwoFactor(row[u], KeysOf(u)) =>
            /\ AvailableMethods(row[u], KeysOf(u)) # {}
            /\ \/ AcceptsTotp(row[u])
               \/ WebAuthn(KeysOf(u))
               \/ AcceptsOtp(row[u], KeysOf(u)) /\ Otp(KeysOf(u))

\* Every token in a row has been mailed, and every row without a password has such
\* a token, unless a request is about to mail it or one for this user has failed
\* (forgotPassword, adminResetPassword, adminReset2FAForUser, createByInvitation,
\* importUsers).
TokenReachesItsUser ==
    \A u \in Users : Exists(u) /\ u \notin troubled =>
        LET Reaches(t) == t \in mailed \/ \E r \in Requests : Mails(r) /\ req[r].token = t
        IN  /\ row[u].resetToken # 0 => Reaches(row[u].resetToken)
            /\ row[u].tfToken # 0 => Reaches(row[u].tfToken)
            /\ ~row[u].password =>
                 row[u].resetToken # 0 \/ \E r \in Requests : Mails(r) /\ User(r) = u

\* A token or a challenge lets one request through, when requests do not overlap:
\* what fails on the way can be tried again, what is done cannot (resetPassword,
\* confirm2FAReset, verifyWebAuthnAuthentication, verifyWebAuthnRegistration).
OneTimeGrants ==
    work.parallel = 1 => \A g \in Grants : spent[g] <= 1

\* Where no keys are added and requests do not overlap, a secret counts as verified
\* only once a code of it was accepted (generateTwoFactorSetup, verify2FACode,
\* verifySession2FA).
VerifiedMeansConfirmed ==
    work.parallel = 1 /\ work.ops \cap {"setupYubikey", "completeWebAuthnRegistration"} = {} =>
        \A u \in Users : Exists(u) /\ row[u].verified => row[u].secret \in confirmed
=============================================================================
