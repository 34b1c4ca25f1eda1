------------------------------ MODULE TwoFactor ------------------------------
(***************************************************************************)
(* Second factors: controllers/user/helpers/two-factor.helper.ts, whose    *)
(* functions are the calls below, and the handlers of                      *)
(* two-factor.controller.ts and webauthn.controller.ts, which are          *)
(* sequences of these calls.                                               *)
(*                                                                         *)
(* A handler is given as a record: `when` it goes on to its first call,    *)
(* judged by the row that it starts from, whether it goes on after it      *)
(* read which keys the user has (`held`), and its calls.  The requests     *)
(* that it refuses at its start change nothing and are left out.           *)
(*                                                                         *)
(* Codes: a client can compute the code of any secret it was shown, has    *)
(* any authenticator, and sends any code; so a check may always refuse.    *)
(***************************************************************************)
EXTENDS UserStore

WebAuthn(held) == held \cap WebAuthnKeys # {}
Otp(held) == held \ WebAuthnKeys # {}

\* The methods a client is offered.
AvailableMethods(s, held) ==
    LET offered == {m \in {"TOTP", "YUBIKEY"} :
                       IF m = "TOTP" THEN s.secret # 0 ELSE held # {}}
    IN  IF Cardinality(offered) > 1 THEN offered \cup {"ANY"} ELSE offered

\* autoUpdateTwoFactorMethod, after its reads.
AutoMethod(s, held) ==
    CASE s.secret # 0 /\ held # {} -> "ANY"
      [] s.secret = 0 /\ held # {} -> "YUBIKEY"
      [] OTHER -> "TOTP"

\* The user has set up a second factor, which a login then asks for.
HasTwoFactor(s, held) == (s.secret # 0 /\ s.verified) \/ held # {}

\* What verify2FACode accepts: a code of the secret, or one of an OTP YubiKey,
\* which is looked up later.
AcceptsTotp(s) == s.method \in {"TOTP", "ANY"} /\ s.secret # 0
AcceptsOtp(s, held) ==
    /\ s.method \in {"YUBIKEY", "ANY"} /\ ~WebAuthn(held)
    /\ s.method = "ANY" => Otp(held)

----------------------------------------------------------------------------
\* Calls on rows.

Write(r, new) == Update(r, new) /\ UNCHANGED <<drawn, confirmed, spent>>

\* The definitions named Mutant... are faults of the code that the properties of
\* Accounts must detect; no specification uses them.

MutantReadRow(r) ==
    /\ At(r, "readRow")
    /\ Proceed(r, [req[r] EXCEPT !.snap = row[User(r)]])
    /\ Look

ReadRow(r) ==
    /\ At(r, "readRow") /\ Exists(User(r))
    /\ Proceed(r, [req[r] EXCEPT !.snap = row[User(r)]])
    /\ Look

MutantSaveSecret(r) ==
    /\ At(r, "saveSecret") /\ secrets < MaxSecrets
    /\ Update(r, [row[User(r)] EXCEPT !.secret = secrets + 1])
    /\ secrets' = secrets + 1
    /\ UNCHANGED <<tokens, confirmed, spent>>

\* generateTwoFactorSetup
SaveSecret(r) ==
    /\ At(r, "saveSecret") /\ secrets < MaxSecrets
    /\ Update(r, [row[User(r)] EXCEPT !.secret = secrets + 1, !.verified = FALSE])
    /\ secrets' = secrets + 1
    /\ UNCHANGED <<tokens, confirmed, spent>>

SetVerified(r) ==
    /\ At(r, "setVerified")
    /\ Write(r, [row[User(r)] EXCEPT !.verified = TRUE])

WriteMethod(r) ==
    /\ At(r, "writeMethod")
    /\ Write(r, [row[User(r)] EXCEPT !.method = req[r].method])

MutantWriteDevices(r) ==
    /\ At(r, "writeDevices")
    /\ \E d \in Devices :
         Write(r, [row[User(r)] EXCEPT !.devices = [Snap(r).devices EXCEPT ![d] = @ + 1]])

\* updateVerifiedDevices: the list read before, with the entry of the device of
\* this request replaced, or added to it.
WriteDevices(r) ==
    /\ At(r, "writeDevices")
    /\ \E d \in Devices :
         Write(r, [row[User(r)] EXCEPT !.devices =
                      [Snap(r).devices EXCEPT ![d] = IF @ > 0 THEN @ ELSE 1]])

\* removeAuthorizedDevice: the list read before without the entry of an id, which
\* may be in it no longer.
RemoveDevice(r) ==
    /\ At(r, "removeDevice")
    /\ \E gone \in {NoDevices} \cup {[NoDevices EXCEPT ![d] = 1] : d \in Devices} :
         Write(r, [row[User(r)] EXCEPT !.devices =
                      [d \in Devices |-> IF Snap(r).devices[d] > 0
                                           THEN Snap(r).devices[d] - gone[d] ELSE 0]])

\* The update of reset2FA; reset2FAWithToken also takes back the token.
ResetTwoFactor(r) ==
    LET confirmed2FA == req[r].op = "confirm2FAReset" IN
    /\ At(r, "resetTwoFactor")
    /\ Update(r, [row[User(r)] EXCEPT
                     !.secret = 0, !.verified = FALSE, !.method = "TOTP",
                     !.devices = NoDevices,
                     !.tfToken = IF confirmed2FA THEN 0 ELSE @])
    /\ spent' = IF confirmed2FA THEN [spent EXCEPT ![req[r].grant] = @ + 1] ELSE spent
    /\ UNCHANGED <<drawn, confirmed>>

----------------------------------------------------------------------------
\* Calls on keys.

\* A read of the user's keys in autoUpdateTwoFactorMethod.
PickMethod(r) ==
    /\ At(r, "pickMethod")
    /\ Proceed(r, [req[r] EXCEPT !.method = AutoMethod(Snap(r), KeysOf(User(r)))])
    /\ Look

\* verifyYubikeyOTP: Yubico tells which key the code is from.
CheckYubikey(r) ==
    /\ At(r, "checkYubikey")
    /\ \/ \E k \in Keys \ WebAuthnKeys : Proceed(r, [req[r] EXCEPT !.key = k])
       \/ Refuse(r)
    /\ Look

\* isYubikeyRegistered, which must and must not be.  Only the time is noted later.
Registered(r) ==
    /\ At(r, "registered")
    /\ IF keys[req[r].key] = User(r) THEN Proceed(r, req[r]) ELSE Refuse(r)
    /\ Look

NotRegistered(r) ==
    /\ At(r, "notRegistered")
    /\ IF keys[req[r].key] # User(r) THEN Proceed(r, req[r]) ELSE Refuse(r)
    /\ Look

\* findByPublicId, findByCredentialId: not a key of anybody.  addYubikeyToUser
\* throws and verifyWebAuthnRegistration returns; both leave a challenge stored.
FindKey(r) ==
    /\ At(r, "findKey")
    /\ IF keys[req[r].key] = NoUser THEN Proceed(r, req[r]) ELSE Refuse(r)
    /\ Look

CreateKey(r) ==
    /\ At(r, "createKey") /\ ~Violates(r)
    /\ keys' = [keys EXCEPT ![req[r].key] = User(r)]
    /\ Answered(r, req[r])
    /\ spent' = IF req[r].grant = NoGrant THEN spent
                ELSE [spent EXCEPT ![req[r].grant] = @ + 1]
    /\ UNCHANGED <<row, temporary, drawn, work, mailed, confirmed>>

\* isYubikeyOwnedByUser
OwnsKey(r) ==
    /\ At(r, "ownsKey")
    /\ \/ \E k \in KeysOf(User(r)) : Proceed(r, [req[r] EXCEPT !.key = k])
       \/ Refuse(r)
    /\ Look

\* The keys are deleted, as one statement.
Delete(r, gone) ==
    /\ keys' = [k \in Keys |-> IF k \in gone THEN NoUser ELSE keys[k]]
    /\ Answered(r, req[r])
    /\ UNCHANGED <<row, temporary, drawn, work, mailed, confirmed, spent>>

DeleteKey(r) == At(r, "deleteKey") /\ ~Violates(r) /\ Delete(r, {req[r].key})
DeleteKeys(r) == At(r, "deleteKeys") /\ Delete(r, KeysOf(User(r)))

----------------------------------------------------------------------------
\* Checks of a code.

\* verify2FACode and verifyAnyAvailableMethod, up to the lookup of an OTP YubiKey.
\* The user is the row the handler read before, the keys are read now.
CheckCode(r) ==
    /\ At(r, "checkCode")
    /\ \/ /\ AcceptsTotp(Snap(r)) /\ Proceed(r, req[r])
          /\ confirmed' = confirmed \cup {Snap(r).secret}
       \/ /\ AcceptsOtp(Snap(r), KeysOf(User(r)))
          /\ Then(r, req[r], <<"checkYubikey", "registered">> \o Tail(req[r].todo))
          /\ UNCHANGED confirmed
       \/ Refuse(r) /\ UNCHANGED confirmed
    /\ UNCHANGED <<database, challenge, temporary, drawn, faults, work, mailed,
                   troubled, spent>>

----------------------------------------------------------------------------
\* Challenges.

StoreChallenge(r) ==
    /\ At(r, "storeChallenge")
    /\ \E c \in work.challenges :
         challenge[c] = Unused /\ challenge' = [challenge EXCEPT ![c] = User(r)]
    /\ Proceed(r, req[r])
    /\ UNCHANGED <<database, temporary, drawn, faults, work, record>>

\* getChallenge, of this user.  completeWebAuthnAuthentication has got it once
\* already.  A credential to register comes with it.
GetChallenge(r) ==
    /\ At(r, "getChallenge")
    /\ \/ \E c \in Challenges, k \in WebAuthnKeys :
            /\ challenge[c] = User(r) /\ req[r].grant \in {c, NoGrant}
            /\ Proceed(r, [req[r] EXCEPT !.grant = c, !.key = k])
       \/ Refuse(r)
    /\ Look

\* findByUserIdAndCredentialId, then the signature.
Credential(r) ==
    /\ At(r, "credential")
    /\ \/ keys[req[r].key] = User(r) /\ Proceed(r, req[r])
       \/ Refuse(r)
    /\ Look

\* The counter itself is the library's business.
UpdateCounter(r) ==
    /\ At(r, "updateCounter")
    /\ spent' = [spent EXCEPT ![req[r].grant] = @ + 1]
    /\ Answered(r, req[r])
    /\ UNCHANGED <<database, temporary, drawn, work, mailed, confirmed>>

MutantRemoveChallenge(r) ==
    At(r, "removeChallenge") /\ Proceed(r, req[r]) /\ Look

RemoveChallenge(r) ==
    /\ At(r, "removeChallenge")
    /\ Forget(req[r].grant)
    /\ Proceed(r, req[r])
    /\ UNCHANGED <<database, temporary, drawn, faults, work, record>>

----------------------------------------------------------------------------
\* The calls that the handlers have in common.

Always(calls) == [when |-> TRUE, admits |-> TRUE, calls |-> calls]

updateVerifiedDevices == <<"readRow", "writeDevices">>
autoUpdateTwoFactorMethod == <<"readRow", "pickMethod", "writeMethod">>
verifyWebAuthnAuthentication ==
    <<"getChallenge", "credential", "updateCounter", "removeChallenge">>
addYubikeyToUser == <<"findKey", "createKey", "setVerified">>
generateWebAuthnRegistrationOptions == <<"readRow", "storeChallenge">>
verifyWebAuthnRegistration ==
    <<"getChallenge", "findKey", "createKey", "setVerified", "removeChallenge">>
generateWebAuthnAuthenticationOptions == <<"storeChallenge">>

\* twoFactorVerified is set unless it is set in the row read first.
VerifiedOnce(s) == IF s.verified THEN <<>> ELSE <<"setVerified">>

----------------------------------------------------------------------------
\* two-factor.controller.ts

setup2FA == Always(<<"saveSecret">>)

verify2FACode(s, held) ==
    [when |-> TRUE, admits |-> s.secret # 0 \/ held # {},
     calls |-> <<"readKeys", "checkCode", "setVerified">> \o updateVerifiedDevices]

verifySession2FA(u, s, held) ==
    [when |-> u \in temporary, admits |-> s.secret # 0 \/ held # {},
     calls |-> <<"readKeys", "checkCode">> \o VerifiedOnce(s) \o updateVerifiedDevices]

\* The code is checked against the row the handler starts from.
disable2FA(s) ==
    [when |-> s.secret # 0 /\ ~work.enforce2FA, admits |-> TRUE,
     calls |-> <<"deleteKeys", "resetTwoFactor">>]

adminReset2FAForUser(s) ==
    [when |-> s.secret # 0 /\ s.verified, admits |-> TRUE,
     calls |-> <<"saveToken", "sendMail">>]

confirm2FAReset == Always(<<"deleteKeys", "resetTwoFactor">>)

setupYubikey(held) ==
    [when |-> TRUE, admits |-> ~WebAuthn(held),
     calls |-> <<"readKeys", "checkYubikey", "notRegistered">> \o addYubikeyToUser
               \o autoUpdateTwoFactorMethod]

verifyYubikey == Always(<<"checkYubikey", "registered">> \o updateVerifiedDevices)

MutantRemoveYubikey == Always(<<"ownsKey", "deleteKey">>)

removeYubikey == Always(<<"ownsKey", "deleteKey">> \o autoUpdateTwoFactorMethod)

\* The method asked for.
Selectable(m, s, held) ==
    /\ m = "TOTP" => s.secret # 0
    /\ m = "YUBIKEY" => held # {} /\ ~(Otp(held) /\ WebAuthn(held))
    /\ m = "ANY" => s.secret # 0 \/ held # {}

setTwoFactorMethod == Always(<<"readKeys", "writeMethod">>)

----------------------------------------------------------------------------
\* webauthn.controller.ts

startWebAuthnRegistration == Always(generateWebAuthnRegistrationOptions)

completeWebAuthnRegistration ==
    Always(verifyWebAuthnRegistration \o autoUpdateTwoFactorMethod)

startWebAuthnAuthentication(u, held) ==
    [when |-> u \in temporary, admits |-> WebAuthn(held),
     calls |-> <<"readKeys">> \o generateWebAuthnAuthenticationOptions]

\* It starts with the challenge, which names the user, and then reads the row.
completeWebAuthnAuthentication(s) ==
    Always(verifyWebAuthnAuthentication \o VerifiedOnce(s) \o updateVerifiedDevices)

startWebAuthnReAuthentication(held) ==
    [when |-> TRUE, admits |-> WebAuthn(held),
     calls |-> <<"readKeys">> \o generateWebAuthnAuthenticationOptions]

completeWebAuthnReAuthentication == Always(verifyWebAuthnAuthentication)
=============================================================================
