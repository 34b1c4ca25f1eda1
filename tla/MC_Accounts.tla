----------------------------- MODULE MC_Accounts -----------------------------
(***************************************************************************)
(* Small instances of Accounts for TLC.                                    *)
(***************************************************************************)
EXTENDS Accounts, TLC

CONSTANTS ada, bo, Bo, otp, fido, laptop, c1, c2

MCLower == [u \in {ada, bo, Bo} |-> IF u = Bo THEN bo ELSE u]

TotpOps == {"setup2FA", "verify2FACode", "verifySession2FA", "disable2FA",
            "adminReset2FAForUser", "confirm2FAReset", "login"}
KeyOps == {"setupYubikey", "verifyYubikey", "removeYubikey", "setTwoFactorMethod",
           "startWebAuthnRegistration", "completeWebAuthnRegistration",
           "startWebAuthnAuthentication", "completeWebAuthnAuthentication",
           "startWebAuthnReAuthentication", "completeWebAuthnReAuthentication"}
PasswordOps == {"changePassword", "changePasswordWith2FA",
                "changePasswordWithWebAuthn", "startPasswordChangeWebAuthn",
                "forgotPassword", "resetPassword", "adminResetPassword"}
ResetOps == {"forgotPassword", "resetPassword", "adminResetPassword"}
UserOps == {"create", "createByInvitation", "importUsers", "delete"}
DeviceOps == {"verify2FACode", "removeAuthorizedDevice", "setup2FA"}

Load(ops, enforce, handlers, failures, drawable) ==
    [ops |-> ops, existing |-> {ada}, enforce2FA |-> enforce,
     parallel |-> handlers, faults |-> failures, challenges |-> drawable]

\* Handlers are interchangeable.
Symmetry == Permutations(Requests)

\* Second factors one after the other; codes and resets alone, where a second
\* factor is enforced; what is done with WebAuthn, with a failure; users; tokens,
\* with handlers that overlap and fail; what races on the devices of a row.
MCWorkloads ==
    {Load(TotpOps \cup KeyOps, FALSE, 1, 0, {c1}),
     Load(TotpOps \cup {"removeAuthorizedDevice"}, TRUE, 1, 1, {}),
     Load((PasswordOps \cup KeyOps \cup {"login"}) \ {"setupYubikey", "verifyYubikey"},
          FALSE, 1, 1, {c1, c2}),
     Load(PasswordOps \cup {"setup2FA", "verify2FACode"}, FALSE, 1, 1, {}),
     Load(UserOps \cup ResetOps, FALSE, 1, 1, {}),
     Load(ResetOps \cup {"createByInvitation"}, FALSE, 2, 1, {}),
     Load(DeviceOps \cup {"resetPassword", "forgotPassword"}, FALSE, 2, 0, {}),
     Load({"delete", "importUsers", "forgotPassword", "resetPassword", "removeAuthorizedDevice"},
          FALSE, 2, 0, {})}
=============================================================================
