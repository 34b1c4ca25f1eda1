------------------------------ MODULE UserStore ------------------------------
(***************************************************************************)
(* What the account handlers share: the rows of users and of their         *)
(* authenticators in Postgres, the challenges in the memory of the         *)
(* process, and the frames of the handlers that are running.               *)
(*                                                                         *)
(* A handler is a sequence of calls, each of which reads or writes the     *)
(* database or the challenges once; between two calls other handlers run.  *)
(* The calls a handler still has to make are the `todo` of its frame, so   *)
(* that a call that several handlers make is one action.  What happens in  *)
(* the process without a call belongs to the call before it.               *)
(*                                                                         *)
(* The times after which tokens, challenges and cookies are refused: a     *)
(* token that is too old is refused and stays in its row, as if it was not *)
(* presented; challenges and cookies disappear (Expire).                   *)
(***************************************************************************)
EXTENDS Naturals, Sequences, FiniteSets

CONSTANTS
    Users,          \* e-mail addresses, one account ever for each
    Lower,          \* [Users -> Users]: toLowerCase
    NoUser,
    Keys,           \* authenticators, by their publicId
    WebAuthnKeys,   \* those registered by WebAuthn; the others are OTP YubiKeys
    NoKey,
    Devices,        \* fingerprints of browsers
    Requests,       \* handlers that may run at the same time
    NoRequest,
    Challenges,     \* ids of challenges, drawn at random and never again
    Unused, Gone,   \* not drawn yet, and no longer stored
    NoGrant,
    Missing,        \* no row with this e-mail yet
    Deleted,        \* no such row any more
    MaxSecrets, MaxTokens,
    Workloads       \* which handlers are called, by whom and how

Secrets == 1..MaxSecrets
Tokens == 1..MaxTokens
Grants == Tokens \cup Challenges     \* what a client presents to be let through
Methods == {"TOTP", "YUBIKEY", "ANY"}

\* A user.  A secret or token of 0 is null.  `devices` is the list of verified
\* devices, as the number of its entries with each fingerprint.
Row == [password : BOOLEAN, secret : 0..MaxSecrets, verified : BOOLEAN,
        method : Methods, devices : [Devices -> Nat],
        resetToken : 0..MaxTokens, tfToken : 0..MaxTokens]

NoDevices == [d \in Devices |-> 0]
NewRow(password) ==
    [password |-> password, secret |-> 0, verified |-> FALSE, method |-> "TOTP",
     devices |-> NoDevices, resetToken |-> 0, tfToken |-> 0]

Calls ==
    {"readRow", "readKeys", "createRow", "deleteRow",                 \* users
     "saveSecret", "setVerified", "writeMethod", "writeDevices", "removeDevice",
     "resetTwoFactor", "saveToken", "setPassword",
     "createKey", "findKey", "notRegistered", "registered",           \* keys
     "ownsKey", "deleteKey", "deleteKeys", "credential", "updateCounter",
     "checkCode", "checkYubikey", "pickMethod",
     "storeChallenge", "getChallenge", "removeChallenge",             \* challenges
     "needsVerification", "needsSetup", "giveTemporary",              \* login
     "sendMail"}

Operations ==
    {"setup2FA", "verify2FACode", "verifySession2FA", "disable2FA",
     "adminReset2FAForUser", "confirm2FAReset", "setupYubikey", "verifyYubikey",
     "removeYubikey", "setTwoFactorMethod", "startWebAuthnRegistration",
     "completeWebAuthnRegistration", "startWebAuthnAuthentication",
     "completeWebAuthnAuthentication", "startWebAuthnReAuthentication",
     "completeWebAuthnReAuthentication", "changePassword", "changePasswordWith2FA",
     "changePasswordWithWebAuthn", "startPasswordChangeWebAuthn", "forgotPassword",
     "resetPassword", "adminResetPassword", "create", "createByInvitation",
     "importUsers", "delete", "removeAuthorizedDevice", "login"}

\* A running handler: the row as it last read it, and what it found, drew or was
\* given on its way.
Frame == [op : Operations, user : Users, todo : Seq(Calls) \ {<<>>},
          snap : Row \cup {Missing}, method : Methods, key : Keys \cup {NoKey},
          grant : Grants \cup {NoGrant}, token : 0..MaxTokens]

\* `existing` users have an account from the start; at most `parallel` handlers
\* run at the same time; at most `faults` calls fail; `challenges` may be drawn.
Workload == [ops : SUBSET Operations, existing : SUBSET Users, enforce2FA : BOOLEAN,
             parallel : Nat, faults : Nat, challenges : SUBSET Challenges]

ASSUME UsersAssumption ==
    /\ Lower \in [Users -> Users]
    /\ WebAuthnKeys \subseteq Keys
    /\ MaxSecrets \in Nat /\ MaxTokens \in Nat
    /\ Workloads \subseteq Workload

\* A token and a challenge are presented to different handlers.
ASSUME GrantsAssumption == Tokens \cap Challenges = {}

ASSUME NoneAssumption ==
    /\ Missing \notin Row /\ Deleted \notin Row /\ NoRequest \notin Frame
    /\ NoKey \notin Keys /\ NoGrant \notin Grants
    /\ NoUser \notin Users /\ Unused \notin Users /\ Gone \notin Users /\ Unused # Gone

VARIABLES
    row,         \* the user table
    keys,        \* the yubikeyInfo table: the owner of each registered key
    challenge,   \* challengeStore: for whom each challenge is stored
    temporary,   \* users with a temporary token
    req,
    secrets, tokens,   \* how many were drawn
    faults,
    work,        \* the workload of this behaviour
    \* Kept for the properties only:
    mailed,      \* tokens whose e-mail was sent
    troubled,    \* users for whom a request that mails a token has failed
    confirmed,   \* secrets of which a code was accepted
    spent        \* how often each token or challenge let a request through

database == <<row, keys>>
drawn == <<secrets, tokens>>
record == <<mailed, troubled, confirmed, spent>>
vars == <<database, challenge, temporary, req, drawn, faults, work, record>>

Exists(u) == row[u] \notin {Missing, Deleted}
KeysOf(u) == {k \in Keys : keys[k] = u}

----------------------------------------------------------------------------
\* Frames.

Idle(r) == req[r] = NoRequest
At(r, call) == ~Idle(r) /\ Head(req[r].todo) = call
User(r) == req[r].user
Snap(r) == req[r].snap

Busy == {r \in Requests : ~Idle(r)}

\* The handler ends, or has the rest of its calls to make.
Then(r, frame, rest) ==
    req' = [req EXCEPT ![r] = IF rest = <<>> THEN NoRequest ELSE [frame EXCEPT !.todo = rest]]

Proceed(r, frame) == Then(r, frame, Tail(frame.todo))
Refuse(r) == req' = [req EXCEPT ![r] = NoRequest]

Ahead(r, call) == ~Idle(r) /\ \E i \in DOMAIN req[r].todo : req[r].todo[i] = call
Mails(r) == Ahead(r, "sendMail")

\* Within verifyWebAuthnRegistration or verifyWebAuthnAuthentication, whose catch
\* blocks remove the challenge.
Verifying(r) == Ahead(r, "removeChallenge") /\ ~Ahead(r, "getChallenge")

Forget(c) == challenge' = [challenge EXCEPT ![c] = Gone]

\* The catch block of a handler, or of one user of an import.
Caught(r) ==
    /\ Refuse(r)
    /\ troubled' = IF Mails(r) THEN troubled \cup {User(r)} ELSE troubled
    /\ IF Verifying(r) THEN Forget(req[r].grant) ELSE UNCHANGED challenge

Fault == faults < work.faults /\ faults' = faults + 1

\* A call took effect; its caller gets the answer or an error.
Answered(r, frame) ==
    \/ Proceed(r, frame) /\ UNCHANGED <<challenge, troubled, faults>>
    \/ Fault /\ Caught(r)

\* userRepository.update: the fields given, if there still is such a row.
Update(r, new) ==
    /\ Exists(User(r))
    /\ row' = [row EXCEPT ![User(r)] = new]
    /\ Answered(r, req[r])
    /\ UNCHANGED <<keys, temporary, work, mailed>>

\* A call that changes nothing but the frame.
Look == UNCHANGED <<database, challenge, temporary, drawn, faults, work, record>>

\* Calls on the user that throw when there is no such row.
NeedsRow == {"readRow", "saveSecret", "setVerified", "writeMethod", "writeDevices",
             "removeDevice", "resetTwoFactor", "saveToken", "setPassword", "deleteRow",
             "needsVerification", "needsSetup"}

\* Calls that insert what must not be there, or delete what must.
Violates(r) ==
    \/ \E call \in NeedsRow : At(r, call) /\ ~Exists(User(r))
    \/ At(r, "createRow") /\ row[User(r)] # Missing
    \/ At(r, "createKey") /\ (keys[req[r].key] # NoUser \/ ~Exists(User(r)))
    \/ At(r, "deleteKey") /\ keys[req[r].key] # User(r)

\* The bounds: a call that would draw one more fails.
Exhausted(r) ==
    \/ At(r, "saveSecret") /\ secrets = MaxSecrets
    \/ At(r, "saveToken") /\ tokens = MaxTokens
    \/ At(r, "storeChallenge") /\ \A c \in work.challenges : challenge[c] # Unused

\* Calls on the memory of the process.
Synchronous == {"getChallenge", "removeChallenge", "giveTemporary"}

\* A call fails without effect, or throws.  An audit log written meanwhile refers
\* to the user that is to be deleted.
CallFails(r) ==
    /\ ~Idle(r) /\ Head(req[r].todo) \notin Synchronous
    /\ \/ Fault
       \/ /\ \/ Violates(r) \/ Exhausted(r)
             \/ At(r, "deleteRow") /\ work.parallel > 1
          /\ UNCHANGED faults
    /\ Caught(r)
    /\ UNCHANGED <<database, temporary, drawn, work, mailed, confirmed, spent>>

\* The process ends, for instance on an audit log that fails after the answer:
\* the answer of the catch block throws in turn.
Stop ==
    /\ Fault
    /\ req' = [r \in Requests |-> NoRequest]
    /\ challenge' = [c \in Challenges |-> IF challenge[c] = Unused THEN Unused ELSE Gone]
    /\ troubled' = troubled \cup {User(r) : r \in {x \in Busy : Mails(x)}}
    /\ UNCHANGED <<database, temporary, drawn, work, mailed, confirmed, spent>>

\* getChallenge and the timer drop a challenge after five minutes; so long does a
\* temporary token last.
Expire ==
    /\ \/ \E c \in Challenges :
            challenge[c] \in Users /\ Forget(c) /\ UNCHANGED temporary
       \/ \E u \in temporary : temporary' = temporary \ {u} /\ UNCHANGED challenge
    /\ UNCHANGED <<database, req, drawn, faults, work, record>>
=============================================================================
