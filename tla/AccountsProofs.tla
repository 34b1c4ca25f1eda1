---------------------------- MODULE AccountsProofs ----------------------------
(***************************************************************************)
(* Proofs about Accounts, for any users, keys, requests and workloads.     *)
(*                                                                         *)
(* Every call reads or writes through a few operators (Proceed, Refuse,    *)
(* Answered, Update, Look); the lemmas say once what each of them keeps,   *)
(* and the proof of an action cites them.                                  *)
(***************************************************************************)
EXTENDS Accounts, TLAPS

\* The programs of the handlers are sequences of calls, and none is empty.
LEMMA JoinCalls ==
    ASSUME NEW s \in Seq(Calls) \ {<<>>}, NEW t \in Seq(Calls)
    PROVE  s \o t \in Seq(Calls) \ {<<>>}
  OBVIOUS

LEMMA SharedCalls ==
    /\ updateVerifiedDevices \in Seq(Calls) \ {<<>>}
    /\ autoUpdateTwoFactorMethod \in Seq(Calls) \ {<<>>}
    /\ verifyWebAuthnAuthentication \in Seq(Calls) \ {<<>>}
    /\ verifyWebAuthnRegistration \in Seq(Calls) \ {<<>>}
    /\ generateWebAuthnRegistrationOptions \in Seq(Calls) \ {<<>>}
    /\ <<"readKeys">> \o generateWebAuthnAuthenticationOptions \in Seq(Calls) \ {<<>>}
    /\ addYubikeyToUser \in Seq(Calls) \ {<<>>}
    /\ \A s : VerifiedOnce(s) \in Seq(Calls)
<1>1. ASSUME NEW s PROVE VerifiedOnce(s) \in Seq(Calls)
  <2>1. <<"setVerified">> \in Seq(Calls) /\ <<>> \in Seq(Calls)
    BY DEF Calls
  <2> QED
    BY <2>1 DEF VerifiedOnce
<1>2. <<"readKeys">> \o generateWebAuthnAuthenticationOptions \in Seq(Calls) \ {<<>>}
  <2>1. /\ <<"readKeys">> \in Seq(Calls) \ {<<>>}
        /\ generateWebAuthnAuthenticationOptions \in Seq(Calls)
    BY DEF generateWebAuthnAuthenticationOptions, Calls
  <2> QED
    BY <2>1, JoinCalls
<1> QED
  BY <1>1, <1>2 DEF updateVerifiedDevices, autoUpdateTwoFactorMethod, Calls,
      verifyWebAuthnAuthentication, verifyWebAuthnRegistration, addYubikeyToUser,
      generateWebAuthnRegistrationOptions

LEMMA HandlerCalls ==
    ASSUME NEW op \in Operations, NEW u, NEW s, NEW held
    PROVE  Handler(op, u, s, held).calls \in Seq(Calls) \ {<<>>}
<1>1. <<"readKeys", "checkCode", "setVerified">> \o updateVerifiedDevices
        \in Seq(Calls) \ {<<>>}
  BY SharedCalls, JoinCalls DEF Calls
<1>2. <<"readKeys", "checkCode">> \o VerifiedOnce(s) \o updateVerifiedDevices
        \in Seq(Calls) \ {<<>>}
  <2>1. <<"readKeys", "checkCode">> \in Seq(Calls) \ {<<>>}
    BY DEF Calls
  <2>2. <<"readKeys", "checkCode">> \o VerifiedOnce(s) \in Seq(Calls) \ {<<>>}
    BY <2>1, SharedCalls, JoinCalls
  <2> QED
    BY <2>2, SharedCalls, JoinCalls
<1>3. <<"readKeys", "checkYubikey", "notRegistered">> \o addYubikeyToUser
        \o autoUpdateTwoFactorMethod \in Seq(Calls) \ {<<>>}
  <2>1. <<"readKeys", "checkYubikey", "notRegistered">> \in Seq(Calls) \ {<<>>}
    BY DEF Calls
  <2>2. <<"readKeys", "checkYubikey", "notRegistered">> \o addYubikeyToUser
          \in Seq(Calls) \ {<<>>}
    BY <2>1, SharedCalls, JoinCalls
  <2> QED
    BY <2>2, SharedCalls, JoinCalls
<1>4. <<"checkYubikey", "registered">> \o updateVerifiedDevices \in Seq(Calls) \ {<<>>}
  BY SharedCalls, JoinCalls DEF Calls
<1>5. <<"ownsKey", "deleteKey">> \o autoUpdateTwoFactorMethod \in Seq(Calls) \ {<<>>}
  BY SharedCalls, JoinCalls DEF Calls
<1>6. verifyWebAuthnRegistration \o autoUpdateTwoFactorMethod \in Seq(Calls) \ {<<>>}
  BY SharedCalls, JoinCalls
<1>7. verifyWebAuthnAuthentication \o VerifiedOnce(s) \o updateVerifiedDevices
        \in Seq(Calls) \ {<<>>}
  <2>1. verifyWebAuthnAuthentication \o VerifiedOnce(s) \in Seq(Calls) \ {<<>>}
    BY SharedCalls, JoinCalls
  <2> QED
    BY <2>1, SharedCalls, JoinCalls
<1>8. <<"readKeys">> \o verifyWebAuthnAuthentication \o <<"setPassword">>
        \in Seq(Calls) \ {<<>>}
  <2>1. <<"readKeys">> \in Seq(Calls) \ {<<>>} /\ <<"setPassword">> \in Seq(Calls)
    BY DEF Calls
  <2>2. <<"readKeys">> \o verifyWebAuthnAuthentication \in Seq(Calls) \ {<<>>}
    BY <2>1, SharedCalls, JoinCalls
  <2> QED
    BY <2>1, <2>2, JoinCalls
<1>9. CASE op \in {"setup2FA", "verify2FACode", "verifySession2FA", "disable2FA",
                  "adminReset2FAForUser", "confirm2FAReset", "setupYubikey",
                  "verifyYubikey", "removeYubikey", "setTwoFactorMethod"}
  BY <1>1, <1>2, <1>3, <1>4, <1>5, <1>9
  DEF Handler, Always, Calls, setup2FA, verify2FACode, verifySession2FA, disable2FA,
      adminReset2FAForUser, confirm2FAReset, setupYubikey, verifyYubikey, removeYubikey,
      setTwoFactorMethod
<1>10. CASE op \in {"startWebAuthnRegistration", "completeWebAuthnRegistration",
                   "startWebAuthnAuthentication", "completeWebAuthnAuthentication",
                   "startWebAuthnReAuthentication", "completeWebAuthnReAuthentication"}
  BY <1>6, <1>7, <1>10, SharedCalls
  DEF Handler, Always, Calls, startWebAuthnRegistration, completeWebAuthnRegistration,
      startWebAuthnAuthentication, completeWebAuthnAuthentication,
      startWebAuthnReAuthentication, completeWebAuthnReAuthentication
<1>11. CASE op \in {"changePassword", "changePasswordWith2FA",
                   "changePasswordWithWebAuthn", "startPasswordChangeWebAuthn",
                   "forgotPassword", "resetPassword", "adminResetPassword"}
  BY <1>8, <1>11, SharedCalls
  DEF Handler, Always, Calls, changePassword, changePasswordWith2FA,
      changePasswordWithWebAuthn, startPasswordChangeWebAuthn, forgotPassword,
      resetPassword, adminResetPassword
<1>12. CASE op \in {"create", "createByInvitation", "importUsers", "delete",
                   "removeAuthorizedDevice", "login"}
  BY <1>12
  DEF Handler, Always, Calls, create, createByInvitation, importUsers, delete,
      removeAuthorizedDevice, login
<1> QED
  BY <1>9, <1>10, <1>11, <1>12 DEF Operations

----------------------------------------------------------------------------
(***************************************************************************)
(* The inductive invariant: the list of verified devices has one entry for *)
(* each at most, in the rows and in what the handlers have read of them;   *)
(* and a handler that has read no row has only the calls of an account's   *)
(* creation to make.                                                       *)
(***************************************************************************)
NewCalls == {"createRow", "saveToken", "sendMail"}

Once(s) == \A d \in Devices : s.devices[d] <= 1
OnceRow == {s \in Row : Once(s)}
OnceFrame ==
    {f \in Frame :
        /\ f.snap # Missing => Once(f.snap)
        /\ f.snap = Missing => f.todo \in Seq(NewCalls)}
Rows == [Users -> OnceRow \cup {Missing, Deleted}]
Frames == [Requests -> OnceFrame \cup {NoRequest}]

IInv == TypeOK /\ row \in Rows /\ req \in Frames

\* What a frame that is open holds.
LEMMA OpenFrame ==
    ASSUME IInv, NEW r \in Requests, ~Idle(r)
    PROVE  /\ req[r] \in OnceFrame
           /\ req[r].op \in Operations
           /\ User(r) \in Users
           /\ req[r].todo \in Seq(Calls) \ {<<>>}
           /\ Tail(req[r].todo) \in Seq(Calls)
           /\ req[r].snap \in OnceRow \cup {Missing}
           /\ req[r].method \in Methods
           /\ req[r].key \in Keys \cup {NoKey}
           /\ req[r].token \in 0..MaxTokens
           /\ req[r].grant \in Grants \cup {NoGrant}
<1>1. req[r] \in OnceFrame
  BY DEF IInv, Frames, Idle
<1>2. req[r] \in Frame
  BY <1>1 DEF OnceFrame
<1>3. req[r].todo \in Seq(Calls) \ {<<>>}
  BY <1>2 DEF Frame
<1>4. Tail(req[r].todo) \in Seq(Calls)
  BY <1>3
<1>5. req[r].snap \in OnceRow \cup {Missing}
  <2>1. req[r].snap \in Row \cup {Missing}
    BY <1>2 DEF Frame
  <2>2. req[r].snap # Missing => Once(req[r].snap)
    BY <1>1 DEF OnceFrame
  <2> QED
    BY <2>1, <2>2 DEF OnceRow
<1>6. /\ req[r].op \in Operations /\ req[r].user \in Users
      /\ req[r].method \in Methods /\ req[r].key \in Keys \cup {NoKey}
      /\ req[r].token \in 0..MaxTokens /\ req[r].grant \in Grants \cup {NoGrant}
  BY <1>2 DEF Frame
<1> QED
  BY <1>1, <1>3, <1>4, <1>5, <1>6 DEF User

\* A call that only a handler makes that has read a row.
LEMMA OpenSnap ==
    ASSUME IInv, NEW r \in Requests, NEW call, call \notin NewCalls, At(r, call)
    PROVE  /\ ~Idle(r)
           /\ Snap(r) \in OnceRow
<1>1. ~Idle(r) /\ req[r].todo # <<>>
  BY OpenFrame DEF At
<1>2. req[r].todo \notin Seq(NewCalls)
  <2> SUFFICES ASSUME req[r].todo \in Seq(NewCalls) PROVE FALSE
    OBVIOUS
  <2>1. Head(req[r].todo) \in NewCalls
    BY <1>1
  <2> QED
    BY <2>1 DEF At
<1> QED
  BY <1>1, <1>2, OpenFrame DEF OnceFrame, Snap

LEMMA ThenFrames ==
    ASSUME IInv, NEW r \in Requests, NEW frame \in OnceFrame, NEW rest \in Seq(Calls),
           frame.snap = Missing => rest \in Seq(NewCalls), Then(r, frame, rest)
    PROVE  req' \in Frames
<1>1. rest # <<>> => [frame EXCEPT !.todo = rest] \in OnceFrame
  BY DEF OnceFrame, Frame
<1> QED
  BY <1>1 DEF Then, IInv, Frames

LEMMA ProceedFrames ==
    ASSUME IInv, NEW r \in Requests, NEW frame \in OnceFrame, Proceed(r, frame)
    PROVE  req' \in Frames
<1>1. frame.todo \in Seq(Calls) \ {<<>>}
  BY DEF OnceFrame, Frame
<1>2. Tail(frame.todo) \in Seq(Calls)
  BY <1>1
<1>3. frame.snap = Missing => Tail(frame.todo) \in Seq(NewCalls)
  BY <1>1 DEF OnceFrame
<1> QED
  BY <1>2, <1>3, ThenFrames DEF Proceed

LEMMA RefuseFrames ==
    ASSUME IInv, NEW r \in Requests, Refuse(r)
    PROVE  req' \in Frames
  BY DEF Refuse, IInv, Frames

\* The frames stay frames in the sense of TypeOK.
LEMMA FramesType ==
    ASSUME NEW f \in Frames
    PROVE  f \in [Requests -> Frame \cup {NoRequest}]
  BY DEF Frames, OnceFrame

LEMMA RowsType ==
    ASSUME NEW f \in Rows
    PROVE  f \in [Users -> Row \cup {Missing, Deleted}]
  BY DEF Rows, OnceRow

LEMMA LookKeeps ==
    ASSUME IInv, Look, req' \in Frames
    PROVE  IInv'
  BY FramesType DEF Look, IInv, TypeOK, database, drawn, record

LEMMA CaughtKeeps ==
    ASSUME IInv, NEW r \in Requests, ~Idle(r), Caught(r)
    PROVE  /\ req' \in Frames
           /\ challenge' \in [Challenges -> Users \cup {Unused, Gone}]
           /\ troubled' \subseteq Users
<1>1. User(r) \in Users
  BY OpenFrame
<1>2. req' \in Frames
  BY RefuseFrames DEF Caught
<1>3. challenge' \in [Challenges -> Users \cup {Unused, Gone}]
  BY DEF Caught, Forget, IInv, TypeOK
<1>4. troubled' \subseteq Users
  BY <1>1 DEF Caught, IInv, TypeOK
<1> QED
  BY <1>2, <1>3, <1>4

LEMMA AnsweredKeeps ==
    ASSUME IInv, NEW r \in Requests, ~Idle(r), NEW frame \in OnceFrame, Answered(r, frame)
    PROVE  /\ req' \in Frames
           /\ challenge' \in [Challenges -> Users \cup {Unused, Gone}]
           /\ troubled' \subseteq Users
           /\ faults' \in Nat
<1>1. CASE Proceed(r, frame) /\ UNCHANGED <<challenge, troubled, faults>>
  BY <1>1, ProceedFrames DEF IInv, TypeOK
<1>2. CASE Fault /\ Caught(r)
  BY <1>2, CaughtKeeps DEF Fault, IInv, TypeOK
<1> QED
  BY <1>1, <1>2 DEF Answered

\* An update of the user's row that leaves one entry for each device.
LEMMA UpdateKeeps ==
    ASSUME IInv, NEW r \in Requests, ~Idle(r), NEW new \in OnceRow, Update(r, new),
           secrets' \in 0..MaxSecrets, UNCHANGED tokens, spent' \in [Grants -> Nat],
           UNCHANGED confirmed
    PROVE  IInv'
<1>1. User(r) \in Users /\ req[r] \in OnceFrame
  BY OpenFrame
<1>2. row' \in Rows
  BY <1>1 DEF Update, IInv, Rows
<1>3. /\ req' \in Frames
      /\ challenge' \in [Challenges -> Users \cup {Unused, Gone}]
      /\ troubled' \subseteq Users
      /\ faults' \in Nat
  BY <1>1, AnsweredKeeps DEF Update
<1> QED
  BY <1>2, <1>3, FramesType, RowsType DEF Update, IInv, TypeOK

----------------------------------------------------------------------------
\* The initial states, and one lemma for each kind of call.

LEMMA InitInv == Init => IInv
<1> SUFFICES ASSUME Init PROVE IInv
  OBVIOUS
<1>1. \A b \in BOOLEAN : NewRow(b) \in OnceRow
  BY UsersAssumption DEF NewRow, OnceRow, Once, Row, NoDevices, Methods
<1>2. row \in Rows
  BY <1>1 DEF Init, Rows
<1>3. req \in Frames
  BY DEF Init, Frames
<1>4. /\ row \in [Users -> Row \cup {Missing, Deleted}]
      /\ req \in [Requests -> Frame \cup {NoRequest}]
  BY <1>2, <1>3, RowsType, FramesType
<1>5. keys \in [Keys -> Users \cup {NoUser}] /\ spent \in [Grants -> Nat]
  BY DEF Init
<1>6. challenge \in [Challenges -> Users \cup {Unused, Gone}]
  BY DEF Init
<1>7. /\ secrets \in 0..MaxSecrets /\ tokens \in 0..MaxTokens /\ faults \in Nat
      /\ work \in Workloads /\ temporary \subseteq Users /\ mailed \subseteq 0..MaxTokens
      /\ troubled \subseteq Users /\ confirmed \subseteq Secrets
  BY UsersAssumption DEF Init
<1> QED
  BY <1>2, <1>3, <1>4, <1>5, <1>6, <1>7 DEF IInv, TypeOK

\* A request that starts.
LEMMA RunKeeps ==
    ASSUME IInv, NEW r \in Requests, NEW op \in Operations, NEW u \in Users,
           NEW s \in OnceRow \cup {Missing}, NEW g \in Grants \cup {NoGrant},
           s = Missing => op \in Creating, Run(r, op, u, s, g)
    PROVE  IInv'
<1> DEFINE calls == Handler(op, u, s, {}).calls
           f == [op |-> op, user |-> u, todo |-> calls, snap |-> s, method |-> "TOTP",
                 key |-> NoKey, grant |-> g, token |-> 0]
<1>1. calls \in Seq(Calls) \ {<<>>}
  BY HandlerCalls
<1>2. s = Missing => calls \in Seq(NewCalls)
  <2>1. op \in Creating =>
          calls \in {<<"createRow">>, <<"createRow", "saveToken", "sendMail">>}
    BY DEF Creating, Handler, Always, create, createByInvitation, importUsers
  <2>2. <<"createRow">> \in Seq(NewCalls)
    BY DEF NewCalls
  <2>3. <<"createRow", "saveToken", "sendMail">> \in Seq(NewCalls)
    BY DEF NewCalls
  <2> QED
    BY <2>1, <2>2, <2>3
<1>3. f \in Frame
  <2> HIDE DEF calls
  <2> QED
    BY <1>1, UsersAssumption DEF Frame, OnceRow, Methods
<1>4. f \in OnceFrame
  <2> HIDE DEF calls
  <2> QED
    BY <1>2, <1>3 DEF OnceFrame, OnceRow
<1>5. req' \in Frames
  <2> HIDE DEF f
  <2>1. req' = [req EXCEPT ![r] = f]
    BY DEF Run, f
  <2> QED
    BY <1>4, <2>1 DEF IInv, Frames
<1> QED
  BY <1>5, LookKeeps DEF Run

LEMMA BeginKeeps ==
    ASSUME IInv, NEW r \in Requests, Begin(r)
    PROVE  IInv'
<1>1. ASSUME NEW u \in Users, Exists(u)
      PROVE  row[u] \in OnceRow /\ row[u] # Missing
  BY <1>1 DEF Exists, IInv, Rows
<1>2. CASE BeginWithUser(r)
  <2>1. PICK op \in Operations, u \in Users : Exists(u) /\ Run(r, op, u, row[u], NoGrant)
    BY <1>2 DEF BeginWithUser
  <2> QED
    BY <1>1, <2>1, RunKeeps
<1>3. CASE BeginWithEmail(r)
  <2>1. PICK op \in Operations, u \in Users : Exists(u) /\ Run(r, op, u, row[u], NoGrant)
    BY <1>3, UsersAssumption DEF BeginWithEmail, ByEmail, Operations
  <2> QED
    BY <1>1, <2>1, RunKeeps
<1>4. CASE BeginWithToken(r)
  <2>1. PICK op \in ByToken, u \in Users :
          /\ Exists(u) /\ TokenOf(op, u) \in mailed \ {0}
          /\ Run(r, op, u, row[u], TokenOf(op, u))
    BY <1>4 DEF BeginWithToken
  <2>2. TokenOf(op, u) \in Grants
    <3>1. TokenOf(op, u) \in 0..MaxTokens /\ TokenOf(op, u) # 0
      BY <2>1 DEF IInv, TypeOK
    <3> QED
      BY <3>1, UsersAssumption DEF Grants, Tokens
  <2>3. row[u] \in OnceRow /\ op \in Operations
    BY <1>1, <2>1 DEF ByToken, Operations
  <2>4. row[u] # Missing
    BY <2>1 DEF Exists
  <2> QED
    BY <2>1, <2>2, <2>3, <2>4, RunKeeps
<1>5. CASE BeginWithChallenge(r)
  <2>1. PICK op \in Operations, u \in Users, c \in Grants :
          Exists(u) /\ Run(r, op, u, row[u], c)
    BY <1>5 DEF BeginWithChallenge, ByChallenge, Operations, Grants
  <2> QED
    BY <1>1, <2>1, RunKeeps
<1>6. CASE BeginCreate(r)
  <2>1. PICK op \in Creating, u \in Users : Run(r, op, u, Missing, NoGrant)
    BY <1>6, UsersAssumption DEF BeginCreate
  <2>2. op \in Operations
    BY DEF Creating, Operations
  <2> QED
    BY <2>1, <2>2, RunKeeps
<1> QED
  BY <1>2, <1>3, <1>4, <1>5, <1>6 DEF Begin

\* Calls that change a row.
LEMMA RowCallKeeps ==
    ASSUME IInv, NEW r \in Requests, RowCall(r)
    PROVE  IInv'
<1>0. ~Idle(r) /\ User(r) \in Users /\ req[r] \in OnceFrame
  BY OpenFrame DEF RowCall, At, ReadRow, SaveSecret, SetVerified, WriteMethod,
     WriteDevices, RemoveDevice, ResetTwoFactor, CreateRow, DeleteRow, SaveToken, SetPassword
<1>1. Exists(User(r)) => row[User(r)] \in OnceRow
  BY <1>0 DEF Exists, IInv, Rows
<1>2. /\ secrets \in 0..MaxSecrets /\ tokens \in 0..MaxTokens
      /\ spent \in [Grants -> Nat] /\ MaxTokens \in Nat /\ MaxSecrets \in Nat
  BY UsersAssumption DEF IInv, TypeOK
<1>3. ASSUME NEW g PROVE [spent EXCEPT ![g] = @ + 1] \in [Grants -> Nat]
  <2>1. CASE g \in Grants
    BY <1>2, <2>1
  <2>2. CASE g \notin Grants
    BY <1>2, <2>2
  <2> QED
    BY <2>1, <2>2
<1>4. CASE ReadRow(r)
  <2>1. [req[r] EXCEPT !.snap = row[User(r)]] \in OnceFrame
    <3>1. row[User(r)] \in OnceRow /\ row[User(r)] # Missing
      BY <1>1, <1>4 DEF ReadRow, Exists
    <3> QED
      BY <1>0, <3>1 DEF OnceFrame, OnceRow, Frame
  <2> QED
    BY <1>4, <2>1, ProceedFrames, LookKeeps DEF ReadRow
<1>5. CASE SaveSecret(r)
  <2> DEFINE new == [row[User(r)] EXCEPT !.secret = secrets + 1, !.verified = FALSE]
  <2>1. secrets + 1 \in 0..MaxSecrets
    BY <1>2, <1>5 DEF SaveSecret
  <2>2. Update(r, new) /\ secrets' = secrets + 1 /\ UNCHANGED <<tokens, confirmed, spent>>
    BY <1>5 DEF SaveSecret
  <2>3. new \in OnceRow
    BY <1>1, <2>1, <2>2 DEF Update, OnceRow, Once, Row
  <2> HIDE DEF new
  <2> QED
    BY <1>0, <1>2, <2>1, <2>2, <2>3, UpdateKeeps
<1>6. ASSUME NEW new \in OnceRow, Write(r, new) PROVE IInv'
  BY <1>0, <1>2, <1>6, UpdateKeeps DEF Write, drawn
<1>7. CASE SetVerified(r)
  <2>1. [row[User(r)] EXCEPT !.verified = TRUE] \in OnceRow
    BY <1>1, <1>7 DEF SetVerified, Write, Update, OnceRow, Once, Row
  <2> QED
    BY <1>6, <1>7, <2>1 DEF SetVerified
<1>8. CASE WriteMethod(r)
  <2>1. req[r].method \in Methods
    BY <1>0, OpenFrame
  <2>2. [row[User(r)] EXCEPT !.method = req[r].method] \in OnceRow
    BY <1>1, <1>8, <2>1 DEF WriteMethod, Write, Update, OnceRow, Once, Row
  <2> QED
    BY <1>6, <1>8, <2>2 DEF WriteMethod
<1>9. ASSUME NEW ds \in [Devices -> Nat], \A d \in Devices : ds[d] <= 1, Exists(User(r))
      PROVE  [row[User(r)] EXCEPT !.devices = ds] \in OnceRow
  BY <1>1, <1>9 DEF OnceRow, Once, Row
<1>10. CASE WriteDevices(r)
  <2>1. PICK d \in Devices :
          Write(r, [row[User(r)] EXCEPT !.devices =
                       [Snap(r).devices EXCEPT ![d] = IF @ > 0 THEN @ ELSE 1]])
    BY <1>10 DEF WriteDevices
  <2>2. Snap(r).devices \in [Devices -> Nat] /\ \A x \in Devices : Snap(r).devices[x] <= 1
    BY <1>10, OpenSnap DEF WriteDevices, OnceRow, Once, Row, NewCalls
  <2> DEFINE ds == [Snap(r).devices EXCEPT ![d] = IF @ > 0 THEN @ ELSE 1]
  <2>3. ds \in [Devices -> Nat] /\ \A x \in Devices : ds[x] <= 1
    BY <2>2
  <2>4. Exists(User(r))
    BY <2>1 DEF Write, Update
  <2> QED
    BY <1>6, <1>9, <2>1, <2>3, <2>4
<1>11. CASE RemoveDevice(r)
  <2>1. PICK gone \in {NoDevices} \cup {[NoDevices EXCEPT ![d] = 1] : d \in Devices} :
          Write(r, [row[User(r)] EXCEPT !.devices =
                      [d \in Devices |-> IF Snap(r).devices[d] > 0
                                           THEN Snap(r).devices[d] - gone[d] ELSE 0]])
    BY <1>11 DEF RemoveDevice
  <2>2. Snap(r).devices \in [Devices -> Nat] /\ \A x \in Devices : Snap(r).devices[x] <= 1
    BY <1>11, OpenSnap DEF RemoveDevice, OnceRow, Once, Row, NewCalls
  <2>3. \A d \in Devices : gone[d] \in {0, 1}
    BY DEF NoDevices
  <2> DEFINE ds == [d \in Devices |-> IF Snap(r).devices[d] > 0
                                         THEN Snap(r).devices[d] - gone[d] ELSE 0]
  <2>4. ds \in [Devices -> Nat] /\ \A x \in Devices : ds[x] <= 1
    BY <2>2, <2>3
  <2>5. Exists(User(r))
    BY <2>1 DEF Write, Update
  <2> QED
    BY <1>6, <1>9, <2>1, <2>4, <2>5
<1>none. NoDevices \in [Devices -> Nat] /\ \A d \in Devices : NoDevices[d] <= 1
  BY DEF NoDevices
<1>12. CASE ResetTwoFactor(r)
  <2> DEFINE again == req[r].op = "confirm2FAReset"
             new == [row[User(r)] EXCEPT
                       !.secret = 0, !.verified = FALSE, !.method = "TOTP",
                       !.devices = NoDevices, !.tfToken = IF again THEN 0 ELSE @]
  <2>1. Update(r, new) /\ UNCHANGED <<drawn, confirmed>>
    BY <1>12 DEF ResetTwoFactor
  <2>2. spent' \in [Grants -> Nat]
    BY <1>2, <1>3, <1>12 DEF ResetTwoFactor
  <2>3. new \in OnceRow
    <3>1. row[User(r)] \in Row
      BY <1>1, <2>1 DEF Update, OnceRow
    <3>2. new \in Row /\ new.devices = NoDevices
      <4> DEFINE t == IF again THEN 0 ELSE row[User(r)].tfToken
      <4>1. t \in 0..MaxTokens
        BY <1>2, <3>1 DEF Row
      <4>2. new = [row[User(r)] EXCEPT !.secret = 0, !.verified = FALSE, !.method = "TOTP",
                                       !.devices = NoDevices, !.tfToken = t]
        BY <3>1 DEF Row
      <4> HIDE DEF t, new
      <4>3. 0 \in 0..MaxSecrets /\ "TOTP" \in Methods
        BY <1>2 DEF Methods
      <4> QED
        BY <1>none, <3>1, <4>1, <4>2, <4>3 DEF Row
    <3> QED
      BY <1>none, <3>2 DEF OnceRow, Once
  <2> HIDE DEF new
  <2> QED
    BY <1>0, <1>2, <2>1, <2>2, <2>3, UpdateKeeps DEF drawn
<1>13. CASE SetPassword(r)
  <2> DEFINE byToken == req[r].op = "resetPassword"
             new == [row[User(r)] EXCEPT !.password = TRUE,
                       !.devices = IF req[r].op = "changePassword" THEN @ ELSE NoDevices,
                       !.resetToken = IF byToken THEN 0 ELSE @]
  <2>1. Update(r, new) /\ UNCHANGED <<drawn, confirmed>>
    BY <1>13 DEF SetPassword
  <2>2. spent' \in [Grants -> Nat]
    BY <1>2, <1>3, <1>13 DEF SetPassword
  <2>3. new \in OnceRow
    <3> DEFINE t == IF byToken THEN 0 ELSE row[User(r)].resetToken
               ds == IF req[r].op = "changePassword" THEN row[User(r)].devices ELSE NoDevices
    <3>1. row[User(r)] \in Row /\ Once(row[User(r)])
      BY <1>1, <2>1 DEF Update, OnceRow
    <3>2. t \in 0..MaxTokens
      BY <1>2, <3>1 DEF Row
    <3>3. ds \in [Devices -> Nat] /\ \A d \in Devices : ds[d] <= 1
      BY <1>none, <3>1 DEF Row, Once
    <3>4. new = [row[User(r)] EXCEPT !.password = TRUE, !.devices = ds, !.resetToken = t]
      BY <3>1 DEF Row
    <3> HIDE DEF t, ds, new
    <3>5. new \in Row /\ new.devices = ds
      BY <3>1, <3>2, <3>3, <3>4 DEF Row
    <3> QED
      BY <3>3, <3>5 DEF OnceRow, Once
  <2> HIDE DEF new
  <2> QED
    BY <1>0, <1>2, <2>1, <2>2, <2>3, UpdateKeeps DEF drawn
<1>14. ASSUME NEW frame \in OnceFrame, Answered(r, frame), row' \in Rows,
              keys' \in [Keys -> Users \cup {NoUser}], tokens' \in 0..MaxTokens,
              UNCHANGED <<temporary, secrets, work, mailed, confirmed, spent>>
       PROVE  IInv'
  <2>1. /\ req' \in Frames
        /\ challenge' \in [Challenges -> Users \cup {Unused, Gone}]
        /\ troubled' \subseteq Users
        /\ faults' \in Nat
    BY <1>0, <1>14, AnsweredKeeps
  <2> QED
    BY <1>14, <2>1, FramesType, RowsType DEF IInv, TypeOK
<1>15. CASE CreateRow(r)
  <2>1. NewRow(req[r].op = "create") \in OnceRow
    BY <1>2 DEF NewRow, OnceRow, Once, Row, NoDevices, Methods
  <2>2. row' \in Rows
    BY <1>0, <1>15, <2>1 DEF CreateRow, IInv, Rows
  <2>3. keys' \in [Keys -> Users \cup {NoUser}] /\ tokens' \in 0..MaxTokens
    BY <1>2, <1>15 DEF CreateRow, IInv, TypeOK, drawn
  <2> QED
    BY <1>0, <1>14, <1>15, <2>2, <2>3 DEF CreateRow, drawn
<1>16. CASE DeleteRow(r)
  <2>1. row' \in Rows
    BY <1>0, <1>16 DEF DeleteRow, IInv, Rows
  <2>2. keys' \in [Keys -> Users \cup {NoUser}] /\ tokens' \in 0..MaxTokens
    BY <1>2, <1>16 DEF DeleteRow, IInv, TypeOK, drawn
  <2> QED
    BY <1>0, <1>14, <1>16, <2>1, <2>2 DEF DeleteRow, drawn
<1>17. CASE SaveToken(r)
  <2> DEFINE t == tokens + 1
             u == User(r)
             new == CASE req[r].op = "adminReset2FAForUser" -> [row[u] EXCEPT !.tfToken = t]
                 [] req[r].op = "adminResetPassword" ->
                      [row[u] EXCEPT !.resetToken = t, !.password = FALSE]
                 [] OTHER -> [row[u] EXCEPT !.resetToken = t]
             frame == [req[r] EXCEPT !.token = t]
  <2>1. /\ Exists(u) /\ row' = [row EXCEPT ![u] = new] /\ tokens' = t
        /\ Answered(r, frame) /\ UNCHANGED <<keys, temporary, secrets, work, mailed, confirmed, spent>>
    BY <1>17 DEF SaveToken
  <2>2. t \in 0..MaxTokens
    BY <1>2, <1>17 DEF SaveToken
  <2>3. new \in OnceRow
    BY <1>1, <2>1, <2>2 DEF OnceRow, Once, Row
  <2>4. frame \in OnceFrame
    BY <1>0, <2>2 DEF OnceFrame, Frame
  <2> HIDE DEF new, frame, t
  <2>5. row' \in Rows
    BY <1>0, <2>1, <2>3 DEF IInv, Rows
  <2>6. keys' \in [Keys -> Users \cup {NoUser}] /\ tokens' \in 0..MaxTokens
    BY <2>1, <2>2 DEF IInv, TypeOK
  <2> QED
    BY <1>14, <2>1, <2>4, <2>5, <2>6
<1> QED
  BY <1>4, <1>5, <1>7, <1>8, <1>10, <1>11, <1>12, <1>13, <1>15, <1>16, <1>17 DEF RowCall

\* Calls on keys and checks of codes.
LEMMA KeyCallKeeps ==
    ASSUME IInv, NEW r \in Requests, KeyCall(r)
    PROVE  IInv'
<1>0. ~Idle(r) /\ User(r) \in Users /\ req[r] \in OnceFrame
  BY OpenFrame DEF KeyCall, At, ReadKeys, PickMethod, CheckYubikey, Registered,
     NotRegistered, FindKey, CreateKey, OwnsKey, DeleteKey, DeleteKeys, CheckCode
<1>1. ASSUME Proceed(r, req[r]) \/ Refuse(r) PROVE req' \in Frames
  BY <1>0, <1>1, ProceedFrames, RefuseFrames
<1>2. ASSUME NEW k \in Keys PROVE [req[r] EXCEPT !.key = k] \in OnceFrame
  BY <1>0 DEF OnceFrame, Frame
<1>3. ASSUME NEW m \in Methods PROVE [req[r] EXCEPT !.method = m] \in OnceFrame
  BY <1>0 DEF OnceFrame, Frame
<1>4. CASE ReadKeys(r)
  <2>1. req' \in Frames
    BY <1>1, <1>3, <1>4, ProceedFrames DEF ReadKeys
  <2> QED
    BY <1>4, <2>1, LookKeeps DEF ReadKeys
<1>5. CASE PickMethod(r)
  <2>1. AutoMethod(Snap(r), KeysOf(User(r))) \in Methods
    BY DEF AutoMethod, Methods
  <2>2. req' \in Frames
    BY <1>3, <1>5, <2>1, ProceedFrames DEF PickMethod
  <2> QED
    BY <1>5, <2>2, LookKeeps DEF PickMethod
<1>6. CASE CheckYubikey(r)
  <2>1. req' \in Frames
    BY <1>1, <1>2, <1>6, ProceedFrames DEF CheckYubikey
  <2> QED
    BY <1>6, <2>1, LookKeeps DEF CheckYubikey
<1>7. CASE Registered(r) \/ NotRegistered(r) \/ FindKey(r)
  <2>1. req' \in Frames /\ Look
    BY <1>1, <1>7 DEF Registered, NotRegistered, FindKey
  <2> QED
    BY <2>1, LookKeeps
<1>8. CASE OwnsKey(r)
  <2>1. req' \in Frames
    BY <1>1, <1>2, <1>8, ProceedFrames DEF OwnsKey, KeysOf
  <2> QED
    BY <1>8, <2>1, LookKeeps DEF OwnsKey
<1>9. ASSUME Answered(r, req[r]), keys' \in [Keys -> Users \cup {NoUser}],
             spent' \in [Grants -> Nat],
             UNCHANGED <<row, temporary, drawn, work, mailed, confirmed>>
      PROVE  IInv'
  <2>1. /\ req' \in Frames
        /\ challenge' \in [Challenges -> Users \cup {Unused, Gone}]
        /\ troubled' \subseteq Users
        /\ faults' \in Nat
    BY <1>0, <1>9, AnsweredKeeps
  <2> QED
    BY <1>9, <2>1, FramesType DEF IInv, TypeOK, drawn
<1>10. CASE CreateKey(r)
  <2>1. keys' \in [Keys -> Users \cup {NoUser}]
    BY <1>0, <1>10 DEF CreateKey, IInv, TypeOK
  <2>2. spent' \in [Grants -> Nat]
    BY <1>0, <1>10, OpenFrame DEF CreateKey, IInv, TypeOK
  <2> QED
    BY <1>9, <1>10, <2>1, <2>2 DEF CreateKey
<1>11. CASE DeleteKey(r) \/ DeleteKeys(r)
  <2>1. PICK gone : Delete(r, gone)
    BY <1>11 DEF DeleteKey, DeleteKeys
  <2>2. keys' \in [Keys -> Users \cup {NoUser}] /\ spent' \in [Grants -> Nat]
    BY <2>1 DEF Delete, IInv, TypeOK
  <2> QED
    BY <1>9, <2>1, <2>2 DEF Delete
<1>12. CASE CheckCode(r)
  <2>1. Snap(r) \in OnceRow
    BY <1>12, OpenSnap DEF CheckCode, NewCalls
  <2>2. confirmed' \subseteq Secrets
    <3>1. AcceptsTotp(Snap(r)) => Snap(r).secret \in Secrets
      BY <2>1, UsersAssumption DEF AcceptsTotp, OnceRow, Row, Secrets
    <3> QED
      BY <1>12, <3>1 DEF CheckCode, IInv, TypeOK
  <2>3. <<"checkYubikey", "registered">> \o Tail(req[r].todo) \in Seq(Calls)
    <3>1. <<"checkYubikey", "registered">> \in Seq(Calls)
      BY DEF Calls
    <3> QED
      BY <1>0, <3>1, OpenFrame
  <2>4. req[r].snap # Missing
    BY <2>1, NoneAssumption DEF Snap, OnceRow
  <2>5. req' \in Frames
    <3>1. \/ Proceed(r, req[r]) \/ Refuse(r)
          \/ Then(r, req[r], <<"checkYubikey", "registered">> \o Tail(req[r].todo))
      BY <1>12 DEF CheckCode
    <3> QED
      BY <1>0, <1>1, <2>3, <2>4, <3>1, ThenFrames
  <2> QED
    BY <1>12, <2>2, <2>5, FramesType DEF CheckCode, IInv, TypeOK, database, drawn
<1> QED
  BY <1>4, <1>5, <1>6, <1>7, <1>8, <1>10, <1>11, <1>12 DEF KeyCall

\* Calls on challenges, of the login, and the mail.
LEMMA OtherCallKeeps ==
    ASSUME IInv, NEW r \in Requests, OtherCall(r)
    PROVE  IInv'
<1>0. ~Idle(r) /\ User(r) \in Users /\ req[r] \in OnceFrame
  BY OpenFrame DEF OtherCall, At, StoreChallenge, GetChallenge, Credential, UpdateCounter,
     RemoveChallenge, SendMail, NeedsVerification, NeedsSetup, GiveTemporary
<1>1. ASSUME Proceed(r, req[r]) PROVE req' \in Frames
  BY <1>0, <1>1, ProceedFrames
<1>2. CASE StoreChallenge(r)
  <2>1. req' \in Frames
    BY <1>1, <1>2 DEF StoreChallenge
  <2>2. challenge' \in [Challenges -> Users \cup {Unused, Gone}]
    BY <1>0, <1>2 DEF StoreChallenge, IInv, TypeOK
  <2> QED
    BY <1>2, <2>1, <2>2, FramesType
    DEF StoreChallenge, IInv, TypeOK, database, drawn, record
<1>3. CASE GetChallenge(r)
  <2>1. ASSUME NEW c \in Challenges, NEW k \in WebAuthnKeys
        PROVE  [req[r] EXCEPT !.grant = c, !.key = k] \in OnceFrame
    BY <1>0, UsersAssumption DEF OnceFrame, Frame, Grants
  <2>2. req' \in Frames
    BY <1>3, <2>1, ProceedFrames, RefuseFrames DEF GetChallenge
  <2> QED
    BY <1>3, <2>2, LookKeeps DEF GetChallenge
<1>4. CASE Credential(r)
  <2>1. req' \in Frames
    BY <1>1, <1>4, RefuseFrames DEF Credential
  <2> QED
    BY <1>4, <2>1, LookKeeps DEF Credential
<1>5. ASSUME Answered(r, req[r]), spent' \in [Grants -> Nat], mailed' \subseteq 0..MaxTokens,
             UNCHANGED <<database, temporary, drawn, work, confirmed>>
      PROVE  IInv'
  <2>1. /\ req' \in Frames
        /\ challenge' \in [Challenges -> Users \cup {Unused, Gone}]
        /\ troubled' \subseteq Users
        /\ faults' \in Nat
    BY <1>0, <1>5, AnsweredKeeps
  <2> QED
    BY <1>5, <2>1, FramesType DEF IInv, TypeOK, database, drawn
<1>6. CASE UpdateCounter(r)
  <2>1. spent' \in [Grants -> Nat]
    <3>1. spent \in [Grants -> Nat]
      BY DEF IInv, TypeOK
    <3>2. CASE req[r].grant \in Grants
      BY <1>6, <3>1, <3>2 DEF UpdateCounter
    <3>3. CASE req[r].grant \notin Grants
      BY <1>6, <3>1, <3>3 DEF UpdateCounter
    <3> QED
      BY <3>2, <3>3
  <2> QED
    BY <1>5, <1>6, <2>1 DEF UpdateCounter, IInv, TypeOK
<1>7. CASE SendMail(r)
  <2>1. mailed' \subseteq 0..MaxTokens
    BY <1>0, <1>7, OpenFrame DEF SendMail, IInv, TypeOK
  <2> QED
    BY <1>5, <1>7, <2>1 DEF SendMail, IInv, TypeOK
<1>8. CASE RemoveChallenge(r)
  <2>1. req' \in Frames
    BY <1>1, <1>8 DEF RemoveChallenge
  <2>2. challenge' \in [Challenges -> Users \cup {Unused, Gone}]
    BY <1>8 DEF RemoveChallenge, Forget, IInv, TypeOK
  <2> QED
    BY <1>8, <2>1, <2>2, FramesType
    DEF RemoveChallenge, IInv, TypeOK, database, drawn, record
<1>9. ASSUME NEW rest \in Seq(Calls), Snap(r) \in OnceRow, Then(r, req[r], rest)
      PROVE  req' \in Frames
  <2>1. req[r].snap # Missing
    BY <1>9, NoneAssumption DEF Snap, OnceRow
  <2> QED
    BY <1>0, <1>9, <2>1, ThenFrames
<1>10. CASE NeedsVerification(r)
  <2>1. Snap(r) \in OnceRow
    BY <1>10, OpenSnap DEF NeedsVerification, NewCalls
  <2>2. <<"needsSetup">> \o <<"giveTemporary">> \in Seq(Calls)
        /\ <<"needsSetup">> \o <<>> \in Seq(Calls)
    BY DEF Calls
  <2>3. \/ Then(r, req[r], <<"needsSetup">> \o <<"giveTemporary">>)
        \/ Then(r, req[r], <<"needsSetup">> \o <<>>)
    BY <1>10 DEF NeedsVerification
  <2>4. req' \in Frames
    BY <1>9, <2>1, <2>2, <2>3
  <2> QED
    BY <1>10, <2>4, LookKeeps DEF NeedsVerification
<1>11. CASE NeedsSetup(r)
  <2>1. Snap(r) \in OnceRow
    BY <1>11, OpenSnap DEF NeedsSetup, NewCalls
  <2>2. <<"saveSecret", "giveTemporary">> \in Seq(Calls)
    BY DEF Calls
  <2>3. Then(r, req[r], <<"saveSecret", "giveTemporary">>) \/ Proceed(r, req[r])
    BY <1>11 DEF NeedsSetup
  <2>4. req' \in Frames
    BY <1>1, <1>9, <2>1, <2>2, <2>3
  <2> QED
    BY <1>11, <2>4, LookKeeps DEF NeedsSetup
<1>12. CASE GiveTemporary(r)
  <2>1. req' \in Frames
    BY <1>1, <1>12 DEF GiveTemporary
  <2> QED
    BY <1>0, <1>12, <2>1, FramesType DEF GiveTemporary, IInv, TypeOK, database, drawn, record
<1> QED
  BY <1>2, <1>3, <1>4, <1>6, <1>7, <1>8, <1>10, <1>11, <1>12 DEF OtherCall

----------------------------------------------------------------------------
LEMMA NextKeeps == IInv /\ [Next]_vars => IInv'
<1> SUFFICES ASSUME IInv, [Next]_vars PROVE IInv'
  OBVIOUS
<1>1. ASSUME NEW r \in Requests, CallFails(r) PROVE IInv'
  <2>1. ~Idle(r) /\ Caught(r) /\ faults' \in Nat
    BY <1>1 DEF CallFails, Fault, IInv, TypeOK
  <2>2. /\ req' \in Frames
        /\ challenge' \in [Challenges -> Users \cup {Unused, Gone}]
        /\ troubled' \subseteq Users
    BY <2>1, CaughtKeeps
  <2> QED
    BY <1>1, <2>1, <2>2, FramesType DEF CallFails, IInv, TypeOK, database, drawn
<1>2. CASE Stop
  <2>1. req' \in Frames
    BY <1>2 DEF Stop, Frames
  <2>2. challenge' \in [Challenges -> Users \cup {Unused, Gone}]
    BY <1>2 DEF Stop, IInv, TypeOK
  <2>3. troubled' \subseteq Users
    BY <1>2, OpenFrame DEF Stop, Busy, IInv, TypeOK
  <2>4. faults' \in Nat
    BY <1>2 DEF Stop, Fault, IInv, TypeOK
  <2> QED
    BY <1>2, <2>1, <2>2, <2>3, <2>4, FramesType DEF Stop, IInv, TypeOK, database, drawn
<1>3. CASE Expire
  <2>1. challenge' \in [Challenges -> Users \cup {Unused, Gone}]
    BY <1>3 DEF Expire, Forget, IInv, TypeOK
  <2>2. temporary' \subseteq Users
    BY <1>3 DEF Expire, IInv, TypeOK
  <2> QED
    BY <1>3, <2>1, <2>2 DEF Expire, IInv, TypeOK, database, drawn, record, Frames, Rows
<1>4. CASE UNCHANGED vars
  BY <1>4 DEF vars, IInv, TypeOK, database, drawn, record
<1> QED
  BY <1>1, <1>2, <1>3, <1>4, BeginKeeps, RowCallKeeps, KeyCallKeeps, OtherCallKeeps
  DEF Next

\* Accounts, frames, challenges and tokens have their types in every behaviour,
\* whatever handlers overlap and whatever calls fail.
THEOREM TypeCorrect == Spec => []TypeOK
<1>1. IInv => TypeOK
  BY DEF IInv
<1> QED
  BY <1>1, InitInv, NextKeeps, PTL DEF Spec

\* The list of verified devices of a user never names a device twice
\* (updateVerifiedDevices, removeAuthorizedDevice, reset2FA, resetPassword), for
\* any number of overlapping handlers that write back the list they read.
THEOREM DevicesOnce == Spec => []OneEntryPerDevice
<1>1. IInv => OneEntryPerDevice
  BY DEF IInv, Rows, OnceRow, Once, OneEntryPerDevice, Exists
<1> QED
  BY <1>1, InitInv, NextKeeps, PTL DEF Spec
=============================================================================
