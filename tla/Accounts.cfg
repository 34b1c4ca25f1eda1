SPECIFICATION Spec
CONSTANTS
    ada = ada
    bo = bo
    Bo = Bo
    otp = otp
    fido = fido
    laptop = laptop
    c1 = c1
    c2 = c2
    Users = {ada, bo, Bo}
    Lower <- MCLower
    NoUser = NoUser
    Keys = {otp, fido}
    WebAuthnKeys = {fido}
    NoKey = NoKey
    Devices = {laptop}
    Requests = {r1, r2}
    NoRequest = NoRequest
    Challenges = {c1, c2}
    Unused = Unused
    Gone = Gone
    NoGrant = NoGrant
    Missing = Missing
    Deleted = Deleted
    MaxSecrets = 2
    MaxTokens = 2
    Workloads <- MCWorkloads
INVARIANTS
    TypeOK
    OneEntryPerDevice
    NotLockedOut
    TokenReachesItsUser
    OneTimeGrants
    VerifiedMeansConfirmed
SYMMETRY Symmetry
