CONSTANTS
    owner = owner
    backend = backend
    ann = ann
    bob = bob
    zero = zero
    q1 = q1
    q2 = q2
    rep1 = rep1
    rep2 = rep2
    good = good
    odd = odd
    failed = failed
    demo = demo
    none = none
    Address <- MCAddress
    ZeroAddress = zero
    RegistryOwner = owner
    NewOwners = {}
    Issuers <- MCIssuers
    Subjects = {ann, bob}
    Capability = {"kyc"}
    Levels = {2}
    Expiries = {1}
    Genesis = 1
    MaxTime = 2
    Request = {q1, q2}
    Bodies <- MCBodies
    Wallets = {ann}
    Report = {rep1, rep2}
    Task = {good, odd, failed}
    ConfirmedReport = {rep1, rep2}
    PassedTask = {good, odd}
    TaskLevel <- MCTaskLevel
    HexTask = {good, odd, failed}
    DemoReport = demo
    NoRequest = none
    Backend = backend
    Kyc = "kyc"
    DemoLevel = 3
    ReportValidity = 1
    DemoValidity = 1
SYMMETRY MCSymmetry
SPECIFICATION IssuanceSpec
INVARIANT IssuanceTypeOK
INVARIANT AttestationsTraced
INVARIANT LogExplained
PROPERTY DemoYieldsToEarlier
CHECK_DEADLOCK FALSE
