CONSTANTS
    adm = adm
    op = op
    iss = iss
    alice = alice
    zero = zero
    noHash = noHash
    m1 = m1
    m2 = m2
    m3 = m3
    Address <- MCAddress
    ZeroAddress = zero
    ZeroHash = noHash
    RegistryOwner = adm
    TreasuryOwner = adm
    InitialOperator = op
    NewOwners <- Nobody
    Operators <- Nobody
    Issuers <- MCIssuers
    Subjects <- MCSubjects
    Capability = {"kyc"}
    Levels = {1}
    Expiries = {0}
    Genesis = 3
    DAY = 3
    MaxTime = 6
    Token = {"usdc"}
    Mandate = {m1, m2, m3}
    Amounts = {1, 2}
    PaymentLimits = {2}
    DailyLimits = {2}
    MaxFunds = 4
SPECIFICATION Spec
SYMMETRY MandateSymmetry
INVARIANT AnyDayWithinTheLimit
CHECK_DEADLOCK FALSE
