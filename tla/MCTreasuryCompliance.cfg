CONSTANTS
    adm = adm
    op = op
    iss = iss
    alice = alice
    zero = zero
    noHash = noHash
    m1 = m1
    m2 = m2
    m3 = m3
    Address <- MCAddress
    ZeroAddress = zero
    ZeroHash = noHash
    RegistryOwner = adm
    TreasuryOwner = adm
    InitialOperator = op
    NewOwners <- Renounced
    Operators <- NextOperators
    Issuers <- MCIssuers
    Subjects <- MCSubjects
    Capability = {"kyc"}
    Levels = {1, 3}
    Expiries = {0, 4}
    Genesis = 3
    DAY = 3
    MaxTime = 5
    Token = {"usdc"}
    Mandate = {m1, m2}
    Amounts = {1, 2}
    PaymentLimits = {1, 2}
    DailyLimits = {2}
    MaxFunds = 3
SPECIFICATION Spec
SYMMETRY MandateSymmetry
INVARIANT TreasuryTypeOK
INVARIANT MandatePaidOnce
PROPERTY RequirementIsFixed
PROPERTY PromiseKept
CHECK_DEADLOCK FALSE
