CONSTANTS
    ada = ada
    bob = bob
    payee = payee
    zero = zero
    Address <- MCAddress
    ZeroAddress = zero
    RegistryOwner = ada
    NewOwners <- MCNewOwners
    Issuers <- MCIssuers
    Subjects <- MCSubjects
    Capability = {"kyc"}
    Levels = {1, 3}
    Expiries = {0, 1, 2, 4}
    Genesis = 1
    MaxTime = 4
SPECIFICATION RegistrySpec
INVARIANT InvalidFromExpiryOn

CHECK_DEADLOCK FALSE
