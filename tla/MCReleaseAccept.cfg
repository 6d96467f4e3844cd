CONSTANTS
    r1 = r1
    r2 = r2
    alice = alice
    a1 = a1
    a2 = a2
    none = none
    Request = {r1, r2}
    Identifier = {alice}
    Payee = {a1, a2}
    NoPayee = none
    Amounts = {1, 2}
    PaymentLimits = {1}
    Allowances = {0, 1}
    Attested = {{}, {a1, a2}}
    Outcomes = {"SETTLED", "ATTEMPTED", "FAILED"}
    MaxFunds = 1
SPECIFICATION ReleaseSpec
INVARIANT PaidOnlyOnAccept
