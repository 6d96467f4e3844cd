CONSTANTS
    r1 = r1
    r2 = r2
    alice = alice
    a1 = a1
    a2 = a2
    none = none
    Request = {r1, r2}
    Identifier = {alice}
    Payee = {a1, a2}
    NoPayee = none
    Amounts = {1}
    PaymentLimits = {1}
    Allowances = {1}
    Attested = {{}, {a1, a2}}
    Outcomes = {"SETTLED"}
    MaxFunds = 1
SPECIFICATION ReleaseSpec
INVARIANT ReleaseTypeOK
INVARIANT BooksExplained
INVARIANT HistoryHasPayee
INVARIANT PaidAsLookedUp
PROPERTY EveryRequestAnswered
