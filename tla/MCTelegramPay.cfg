CONSTANTS
    u1 = u1
    u2 = u2
    x1 = x1
    w1 = w1
    w2 = w2
    t1 = t1
    p1 = p1
    p2 = p2
    none = none
    User = {u1, u2}
    PrivyId = {x1}
    Wallet = {w1, w2}
    Token = {t1}
    None = none
    Payment = {p1, p2}
    Amounts = {1}
    MaxGiven = 2
SYMMETRY MCSymmetry
SPECIFICATION PaySpec
INVARIANT PayTypeOK
INVARIANT KeyKeptUnlessLinked
INVARIANT AnswersExplained
INVARIANT AcceptableUnlessLinked
INVARIANT PayerVettedUnlessLinked
PROPERTY LinkSpendsOwnCode
CHECK_DEADLOCK FALSE
