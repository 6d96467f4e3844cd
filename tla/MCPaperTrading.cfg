CONSTANTS
    r1 = r1
    r2 = r2
    r3 = r3
    user = user
    btc = btc
    sol = sol
    Request = {r1, r2, r3}
    User = {user}
    Pair = {btc, sol}
    Prices = {1, 2}
    Start = 4
    Unpriced = 0
SYMMETRY MCSymmetry
SPECIFICATION TradingSpec
INVARIANT TradingTypeOK
INVARIANT BooksBalance
INVARIANT TradesLostToAgentOnly
INVARIANT SessionStartsEven
CHECK_DEADLOCK FALSE
