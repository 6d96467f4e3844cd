---------------------------- MODULE PaperTrading ----------------------------
(***************************************************************************)
(* Paper portfolios in SQLite, traded by the bot's /trade and by the agent *)
(* behind POST /trading/ask, any number of requests at once.  One step is  *)
(* what a handler does between two awaits; a save is several statements    *)
(* without a transaction, of which a crash or an error may cut the last.   *)
(*                                                                         *)
(* Amounts, prices and sizes are whole numbers: a fraction of a balance or *)
(* of a position is any whole part of it, at a price that divides it.  No  *)
(* row reads as a portfolio with the starting balance.                     *)
(***************************************************************************)
EXTENDS Integers, Sequences, FiniteSetsExt, Functions

CONSTANTS
    Request, User, Pair,
    Prices,    \* bound: what a pair may cost
    Start,     \* STARTING_BALANCE
    Unpriced   \* a ticker that does not answer

ASSUME TradingAssumption ==
    /\ Prices \subseteq Nat \ {0}
    /\ Start \in Nat \ {0}
    /\ Unpriced \notin Prices

VARIABLES
    stage, job,
    saved,    \* paper_portfolios and paper_positions
    torn,     \* history: the users a save of whose portfolio was cut short
    saves     \* history: the requests whose portfolio was saved, in order

vars == <<stage, job, saved, torn, saves>>

Position == [pair : Pair, size : Nat \ {0}, entryPrice : Prices]

(* trades is history: the trades the portfolio is the result of.           *)
Portfolio == [balance : Nat, realizedPnl : Int, positions : Seq(Position), trades : SUBSET Request]

Untraded == [balance |-> Start, realizedPnl |-> 0, positions |-> <<>>, trades |-> {}]

Job == [user : User, kind : {"ask", "trade"}, basis : Portfolio]
NoJob == [kind |-> "none"]

InProgress == {"reasoning",  \* the model's answer is awaited
               "pricing"}    \* the ticker is awaited
Answered == {"executed", "declined", "failed", "lost"}

TradingTypeOK ==
    /\ stage \in [Request -> {"idle"} \cup InProgress \cup Answered]
    /\ job \in [Request -> Job \cup {NoJob}]
    /\ saved \in [User -> Portfolio]
    /\ torn \subseteq User
    /\ saves \in Seq(Request)

TradingInit ==
    /\ stage = [r \in Request |-> "idle"]
    /\ job = [r \in Request |-> NoJob]
    /\ saved = [u \in User |-> Untraded]
    /\ torn = {}
    /\ saves = <<>>

------------------------------------------------------------------------------
(* applyPaperTrade.                                                        *)

(* A mutant: a fraction of up to twice the balance.                        *)
WithinTwice(cost, balance) == cost <= 2 * balance

Within(cost, balance) == cost <= balance

Bought(p, pair, size, price) ==
    [p EXCEPT !.balance = @ - size * price,
              !.positions = Append(@, [pair |-> pair, size |-> size, entryPrice |-> price])]

Purchases(p, price) ==
    LET sizes == {n \in 1..p.balance : Within(n * price, p.balance)}
    IN  {Bought(p, pair, size, price) : pair \in Pair, size \in sizes}

(* The position a sale closes: the pair's oldest.                          *)
FirstOf(p, pair) == Min({i \in DOMAIN p.positions : p.positions[i].pair = pair})

(* A mutant: all positions of the pair are dropped.                        *)
WithoutPair(positions, i) ==
    SelectSeq(positions, LAMBDA q : q.pair # positions[i].pair)

Without(positions, i) == SubSeq(positions, 1, i - 1) \o SubSeq(positions, i + 1, Len(positions))

Reduced(positions, i, size) ==
    IF size < positions[i].size THEN [positions EXCEPT ![i].size = @ - size] ELSE Without(positions, i)

Sold(p, pair, size, price) ==
    LET i == FirstOf(p, pair)
    IN  [p EXCEPT !.balance = @ + size * price,
                  !.realizedPnl = @ + size * (price - p.positions[i].entryPrice),
                  !.positions = Reduced(@, i, size)]

Sales(p, price) ==
    UNION {{Sold(p, pair, size, price) : size \in 1..p.positions[FirstOf(p, pair)].size} :
              pair \in {p.positions[i].pair : i \in DOMAIN p.positions}}

(* Whatever the agent proposes or the user orders, and the handler does    *)
(* not decline.                                                            *)
Outcomes(p) == UNION {Purchases(p, price) \cup Sales(p, price) : price \in Prices}

------------------------------------------------------------------------------
(* The handlers.                                                           *)

Advance(r, from, to) == stage[r] = from /\ stage' = [stage EXCEPT ![r] = to]

(* A mutant: a portfolio is read as missing when it has no positions.      *)
LoadUnlessEmpty(u) == IF saved[u].positions = <<>> THEN Untraded ELSE saved[u]

Load(u) == saved[u]

(* POST /trading/ask loads the portfolio, then asks the agent.             *)
Ask(r, u) ==
    /\ Advance(r, "idle", "reasoning")
    /\ job' = [job EXCEPT ![r] = [user |-> u, kind |-> "ask", basis |-> Load(u)]]
    /\ UNCHANGED <<saved, torn, saves>>

Propose(r) ==
    /\ Advance(r, "reasoning", "pricing")
    /\ UNCHANGED <<job, saved, torn, saves>>

(* /trade loads it when it has the price.                                  *)
Trade(r, u) ==
    /\ Advance(r, "idle", "pricing")
    /\ job' = [job EXCEPT ![r] = [user |-> u, kind |-> "trade", basis |-> Untraded]]
    /\ UNCHANGED <<saved, torn, saves>>

Basis(r) == IF job[r].kind = "ask" THEN job[r].basis ELSE Load(job[r].user)

Results(r) == {[p EXCEPT !.trades = @ \cup {r}] : p \in Outcomes(Basis(r))}

(* No proposal, a fraction out of bounds, nothing to spend or to sell.     *)
Decline(r) ==
    /\ \E from \in InProgress : Advance(r, from, "declined")
    /\ UNCHANGED <<job, saved, torn, saves>>

(* The model does not answer, or not in JSON.                              *)
ReasoningFails(r) ==
    /\ Advance(r, "reasoning", "failed")
    /\ UNCHANGED <<job, saved, torn, saves>>

(* The exchange does not answer, or has no ticker of the pair.             *)
TickerFails(r) ==
    /\ Advance(r, "pricing", "failed")
    /\ UNCHANGED <<job, saved, torn, saves>>

(* savePortfolio, in full: the balance, the deletion of all positions,     *)
(* then one insertion each.                                                *)
Save(r) ==
    /\ Advance(r, "pricing", "executed")
    /\ \E p \in Results(r) : saved' = [saved EXCEPT ![job[r].user] = p]
    /\ saves' = Append(saves, r)
    /\ UNCHANGED <<job, torn>>

ExecuteProposal(r) == job[r].kind = "ask" /\ Save(r)

ExecuteTrade(r) == job[r].kind = "trade" /\ Save(r)

Killed == [r \in Request |-> IF stage[r] \in InProgress THEN "lost" ELSE stage[r]]

(* An insertion throws for a size that is no number; a crash cuts the save *)
(* anywhere, or the answer to a finished one cannot be sent.               *)
CutSave(r) ==
    LET u == job[r].user
    IN  /\ stage[r] = "pricing"
        /\ \E p \in Results(r) :
              LET Prefixes == {SubSeq(p.positions, 1, n) : n \in 0..Len(p.positions)}
              IN  \E left \in {saved[u].positions} \cup Prefixes :
                    /\ saved' = [saved EXCEPT ![u] = [p EXCEPT !.positions = left]]
                    /\ torn' = IF left = p.positions THEN torn ELSE torn \cup {u}
        /\ saves' = Append(saves, r)
        /\ stage' \in {Killed, [stage EXCEPT ![r] = "failed"]}
        /\ UNCHANGED job

Crash ==
    /\ Killed # stage
    /\ stage' = Killed
    /\ UNCHANGED <<job, saved, torn, saves>>

TradingNext ==
    \/ \E r \in Request :
          \/ \E u \in User : Ask(r, u) \/ Trade(r, u)
          \/ Propose(r)
          \/ Decline(r)
          \/ ReasoningFails(r)
          \/ TickerFails(r)
          \/ ExecuteProposal(r)
          \/ ExecuteTrade(r)
          \/ CutSave(r)
    \/ Crash

TradingSpec == TradingInit /\ [][TradingNext]_vars

------------------------------------------------------------------------------
(* What users are shown.  A request for it saves nothing.                  *)

(* The profit of a position at a price, by getUnrealizedPnl, which passes  *)
(* over a pair without one.                                                *)
PositionPnl(position, price) ==
    IF price = Unpriced THEN 0 ELSE position.size * (price - position.entryPrice)

(* /portfolio asks for a ticker per position, one after the other, so that *)
(* two positions of a pair may be priced differently.                      *)
UnrealizedPnl(p, price) ==
    SumFunctionOnSet([i \in DOMAIN p.positions |-> PositionPnl(p.positions[i], price[i])],
                     DOMAIN p.positions)

TotalPnl(p, price) == p.realizedPnl + UnrealizedPnl(p, price)

------------------------------------------------------------------------------
(* Properties.                                                             *)

(* What a position is worth: its cost, where no price is known.            *)
WorthOf(position, price) ==
    position.size * (IF price = Unpriced THEN position.entryPrice ELSE price)

Worth(p, price) ==
    p.balance + SumFunctionOnSet([i \in DOMAIN p.positions |-> WorthOf(p.positions[i], price[i])],
                                 DOMAIN p.positions)

Quotes(p) == [DOMAIN p.positions -> Prices \cup {Unpriced}]

(* No trade makes or loses money.  Whatever the tickers answer, the total  *)
(* profit that a user is shown is what the account is worth more than the  *)
(* start, in whatever order stale and fresh portfolios were saved over one *)
(* another, unless a save was cut.                                         *)
BooksBalance ==
    \A u \in User \ torn : \A price \in Quotes(saved[u]) :
        Worth(saved[u], price) = Start + TotalPnl(saved[u], price)

(* A trade that was saved stays, unless a later answer of the agent went   *)
(* by a portfolio that it had loaded before: /trade undoes nothing.        *)
TradesLostToAgentOnly ==
    \A i \in DOMAIN saves :
        LET r == saves[i]
            u == job[r].user
        IN  u \notin torn /\ r \notin saved[u].trades =>
               \E j \in i + 1..Len(saves) :
                  LET q == saves[j]
                  IN  job[q].kind = "ask" /\ job[q].user = u /\ r \notin job[q].basis.trades

(* A mutant: one of the two is enough.                                     *)
EitherUntouched(p) == p.positions = <<>> \/ p.balance = Start

(* POST /trading/session answers 201, not 409.                             *)
StartsSession(p) == p.positions = <<>> /\ p.balance = Start

(* A session starts only where nothing was gained or lost by trading so    *)
(* far, though the route does not look at the profit.                      *)
SessionStartsEven ==
    \A u \in User \ torn : StartsSession(saved[u]) => saved[u].realizedPnl = 0
==============================================================================
