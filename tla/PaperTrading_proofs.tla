-------------------------- MODULE PaperTrading_proofs --------------------------
(***************************************************************************)
(* Theorems about paper trading, for any users, pairs, prices and number   *)
(* of requests.                                                            *)
(***************************************************************************)
EXTENDS PaperTrading, SumLemmas, SequenceTheorems

(* A set of naturals has a least element.                                  *)
LEMMA MinIsElement == ASSUME NEW S \in SUBSET Nat, S # {} PROVE Min(S) \in S
<1> DEFINE R == OpToRel(<, Nat)
<1>1. IsWellFoundedOn(R, Nat)
    BY NatLessThanWellFounded
<1>2. ASSUME NEW x \in Nat, NEW y \in Nat, y < x PROVE <<y, x>> \in R
    BY <1>2 DEF OpToRel
<1> HIDE DEF R
<1>3. PICK x \in S : \A y \in S : ~(<<y, x>> \in R)
    BY <1>1, WFMin
<1>4. ASSUME NEW y \in S PROVE x <= y
  <2>1. x \in Nat /\ y \in Nat
      OBVIOUS
  <2>2. ~(y < x)
      BY <1>2, <1>3, <2>1, Zenon
  <2>3. QED
      BY <2>1, <2>2
<1>5. QED
    BY <1>4 DEF Min

(* Positions stay positions where one is added, reduced or dropped.        *)
LEMMA BoughtIsPortfolio ==
    ASSUME NEW p \in Portfolio, NEW pair \in Pair, NEW price \in Prices, NEW size \in Nat \ {0},
           Within(size * price, p.balance)
    PROVE  Bought(p, pair, size, price) \in Portfolio /\ Bought(p, pair, size, price).trades = p.trades
<1>1. [pair |-> pair, size |-> size, entryPrice |-> price] \in Position
    BY DEF Position
<1>2. p.positions \in Seq(Position) /\ p.balance \in Nat
    BY DEF Portfolio
<1>3. Append(p.positions, [pair |-> pair, size |-> size, entryPrice |-> price]) \in Seq(Position)
    BY <1>1, <1>2, AppendProperties
<1>4. size * price \in Nat
    BY TradingAssumption
<1>5. p.balance - size * price \in Nat
    BY <1>2, <1>4 DEF Within
<1>6. QED
    BY <1>3, <1>5 DEF Bought, Portfolio

LEMMA ReducedArePositions ==
    ASSUME NEW positions \in Seq(Position), NEW i \in DOMAIN positions,
           NEW size \in 1..positions[i].size
    PROVE  Reduced(positions, i, size) \in Seq(Position)
<1>1. i \in 1..Len(positions) /\ Len(positions) \in Nat /\ positions[i] \in Position
    BY LenProperties, ElementOfSeq
<1>2. CASE size < positions[i].size
  <2> DEFINE rest == [positions[i] EXCEPT !.size = @ - size]
  <2>1. positions[i].size - size \in Nat \ {0}
      BY <1>1, <1>2 DEF Position
  <2>2. rest \in Position
      BY <1>1, <2>1 DEF Position
  <2>3. [positions EXCEPT ![i].size = @ - size] = [positions EXCEPT ![i] = rest]
      OBVIOUS
  <2> HIDE DEF rest
  <2>4. [positions EXCEPT ![i] = rest] \in Seq(Position)
      BY <1>1, <2>2, ExceptSeq
  <2>5. QED
      BY <1>2, <2>3, <2>4 DEF Reduced
<1>3. CASE ~(size < positions[i].size)
  <2>1. \A j \in 1..i - 1 : positions[j] \in Position
      BY <1>1, ElementOfSeq
  <2>2. \A j \in i + 1..Len(positions) : positions[j] \in Position
      BY <1>1, ElementOfSeq
  <2>3. i - 1 \in Int /\ i + 1 \in Int /\ 1 \in Int /\ Len(positions) \in Int
      BY <1>1
  <2>4. SubSeq(positions, 1, i - 1) \in Seq(Position)
      BY <2>1, <2>3, SubSeqProperties
  <2>5. SubSeq(positions, i + 1, Len(positions)) \in Seq(Position)
      BY <2>2, <2>3, SubSeqProperties
  <2>6. Without(positions, i) \in Seq(Position)
      BY <2>4, <2>5, ConcatProperties DEF Without
  <2>7. QED
      BY <1>3, <2>6 DEF Reduced
<1>4. QED
    BY <1>2, <1>3

LEMMA SoldIsPortfolio ==
    ASSUME NEW p \in Portfolio, NEW pair, NEW price \in Prices,
           NEW size \in 1..p.positions[FirstOf(p, pair)].size,
           \E i \in DOMAIN p.positions : p.positions[i].pair = pair
    PROVE  Sold(p, pair, size, price) \in Portfolio /\ Sold(p, pair, size, price).trades = p.trades
<1> DEFINE i == FirstOf(p, pair)
           held == {k \in DOMAIN p.positions : p.positions[k].pair = pair}
<1>1. p.positions \in Seq(Position) /\ p.balance \in Nat /\ p.realizedPnl \in Int
    BY DEF Portfolio
<1>2. held \in SUBSET Nat /\ held # {}
    BY <1>1, LenProperties
<1>3. i \in DOMAIN p.positions
    BY <1>2, MinIsElement DEF FirstOf
<1>4. p.positions[i] \in Position
    BY <1>1, <1>3, LenProperties, ElementOfSeq
<1>5. Reduced(p.positions, i, size) \in Seq(Position)
    BY <1>1, <1>3, ReducedArePositions
<1> HIDE DEF i
<1>6. size \in Nat /\ price \in Nat /\ p.positions[i].entryPrice \in Nat
  <2>1. size \in 1..p.positions[i].size
      BY DEF i
  <2>2. p.positions[i].size \in Nat /\ p.positions[i].entryPrice \in Prices
      BY <1>4 DEF Position
  <2>3. size \in Nat
      BY <2>1, <2>2
  <2>4. Prices \subseteq Nat
      BY TradingAssumption
  <2>5. QED
      BY <2>2, <2>3, <2>4
<1>7. size * price \in Nat /\ size * (price - p.positions[i].entryPrice) \in Int
    BY <1>6
<1>8. /\ p.balance + size * price \in Nat
      /\ p.realizedPnl + size * (price - p.positions[i].entryPrice) \in Int
    BY <1>1, <1>7
<1>9. Sold(p, pair, size, price) =
          [p EXCEPT !.balance = @ + size * price,
                    !.realizedPnl = @ + size * (price - p.positions[i].entryPrice),
                    !.positions = Reduced(@, i, size)]
    BY DEF Sold, i
<1>10. QED
    BY <1>5, <1>8, <1>9 DEF Portfolio

(* Whatever a trade makes of a portfolio is one, of the trades so far.     *)
LEMMA OutcomesArePortfolios ==
    ASSUME NEW p \in Portfolio, NEW q \in Outcomes(p)
    PROVE  q \in Portfolio /\ q.trades = p.trades
<1>1. PICK price \in Prices : q \in Purchases(p, price) \cup Sales(p, price)
    BY DEF Outcomes
<1>2. CASE q \in Purchases(p, price)
  <2>1. PICK pair \in Pair, size \in 1..p.balance :
            Within(size * price, p.balance) /\ q = Bought(p, pair, size, price)
      BY <1>2 DEF Purchases
  <2>2. size \in Nat \ {0}
      OBVIOUS
  <2>3. QED
      BY <2>1, <2>2, BoughtIsPortfolio
<1>3. CASE q \in Sales(p, price)
  <2>1. PICK pair \in {p.positions[i].pair : i \in DOMAIN p.positions} :
            \E size \in 1..p.positions[FirstOf(p, pair)].size : q = Sold(p, pair, size, price)
      BY <1>3 DEF Sales
  <2>2. PICK size \in 1..p.positions[FirstOf(p, pair)].size : q = Sold(p, pair, size, price)
      BY <2>1
  <2>3. QED
      BY <2>1, <2>2, SoldIsPortfolio
<1>4. QED
    BY <1>1, <1>2, <1>3

------------------------------------------------------------------------------
(* The invariant.                                                          *)

(* A request under way, and one that saved, knows what it is about.        *)
TradingInv ==
    /\ TradingTypeOK
    /\ \A r \in Request : stage[r] \in InProgress => job[r] \in Job
    /\ \A i \in DOMAIN saves : job[saves[i]] \in Job /\ stage[saves[i]] \in Answered

LEMMA TradingInitInv == TradingInit => TradingInv
<1> SUFFICES ASSUME TradingInit PROVE TradingInv
    OBVIOUS
<1>1. Untraded \in Portfolio
    BY TradingAssumption, EmptySeq DEF Untraded, Portfolio
<1>2. <<>> \in Seq(Request) /\ DOMAIN saves = {}
    BY EmptySeq DEF TradingInit
<1>3. QED
    BY <1>1, <1>2 DEF TradingInit, TradingInv, TradingTypeOK, InProgress

(* What a request saves is a portfolio, of its basis's trades and its own. *)
LEMMA ResultsArePortfolios ==
    ASSUME TradingInv, NEW r \in Request, stage[r] \in InProgress, NEW q \in Results(r)
    PROVE  /\ q \in Portfolio
           /\ q.trades = Basis(r).trades \cup {r}
<1>1. job[r] \in Job
    BY DEF TradingInv
<1>2. Basis(r) \in Portfolio
    BY <1>1 DEF Basis, Load, Job, TradingInv, TradingTypeOK
<1>3. PICK p \in Outcomes(Basis(r)) : q = [p EXCEPT !.trades = @ \cup {r}]
    BY DEF Results
<1>4. p \in Portfolio /\ p.trades = Basis(r).trades
    BY <1>2, OutcomesArePortfolios
<1>5. QED
    BY <1>3, <1>4 DEF Portfolio

(* A step that saves nothing.                                              *)
LEMMA UnsavedKeepsInv ==
    ASSUME TradingInv, UNCHANGED <<saved, torn, saves>>,
           stage' \in [Request -> {"idle"} \cup InProgress \cup Answered],
           job' \in [Request -> Job \cup {NoJob}],
           \A r \in Request : /\ stage'[r] \in InProgress => job'[r] \in Job
                              /\ stage[r] \in Answered => UNCHANGED <<stage[r], job[r]>>
    PROVE  TradingInv'
<1>1. TradingTypeOK'
    BY DEF TradingInv, TradingTypeOK
<1>2. \A i \in DOMAIN saves : saves[i] \in Request
    BY LenProperties, ElementOfSeq DEF TradingInv, TradingTypeOK
<1>3. QED
    BY <1>1, <1>2 DEF TradingInv

LEMMA LoadedIsJob ==
    ASSUME TradingInv, NEW u \in User
    PROVE  /\ [user |-> u, kind |-> "ask", basis |-> Load(u)] \in Job
           /\ [user |-> u, kind |-> "trade", basis |-> Untraded] \in Job
<1>1. Untraded \in Portfolio
    BY TradingAssumption, EmptySeq DEF Untraded, Portfolio
<1>2. QED
    BY <1>1 DEF TradingInv, TradingTypeOK, Load, Job

Unsaved(r) ==
    \/ \E u \in User : Ask(r, u) \/ Trade(r, u)
    \/ Propose(r)
    \/ Decline(r)
    \/ ReasoningFails(r)
    \/ TickerFails(r)

LEMMA UnsavedStepKeepsInv ==
    ASSUME TradingInv, NEW r \in Request, Unsaved(r)
    PROVE  TradingInv'
<1> USE DEF TradingInv, TradingTypeOK, Advance, InProgress, Answered
<1>1. ASSUME NEW u \in User, Ask(r, u) \/ Trade(r, u)
      PROVE  TradingInv'
  <2>1. PICK j \in Job : job' = [job EXCEPT ![r] = j]
      BY <1>1, LoadedIsJob DEF Ask, Trade
  <2>2. /\ stage[r] = "idle" /\ UNCHANGED <<saved, torn, saves>>
        /\ stage' \in [Request -> {"idle"} \cup InProgress \cup Answered]
        /\ \A q \in Request \ {r} : UNCHANGED stage[q]
      BY <1>1 DEF Ask, Trade
  <2>3. QED
      BY <2>1, <2>2, UnsavedKeepsInv
<1>2. CASE Propose(r) \/ Decline(r) \/ ReasoningFails(r) \/ TickerFails(r)
  <2>1. /\ UNCHANGED <<job, saved, torn, saves>> /\ stage[r] \in InProgress
        /\ stage' \in [Request -> {"idle"} \cup InProgress \cup Answered]
        /\ \A q \in Request \ {r} : UNCHANGED stage[q]
      BY <1>2 DEF Propose, Decline, ReasoningFails, TickerFails
  <2>2. QED
      BY <2>1, UnsavedKeepsInv
<1>3. QED
    BY <1>1, <1>2 DEF Unsaved

LEMMA KilledIsAnswered ==
    ASSUME TradingInv
    PROVE  /\ Killed \in [Request -> {"idle"} \cup InProgress \cup Answered]
           /\ \A r \in Request : /\ Killed[r] \notin InProgress
                                 /\ stage[r] \in InProgress => Killed[r] \in Answered
                                 /\ stage[r] \in Answered => Killed[r] = stage[r]
    BY DEF TradingInv, TradingTypeOK, Killed, InProgress, Answered

LEMMA CrashKeepsInv == ASSUME TradingInv, Crash PROVE TradingInv'
    BY KilledIsAnswered, UnsavedKeepsInv DEF TradingInv, TradingTypeOK, Crash

(* Of a step that saves: r's portfolio is its user's, whatever of it is    *)
(* left, and r is answered.                                                *)
Saves(r) ==
    LET u == job[r].user
    IN  /\ stage[r] = "pricing"
        /\ \E p \in Results(r), left \in Seq(Position) :
              /\ saved' = [saved EXCEPT ![u] = [p EXCEPT !.positions = left]]
              /\ torn' = torn \/ torn' = torn \cup {u}
        /\ saves' = Append(saves, r)
        /\ stage' \in [Request -> {"idle"} \cup InProgress \cup Answered]
        /\ stage'[r] \in Answered
        /\ \A q \in Request : /\ stage'[q] \in InProgress => stage[q] \in InProgress
                              /\ stage[q] \in Answered => UNCHANGED stage[q]
        /\ UNCHANGED job

LEMMA ExecuteSaves == ASSUME TradingInv, NEW r \in Request, Save(r) PROVE Saves(r)
<1> USE DEF TradingInv, TradingTypeOK, Advance, InProgress, Answered
<1>1. PICK p \in Results(r) : saved' = [saved EXCEPT ![job[r].user] = p]
    BY DEF Save
<1>2. stage[r] = "pricing"
    BY DEF Save
<1>3. p \in Portfolio
    BY <1>2, ResultsArePortfolios
<1>4. p.positions \in Seq(Position) /\ p = [p EXCEPT !.positions = p.positions]
    BY <1>3 DEF Portfolio
<1>5. QED
    BY <1>1, <1>2, <1>4 DEF Save, Saves

LEMMA CutSaveSaves == ASSUME TradingInv, NEW r \in Request, CutSave(r) PROVE Saves(r)
<1> USE DEF TradingInv, TradingTypeOK
<1> DEFINE u == job[r].user
<1>1. stage[r] = "pricing" /\ job[r] \in Job
    BY DEF CutSave, InProgress
<1>2. PICK p \in Results(r) :
          \E left \in {saved[u].positions} \cup {SubSeq(p.positions, 1, n) : n \in 0..Len(p.positions)} :
              /\ saved' = [saved EXCEPT ![u] = [p EXCEPT !.positions = left]]
              /\ torn' = IF left = p.positions THEN torn ELSE torn \cup {u}
    BY DEF CutSave
<1>3. PICK left \in {saved[u].positions} \cup {SubSeq(p.positions, 1, n) : n \in 0..Len(p.positions)} :
          /\ saved' = [saved EXCEPT ![u] = [p EXCEPT !.positions = left]]
          /\ torn' = IF left = p.positions THEN torn ELSE torn \cup {u}
    BY <1>2
<1>4. p \in Portfolio
    BY <1>1, ResultsArePortfolios DEF InProgress
<1>5. saved[u].positions \in Seq(Position)
    BY <1>1 DEF Job, Portfolio
<1>6. ASSUME NEW n \in 0..Len(p.positions)
      PROVE  SubSeq(p.positions, 1, n) \in Seq(Position)
  <2>1. p.positions \in Seq(Position)
      BY <1>4 DEF Portfolio
  <2>2. Len(p.positions) \in Nat
      BY <2>1, LenProperties
  <2>3. 1 \in Int /\ n \in Int /\ \A k \in 1..n : p.positions[k] \in Position
      BY <2>1, <2>2, ElementOfSeq
  <2>4. QED
      BY <2>3, SubSeqProperties
<1>7. left \in Seq(Position)
    BY <1>5, <1>6
<1>8. torn' = torn \/ torn' = torn \cup {u}
    BY <1>3
<1>9. stage' \in {Killed, [stage EXCEPT ![r] = "failed"]} /\ saves' = Append(saves, r) /\ UNCHANGED job
    BY DEF CutSave
<1>10. /\ stage' \in [Request -> {"idle"} \cup InProgress \cup Answered]
       /\ stage'[r] \in Answered
       /\ \A q \in Request : /\ stage'[q] \in InProgress => stage[q] \in InProgress
                             /\ stage[q] \in Answered => UNCHANGED stage[q]
    BY <1>1, <1>9, KilledIsAnswered DEF InProgress, Answered
<1>11. QED
    BY <1>1, <1>3, <1>7, <1>8, <1>9, <1>10 DEF Saves

LEMMA SavesKeepsInv ==
    ASSUME TradingInv, NEW r \in Request, Saves(r)
    PROVE  TradingInv'
<1> DEFINE u == job[r].user
<1>1. stage[r] = "pricing" /\ job[r] \in Job /\ u \in User
    BY DEF Saves, TradingInv, InProgress, Job
<1>2. PICK p \in Results(r), left \in Seq(Position) :
          /\ saved' = [saved EXCEPT ![u] = [p EXCEPT !.positions = left]]
          /\ torn' = torn \/ torn' = torn \cup {u}
    BY DEF Saves
<1>3. p \in Portfolio
    BY <1>1, ResultsArePortfolios DEF InProgress
<1>4. [p EXCEPT !.positions = left] \in Portfolio
    BY <1>3 DEF Portfolio
<1>5. saved' \in [User -> Portfolio] /\ torn' \subseteq User
    BY <1>1, <1>2, <1>4 DEF TradingInv, TradingTypeOK
<1>6. /\ saves' \in Seq(Request) /\ saves \in Seq(Request) /\ Len(saves) \in Nat
      /\ Len(saves') = Len(saves) + 1
      /\ \A i \in 1..Len(saves) : saves'[i] = saves[i] /\ saves[i] \in Request
      /\ saves'[Len(saves) + 1] = r
    BY AppendProperties, LenProperties, ElementOfSeq DEF Saves, TradingInv, TradingTypeOK
<1>7. TradingTypeOK'
    BY <1>5, <1>6 DEF Saves, TradingInv, TradingTypeOK
<1>8. \A q \in Request : stage'[q] \in InProgress => job'[q] \in Job
    BY DEF Saves, TradingInv
<1>9. ASSUME NEW i \in DOMAIN saves'
      PROVE  job'[saves'[i]] \in Job /\ stage'[saves'[i]] \in Answered
  <2>1. i \in 1..Len(saves) + 1 /\ DOMAIN saves = 1..Len(saves)
      BY <1>6, LenProperties
  <2>2. CASE i \in 1..Len(saves)
      BY <1>6, <2>1, <2>2 DEF Saves, TradingInv
  <2>3. CASE i = Len(saves) + 1
      BY <1>1, <1>6, <2>3 DEF Saves
  <2>4. QED
      BY <1>6, <2>1, <2>2, <2>3
<1>10. QED
    BY <1>7, <1>8, <1>9 DEF TradingInv

LEMMA TradingInvInductive == TradingInv /\ [TradingNext]_vars => TradingInv'
<1> SUFFICES ASSUME TradingInv, [TradingNext]_vars PROVE TradingInv'
    OBVIOUS
<1>1. ASSUME NEW r \in Request, Save(r) \/ CutSave(r) PROVE TradingInv'
    BY <1>1, ExecuteSaves, CutSaveSaves, SavesKeepsInv
<1>2. CASE UNCHANGED vars
    BY <1>2 DEF TradingInv, TradingTypeOK, vars
<1>3. QED
    BY <1>1, <1>2, UnsavedStepKeepsInv, CrashKeepsInv DEF TradingNext, ExecuteProposal, ExecuteTrade, Unsaved

LEMMA TradingInvHolds == TradingSpec => []TradingInv
    BY TradingInitInv, TradingInvInductive, PTL DEF TradingSpec

(* Type correctness: no balance is ever negative, no position empty.       *)
THEOREM TradingTypeCorrect == TradingSpec => []TradingTypeOK
<1>1. TradingInv => TradingTypeOK
    BY DEF TradingInv
<1>2. QED
    BY <1>1, TradingInvHolds, PTL

------------------------------------------------------------------------------
(* Which trades may be lost.                                               *)

OvertakenBy(r, q) ==
    job[q].kind = "ask" /\ job[q].user = job[r].user /\ r \notin job[q].basis.trades

Accounted(i) ==
    LET r == saves[i]
    IN  job[r].user \notin torn /\ r \notin saved[job[r].user].trades =>
            \E j \in i + 1..Len(saves) : OvertakenBy(r, saves[j])

(* A step that saves nothing loses nothing.                                *)
LEMMA UnsavedKeepsTrades ==
    ASSUME TradingInv, \A i \in DOMAIN saves : Accounted(i), UNCHANGED <<saved, torn, saves>>,
           \A q \in Request : stage[q] \in Answered => UNCHANGED job[q]
    PROVE  (\A i \in DOMAIN saves : Accounted(i))'
<1>1. /\ DOMAIN saves = 1..Len(saves) /\ Len(saves) \in Nat
      /\ \A k \in 1..Len(saves) : saves[k] \in Request /\ stage[saves[k]] \in Answered
    BY LenProperties, ElementOfSeq DEF TradingInv, TradingTypeOK
<1>2. \A k \in 1..Len(saves) : UNCHANGED job[saves[k]]
    BY <1>1
<1>3. ASSUME NEW i \in 1..Len(saves), NEW j \in i + 1..Len(saves), OvertakenBy(saves[i], saves[j])
      PROVE  OvertakenBy(saves[i], saves[j])'
  <2>1. j \in 1..Len(saves)
      BY <1>1
  <2>2. QED
      BY <1>2, <1>3, <2>1 DEF OvertakenBy
<1>4. QED
    BY <1>1, <1>2, <1>3 DEF Accounted

(* A request that saves keeps the trades of its basis and adds its own; it *)
(* loses one only where its basis was loaded before.                       *)
LEMMA SavesKeepsTrades ==
    ASSUME TradingInv, \A i \in DOMAIN saves : Accounted(i), NEW q \in Request, Saves(q)
    PROVE  (\A i \in DOMAIN saves : Accounted(i))'
<1> DEFINE u == job[q].user
           n == Len(saves)
<1>1. /\ saves' \in Seq(Request) /\ n \in Nat /\ Len(saves') = n + 1
      /\ DOMAIN saves = 1..n /\ DOMAIN saves' = 1..n + 1
      /\ \A k \in 1..n : saves'[k] = saves[k] /\ saves[k] \in Request
      /\ saves'[n + 1] = q
    BY AppendProperties, LenProperties, ElementOfSeq DEF Saves, TradingInv, TradingTypeOK
<1>2. PICK p \in Results(q), left \in Seq(Position) :
          /\ saved' = [saved EXCEPT ![u] = [p EXCEPT !.positions = left]]
          /\ torn' = torn \/ torn' = torn \cup {u}
    BY DEF Saves
<1>3. /\ stage[q] = "pricing" /\ job[q] \in Job /\ u \in User /\ UNCHANGED job
    BY DEF Saves, TradingInv, InProgress, Job
<1>4. p \in Portfolio /\ p.trades = Basis(q).trades \cup {q}
    BY <1>3, ResultsArePortfolios DEF InProgress
<1>5. /\ saved'[u].trades = Basis(q).trades \cup {q}
      /\ \A w \in User \ {u} : saved'[w] = saved[w]
    BY <1>2, <1>3, <1>4 DEF TradingInv, TradingTypeOK, Portfolio
<1>6. torn \subseteq torn'
    BY <1>2
<1> HIDE DEF n
<1>7. ASSUME NEW i \in 1..n PROVE Accounted(i)'
  <2> DEFINE r == saves[i]
  <2>1. r \in Request /\ job[r] \in Job /\ job[r].user \in User /\ saves'[i] = r
      BY <1>1 DEF TradingInv, Job
  <2>2. ASSUME NEW j \in i + 1..n + 1, OvertakenBy(r, saves'[j])
        PROVE  Accounted(i)'
      BY <1>1, <1>3, <2>1, <2>2 DEF Accounted, OvertakenBy
  <2>3. ASSUME NEW j \in i + 1..n, OvertakenBy(r, saves[j])
        PROVE  Accounted(i)'
    <3>1. j \in i + 1..n + 1 /\ saves'[j] = saves[j]
        BY <1>1
    <3>2. QED
        BY <2>2, <2>3, <3>1
  <2>4. CASE r \notin saved[job[r].user].trades
    <3>1. CASE job[r].user \in torn
        BY <1>3, <1>6, <2>1, <3>1 DEF Accounted
    <3>2. CASE job[r].user \notin torn
        BY <1>1, <2>3, <2>4, <3>2 DEF Accounted, n
    <3>3. QED
        BY <3>1, <3>2
  <2>5. CASE r \in saved[job[r].user].trades
    <3>1. CASE job[r].user # u
        BY <1>3, <1>5, <2>1, <2>5, <3>1 DEF Accounted
    <3>2. CASE job[r].user = u /\ r \in Basis(q).trades
        BY <1>3, <1>5, <2>1, <3>2 DEF Accounted
    <3>3. CASE job[r].user = u /\ r \notin Basis(q).trades
      <4>1. job[q].kind = "ask" /\ r \notin job[q].basis.trades
          BY <1>3, <2>5, <3>3 DEF Basis, Load, Job
      <4>2. n + 1 \in i + 1..n + 1 /\ OvertakenBy(r, saves'[n + 1])
          BY <1>1, <3>3, <4>1 DEF OvertakenBy
      <4>3. QED
          BY <2>2, <4>2
    <3>4. QED
        BY <3>1, <3>2, <3>3
  <2>6. QED
      BY <2>4, <2>5
<1>8. ASSUME NEW i, i = n + 1 PROVE Accounted(i)'
    BY <1>1, <1>3, <1>5, <1>8 DEF Accounted
<1>9. QED
    BY <1>1, <1>7, <1>8

(* A saved trade is lost to a stale answer of the agent, if at all.        *)
THEOREM LostTradesAreAccounted == TradingSpec => []TradesLostToAgentOnly
<1> DEFINE Lost == \A i \in DOMAIN saves : Accounted(i)
<1>1. TradingInit => Lost
    BY EmptySeq, LenProperties DEF TradingInit
<1>2. ASSUME TradingInv, Lost, [TradingNext]_vars PROVE Lost'
  <2>1. ASSUME NEW r \in Request, Save(r) \/ CutSave(r) PROVE Lost'
    <3>1. Saves(r)
        BY <1>2, <2>1, ExecuteSaves, CutSaveSaves
    <3>2. QED
        BY <1>2, <3>1, SavesKeepsTrades
  <2>2. ASSUME NEW r \in Request, Unsaved(r)
        PROVE  /\ UNCHANGED <<saved, torn, saves>>
               /\ \A q \in Request : stage[q] \in Answered => UNCHANGED job[q]
      BY <1>2, <2>2 DEF Unsaved, Ask, Trade, Propose, Decline, ReasoningFails, TickerFails, Advance,
                        Answered, TradingInv, TradingTypeOK
  <2>3. Crash \/ UNCHANGED vars => UNCHANGED <<saved, torn, saves, job>>
      BY DEF Crash, vars
  <2>4. QED
      BY <1>2, <2>1, <2>2, <2>3, UnsavedKeepsTrades DEF TradingNext, ExecuteProposal, ExecuteTrade, Unsaved
<1>3. Lost => TradesLostToAgentOnly
    BY DEF Accounted, OvertakenBy, TradesLostToAgentOnly
<1> HIDE DEF Lost
<1>4. QED
    BY <1>1, <1>2, <1>3, TradingInvHolds, PTL DEF TradingSpec

------------------------------------------------------------------------------
(* The books.                                                              *)

(* What the open positions have cost: the books without any ticker.        *)
CostOf(position) == position.size * position.entryPrice

Cost(positions) ==
    SumFunctionOnSet([i \in DOMAIN positions |-> CostOf(positions[i])], DOMAIN positions)

LEMMA CostOfPosition == ASSUME NEW q \in Position PROVE CostOf(q) \in Nat
<1>1. q.size \in Nat /\ q.entryPrice \in Nat
    BY TradingAssumption DEF Position
<1>2. QED
    BY <1>1 DEF CostOf

(* What the costs of a sequence of positions are.                          *)
LEMMA CostsOfPositions ==
    ASSUME NEW positions \in Seq(Position)
    PROVE  /\ IsFiniteSet(DOMAIN positions)
           /\ DOMAIN positions = 1..Len(positions) /\ Len(positions) \in Nat
           /\ \A i \in DOMAIN positions :
                 positions[i] \in Position /\ CostOf(positions[i]) \in Nat
           /\ Cost(positions) \in Nat
<1>1. DOMAIN positions = 1..Len(positions) /\ Len(positions) \in Nat
    BY LenProperties
<1>2. IsFiniteSet(DOMAIN positions)
    BY <1>1, FS_Interval
<1>3. ASSUME NEW i \in DOMAIN positions
      PROVE  positions[i] \in Position /\ CostOf(positions[i]) \in Nat
  <2>1. positions[i] \in Position
      BY <1>1, <1>3, ElementOfSeq
  <2>2. QED
      BY <2>1, CostOfPosition
<1>4. Cost(positions) \in Nat
  <2> DEFINE f == [i \in DOMAIN positions |-> CostOf(positions[i])]
  <2>1. \A i \in DOMAIN positions : f[i] \in Nat
      BY <1>3
  <2> HIDE DEF f
  <2>2. SumFunctionOnSet(f, DOMAIN positions) \in Nat
      BY <1>2, <2>1, SumNat
  <2>3. QED
      BY <2>2 DEF Cost, f
<1>5. QED
    BY <1>1, <1>2, <1>3, <1>4

(* The cost of all positions, by one of them.                              *)
LEMMA CostByOne ==
    ASSUME NEW positions \in Seq(Position), NEW i \in DOMAIN positions
    PROVE  Cost(positions) = CostOf(positions[i])
               + SumFunctionOnSet([k \in DOMAIN positions |-> CostOf(positions[k])],
                                  DOMAIN positions \ {i})
<1> DEFINE f == [k \in DOMAIN positions |-> CostOf(positions[k])]
<1>1. IsFiniteSet(DOMAIN positions) /\ \A k \in DOMAIN positions : f[k] \in Int
    BY CostsOfPositions
<1>2. f[i] = CostOf(positions[i])
    OBVIOUS
<1> HIDE DEF f
<1>3. SumFunctionOnSet(f, DOMAIN positions) = f[i] + SumFunctionOnSet(f, DOMAIN positions \ {i})
    BY <1>1, SumRemove
<1>4. QED
    BY <1>2, <1>3 DEF Cost, f

LEMMA CostAppend ==
    ASSUME NEW positions \in Seq(Position), NEW q \in Position
    PROVE  Cost(Append(positions, q)) = Cost(positions) + CostOf(q)
<1> DEFINE more == Append(positions, q)
           n == Len(positions)
           f == [k \in DOMAIN positions |-> CostOf(positions[k])]
           g == [k \in DOMAIN more |-> CostOf(more[k])]
<1>1. /\ more \in Seq(Position) /\ Len(more) = n + 1
      /\ \A k \in 1..n : more[k] = positions[k]
      /\ more[n + 1] = q
    BY AppendProperties
<1>2. /\ IsFiniteSet(DOMAIN positions) /\ DOMAIN positions = 1..n /\ n \in Nat
      /\ DOMAIN more = 1..n + 1
    BY <1>1, CostsOfPositions
<1>3. Cost(more) = CostOf(more[n + 1]) + SumFunctionOnSet(g, DOMAIN more \ {n + 1})
  <2>1. n + 1 \in DOMAIN more
      BY <1>2
  <2> HIDE DEF more, n
  <2>2. QED
      BY <1>1, <2>1, CostByOne
<1>4. DOMAIN more \ {n + 1} = DOMAIN positions
    BY <1>2
<1>5. \A k \in DOMAIN positions : g[k] = f[k]
    BY <1>1, <1>2
<1>6. Cost(positions) = SumFunctionOnSet(f, DOMAIN positions)
    BY DEF Cost
<1>7. SumFunctionOnSet(g, DOMAIN positions) = SumFunctionOnSet(f, DOMAIN positions)
  <2> HIDE DEF f, g
  <2>1. QED
      BY <1>2, <1>5, SumEqual
<1>8. Cost(positions) \in Nat /\ CostOf(q) \in Nat
    BY CostsOfPositions, CostOfPosition
<1>9. Cost(more) = CostOf(q) + Cost(positions)
  <2> HIDE DEF f, g, more, n
  <2>1. QED
      BY <1>1, <1>3, <1>4, <1>6, <1>7, Zenon
<1>10. QED
    BY <1>8, <1>9

(* A position sold in part is worth so much less.                          *)
LEMMA CostReplaced ==
    ASSUME NEW positions \in Seq(Position), NEW i \in DOMAIN positions, NEW q \in Position
    PROVE  Cost([positions EXCEPT ![i] = q]) = Cost(positions) - CostOf(positions[i]) + CostOf(q)
<1> DEFINE new == [positions EXCEPT ![i] = q]
           rest == DOMAIN positions \ {i}
           f == [k \in DOMAIN positions |-> CostOf(positions[k])]
           g == [k \in DOMAIN new |-> CostOf(new[k])]
<1>1. i \in 1..Len(positions)
    BY CostsOfPositions
<1>2. new \in Seq(Position) /\ DOMAIN new = DOMAIN positions /\ new[i] = q
    BY <1>1, ExceptSeq
<1>3. Cost(new) = CostOf(q) + SumFunctionOnSet(g, rest)
  <2> HIDE DEF new
  <2>1. Cost(new) = CostOf(new[i]) + SumFunctionOnSet(g, DOMAIN new \ {i})
      BY <1>2, CostByOne
  <2> HIDE DEF g
  <2>2. QED
      BY <1>2, <2>1, Zenon
<1>4. Cost(positions) = CostOf(positions[i]) + SumFunctionOnSet(f, rest)
    BY CostByOne
<1>5. IsFiniteSet(rest) /\ \A k \in rest : f[k] \in Int
  <2>1. rest \in SUBSET DOMAIN positions /\ IsFiniteSet(DOMAIN positions)
      BY CostsOfPositions
  <2>2. IsFiniteSet(rest)
      BY <2>1, FS_Subset
  <2>3. QED
      BY <2>2, CostsOfPositions
<1>6. \A k \in rest : g[k] = f[k]
    BY <1>2
<1> HIDE DEF f, g, rest, new
<1>7. SumFunctionOnSet(g, rest) = SumFunctionOnSet(f, rest) /\ SumFunctionOnSet(f, rest) \in Int
    BY <1>5, <1>6, SumEqual, SumInt
<1>8. CostOf(q) \in Nat /\ CostOf(positions[i]) \in Nat
    BY CostsOfPositions, CostOfPosition
<1>9. Cost(new) = Cost(positions) - CostOf(positions[i]) + CostOf(q)
    BY <1>3, <1>4, <1>7, <1>8
<1>10. QED
    BY <1>9 DEF new

(* A position dropped is worth nothing.                                    *)
LEMMA CostWithout ==
    ASSUME NEW positions \in Seq(Position), NEW i \in DOMAIN positions
    PROVE  Cost(Without(positions, i)) = Cost(positions) - CostOf(positions[i])
<1> DEFINE n == Len(positions)
           left == SubSeq(positions, 1, i - 1)
           right == SubSeq(positions, i + 1, n)
           kept == left \o right
           rest == DOMAIN positions \ {i}
           h == [k \in DOMAIN kept |-> IF k < i THEN k ELSE k + 1]
           f == [k \in DOMAIN kept |-> CostOf(kept[k])]
           g == [k \in DOMAIN positions |-> CostOf(positions[k])]
<1>1. i \in 1..n /\ n \in Nat /\ DOMAIN positions = 1..n /\ \A k \in 1..n : positions[k] \in Position
    BY CostsOfPositions
<1>2. /\ left \in Seq(Position) /\ Len(left) = i - 1
      /\ \A k \in 1..i - 1 : left[k] = positions[k]
  <2>1. \A k \in 1..i - 1 : positions[k] \in Position
      BY <1>1
  <2>2. 1 \in Int /\ i - 1 \in Int /\ i - 1 >= 0
      BY <1>1
  <2>3. QED
      BY <2>1, <2>2, SubSeqProperties
<1>3. /\ right \in Seq(Position) /\ Len(right) = n - i
      /\ \A k \in 1..n - i : right[k] = positions[i + k]
  <2>1. \A k \in i + 1..n : positions[k] \in Position
      BY <1>1
  <2>2. i + 1 \in Int /\ n \in Int
      BY <1>1
  <2>3. QED
      BY <1>1, <2>1, <2>2, SubSeqProperties
<1>4. kept \in Seq(Position) /\ Len(kept) = n - 1
  <2> HIDE DEF left, right, n
  <2>1. kept \in Seq(Position) /\ Len(kept) = Len(left) + Len(right)
      BY <1>2, <1>3, ConcatProperties
  <2> HIDE DEF kept
  <2>2. QED
      BY <1>1, <1>2, <1>3, <2>1
<1>5. DOMAIN kept = 1..n - 1 /\ IsFiniteSet(DOMAIN kept)
  <2> HIDE DEF kept
  <2>1. QED
      BY <1>4, CostsOfPositions
<1>6. \A k \in DOMAIN kept : kept[k] = positions[h[k]]
  <2> HIDE DEF left, right
  <2>1. \A k \in 1..n - 1 : kept[k] = IF k <= i - 1 THEN left[k] ELSE right[k - (i - 1)]
      BY <1>1, <1>2, <1>3, ConcatProperties
  <2> HIDE DEF kept, n
  <2>2. ASSUME NEW k \in 1..n - 1 PROVE kept[k] = positions[IF k < i THEN k ELSE k + 1]
    <3>1. CASE k < i
        BY <1>1, <1>2, <2>1, <3>1
    <3>2. CASE ~(k < i)
      <4>1. kept[k] = right[k - (i - 1)]
          BY <1>1, <2>1, <3>2
      <4>2. k - (i - 1) \in 1..n - i /\ i + (k - (i - 1)) = k + 1
          BY <1>1, <3>2
      <4>3. right[k - (i - 1)] = positions[k + 1]
          BY <1>3, <4>2
      <4>4. QED
          BY <3>2, <4>1, <4>3
    <3>3. QED
        BY <3>1, <3>2
  <2>3. QED
      BY <1>5, <2>2
<1> HIDE DEF left, right, kept, n
<1>7. /\ \A k \in DOMAIN kept : h[k] \in rest
      /\ \A k \in rest : \E j \in DOMAIN kept : h[j] = k
  <2>1. ASSUME NEW k \in DOMAIN kept PROVE h[k] \in rest
      BY <1>1, <1>5
  <2>2. ASSUME NEW k \in rest PROVE \E j \in DOMAIN kept : h[j] = k
    <3>1. CASE k < i
      <4>1. k \in DOMAIN kept /\ h[k] = k
          BY <1>1, <1>5, <3>1
      <4>2. QED
          BY <4>1
    <3>2. CASE ~(k < i)
      <4>1. k - 1 \in DOMAIN kept /\ h[k - 1] = k
          BY <1>1, <1>5, <3>2
      <4>2. QED
          BY <4>1
    <3>3. QED
        BY <3>1, <3>2
  <2> HIDE DEF h, rest
  <2>3. QED
      BY <2>1, <2>2
<1>8. /\ \A k, j \in DOMAIN kept : h[k] = h[j] => k = j
      /\ \A k \in DOMAIN kept : f[k] = g[h[k]] /\ g[h[k]] \in Int
  <2>1. \A k, j \in DOMAIN kept : h[k] = h[j] => k = j
      BY <1>1, <1>5
  <2>2. ASSUME NEW k \in DOMAIN kept PROVE f[k] = g[h[k]] /\ g[h[k]] \in Int
    <3>1. h[k] \in DOMAIN positions
        BY <1>7
    <3>2. f[k] = CostOf(kept[k]) /\ g[h[k]] = CostOf(positions[h[k]])
        BY <3>1
    <3>3. QED
        BY <1>6, <3>1, <3>2, CostsOfPositions
  <2> HIDE DEF f, g, h
  <2>3. QED
      BY <2>1, <2>2
<1>9. SumFunctionOnSet(f, DOMAIN kept) = SumFunctionOnSet(g, rest)
  <2> HIDE DEF f, g, h, rest, kept
  <2>1. \A k \in DOMAIN kept : h[k] \in rest /\ f[k] = g[h[k]] /\ g[h[k]] \in Int
      BY <1>7, <1>8
  <2>2. Renames(f, g, h, DOMAIN kept, rest)
      BY <1>7, <1>8, <2>1 DEF Renames
  <2>3. QED
      BY <1>5, <2>2, SumRenamed
<1>10. Cost(kept) = SumFunctionOnSet(f, DOMAIN kept)
    BY DEF Cost
<1>11. Cost(positions) = CostOf(positions[i]) + SumFunctionOnSet(g, rest)
    BY CostByOne
<1>12. Cost(kept) \in Nat /\ CostOf(positions[i]) \in Nat
    BY <1>4, CostsOfPositions
<1>13. Cost(kept) = Cost(positions) - CostOf(positions[i])
  <2> HIDE DEF f, g, kept, rest
  <2>1. QED
      BY <1>9, <1>10, <1>11, <1>12
<1>14. QED
    BY <1>13 DEF Without, left, right, kept, n

Balanced(p) == p.balance + Cost(p.positions) = Start + p.realizedPnl

(* Buying turns cash into a position of the same cost.                     *)
LEMMA BoughtBalances ==
    ASSUME NEW p \in Portfolio, Balanced(p), NEW pair \in Pair, NEW price \in Prices,
           NEW size \in Nat \ {0}
    PROVE  Balanced(Bought(p, pair, size, price))
<1> DEFINE q == [pair |-> pair, size |-> size, entryPrice |-> price]
           bought == Bought(p, pair, size, price)
<1>1. /\ p.positions \in Seq(Position) /\ p.balance \in Nat /\ p.realizedPnl \in Int
      /\ q \in Position /\ price \in Nat /\ Start \in Nat
    BY TradingAssumption DEF Portfolio, Position
<1>2. /\ bought.balance = p.balance - size * price
      /\ bought.realizedPnl = p.realizedPnl
      /\ bought.positions = Append(p.positions, q)
    BY DEF Bought, Portfolio
<1>3. CostOf(q) = size * price
    BY DEF CostOf
<1> HIDE DEF q, bought
<1>4. Cost(bought.positions) = Cost(p.positions) + CostOf(q) /\ Cost(p.positions) \in Nat
    BY <1>1, <1>2, CostAppend, CostsOfPositions
<1>5. size * price \in Nat
    BY <1>1
<1>6. p.balance + Cost(p.positions) = Start + p.realizedPnl
    BY DEF Balanced
<1>7. bought.balance + Cost(bought.positions) = Start + bought.realizedPnl
  <2> DEFINE paid == size * price
  <2>1. /\ paid \in Nat /\ bought.balance = p.balance - paid
        /\ Cost(bought.positions) = Cost(p.positions) + paid
      BY <1>2, <1>3, <1>4, <1>5
  <2> HIDE DEF paid
  <2>2. QED
      BY <1>1, <1>2, <1>4, <1>6, <2>1
<1>8. QED
    BY <1>7 DEF Balanced, bought

(* A sale takes what it sells out of the positions, at what it had cost.   *)
LEMMA CostReduced ==
    ASSUME NEW positions \in Seq(Position), NEW i \in DOMAIN positions,
           NEW size \in 1..positions[i].size
    PROVE  Cost(Reduced(positions, i, size)) = Cost(positions) - size * positions[i].entryPrice
<1>1. positions[i] \in Position
    BY CostsOfPositions
<1>2. positions[i].size \in Nat /\ positions[i].entryPrice \in Nat /\ size \in Nat
  <2>1. positions[i].size \in Nat /\ positions[i].entryPrice \in Prices
      BY <1>1 DEF Position
  <2>2. positions[i].entryPrice \in Nat
      BY <2>1, TradingAssumption
  <2>3. QED
      BY <2>1, <2>2
<1>3. CASE size < positions[i].size
  <2> DEFINE rest == [positions[i] EXCEPT !.size = @ - size]
  <2>1. positions[i].size - size \in Nat \ {0}
      BY <1>2, <1>3
  <2>2. rest \in Position
      BY <1>1, <2>1 DEF Position
  <2>3. CostOf(rest) = (positions[i].size - size) * positions[i].entryPrice
      BY <1>1 DEF CostOf, Position
  <2>4. (positions[i].size - size) * positions[i].entryPrice
            = positions[i].size * positions[i].entryPrice - size * positions[i].entryPrice
      BY <1>2
  <2>5. [positions EXCEPT ![i].size = @ - size] = [positions EXCEPT ![i] = rest]
      OBVIOUS
  <2> HIDE DEF rest
  <2>6. Cost([positions EXCEPT ![i] = rest]) = Cost(positions) - CostOf(positions[i]) + CostOf(rest)
      BY <2>2, CostReplaced
  <2>7. /\ Cost(positions) \in Nat /\ size * positions[i].entryPrice \in Nat
        /\ positions[i].size * positions[i].entryPrice \in Nat
      BY <1>2, CostsOfPositions
  <2>8. CostOf(positions[i]) = positions[i].size * positions[i].entryPrice
      BY DEF CostOf
  <2>9. Cost([positions EXCEPT ![i] = rest]) = Cost(positions) - size * positions[i].entryPrice
      BY <2>3, <2>4, <2>6, <2>7, <2>8
  <2>10. QED
      BY <1>3, <2>5, <2>9, Zenon DEF Reduced
<1>4. CASE ~(size < positions[i].size)
  <2>1. size = positions[i].size
      BY <1>2, <1>4
  <2>2. CostOf(positions[i]) = size * positions[i].entryPrice
      BY <2>1 DEF CostOf
  <2>3. Reduced(positions, i, size) = Without(positions, i)
      BY <1>4 DEF Reduced
  <2>4. QED
      BY <2>2, <2>3, CostWithout, Zenon
<1>5. QED
    BY <1>3, <1>4

LEMMA FirstOfIsHeld ==
    ASSUME NEW p \in Portfolio, NEW pair, \E i \in DOMAIN p.positions : p.positions[i].pair = pair
    PROVE  FirstOf(p, pair) \in DOMAIN p.positions
<1> DEFINE held == {k \in DOMAIN p.positions : p.positions[k].pair = pair}
<1>1. held \in SUBSET Nat /\ held # {}
    BY LenProperties DEF Portfolio
<1>2. QED
    BY <1>1, MinIsElement DEF FirstOf

(* Selling turns a position into cash, and the difference into profit.     *)
LEMMA SoldBalances ==
    ASSUME NEW p \in Portfolio, Balanced(p), NEW pair, NEW price \in Prices,
           NEW size \in 1..p.positions[FirstOf(p, pair)].size,
           \E i \in DOMAIN p.positions : p.positions[i].pair = pair
    PROVE  Balanced(Sold(p, pair, size, price))
<1> DEFINE i == FirstOf(p, pair)
           entry == p.positions[i].entryPrice
           sold == Sold(p, pair, size, price)
<1>1. p.positions \in Seq(Position) /\ p.balance \in Nat /\ p.realizedPnl \in Int
    BY DEF Portfolio
<1>2. i \in DOMAIN p.positions
    BY FirstOfIsHeld
<1>3. p.positions[i] \in Position
    BY <1>1, <1>2, CostsOfPositions
<1>4. entry \in Nat /\ p.positions[i].size \in Nat /\ price \in Nat /\ Start \in Nat
    BY <1>3, TradingAssumption DEF Position
<1>5. size \in Nat
    BY <1>4
<1>6. /\ sold.balance = p.balance + size * price
      /\ sold.realizedPnl = p.realizedPnl + size * (price - entry)
      /\ sold.positions = Reduced(p.positions, i, size)
    BY DEF Sold, Portfolio
<1>7. Cost(sold.positions) = Cost(p.positions) - size * entry /\ Cost(p.positions) \in Nat
    BY <1>1, <1>2, <1>6, CostReduced, CostsOfPositions
<1> HIDE DEF i, sold
<1>8. size * (price - entry) = size * price - size * entry
    BY <1>4, <1>5
<1>9. size * price \in Nat /\ size * entry \in Nat
    BY <1>4, <1>5
<1>10. p.balance + Cost(p.positions) = Start + p.realizedPnl
    BY DEF Balanced
<1>11. sold.balance + Cost(sold.positions) = Start + sold.realizedPnl
  <2> DEFINE paid == size * price
             cost == size * entry
             spent == Cost(p.positions)
  <2>1. /\ paid \in Int /\ cost \in Int
        /\ sold.balance = p.balance + paid
        /\ sold.realizedPnl = p.realizedPnl + (paid - cost)
        /\ Cost(sold.positions) = spent - cost
      BY <1>6, <1>7, <1>8, <1>9
  <2>2. Start \in Int /\ spent \in Int /\ p.balance \in Int /\ p.realizedPnl \in Int
      BY <1>1, <1>4, <1>7
  <2>3. p.balance + spent = Start + p.realizedPnl
      BY <1>10
  <2> HIDE DEF paid, cost, spent
  <2>4. QED
      BY ONLY <2>1, <2>2, <2>3
<1>12. QED
    BY <1>11 DEF Balanced, sold

LEMMA OutcomesBalance ==
    ASSUME NEW p \in Portfolio, Balanced(p), NEW q \in Outcomes(p)
    PROVE  Balanced(q)
<1>1. PICK price \in Prices : q \in Purchases(p, price) \cup Sales(p, price)
    BY DEF Outcomes
<1>2. CASE q \in Purchases(p, price)
  <2>1. PICK pair \in Pair, size \in 1..p.balance : q = Bought(p, pair, size, price)
      BY <1>2 DEF Purchases
  <2>2. size \in Nat \ {0}
      OBVIOUS
  <2>3. QED
      BY <2>1, <2>2, BoughtBalances
<1>3. CASE q \in Sales(p, price)
  <2>1. PICK pair \in {p.positions[i].pair : i \in DOMAIN p.positions} :
            \E size \in 1..p.positions[FirstOf(p, pair)].size : q = Sold(p, pair, size, price)
      BY <1>3 DEF Sales
  <2>2. PICK size \in 1..p.positions[FirstOf(p, pair)].size : q = Sold(p, pair, size, price)
      BY <2>1
  <2>3. QED
      BY <2>1, <2>2, SoldBalances
<1>4. QED
    BY <1>1, <1>2, <1>3

(* The agent's answer goes by a balanced portfolio, too.                   *)
Books ==
    /\ \A u \in User \ torn : Balanced(saved[u])
    /\ \A r \in Request :
          stage[r] \in InProgress /\ job[r].kind = "ask" /\ job[r].user \notin torn =>
              Balanced(job[r].basis)

LEMMA InitBooks == TradingInit => Books
<1>1. Cost(<<>>) = 0
  <2>1. DOMAIN <<>> = {}
      OBVIOUS
  <2>2. QED
      BY <2>1, SumEmpty DEF Cost
<1>2. Balanced(Untraded)
  <2>1. Untraded.balance = Start /\ Untraded.realizedPnl = 0 /\ Untraded.positions = <<>>
      BY DEF Untraded
  <2>2. QED
      BY <1>1, <2>1, TradingAssumption DEF Balanced
<1>3. QED
    BY <1>2 DEF TradingInit, Books, InProgress

(* What a request saves balances, if its user's portfolio is not torn.     *)
LEMMA ResultsBalance ==
    ASSUME TradingInv, Books, NEW r \in Request, stage[r] \in InProgress, job[r].user \notin torn,
           NEW q \in Results(r)
    PROVE  Balanced(q)
<1>1. job[r] \in Job
    BY DEF TradingInv
<1>2. Basis(r) \in Portfolio /\ Balanced(Basis(r))
    BY <1>1 DEF Basis, Load, Job, TradingInv, TradingTypeOK, Books
<1>3. PICK p \in Outcomes(Basis(r)) : q = [p EXCEPT !.trades = @ \cup {r}]
    BY DEF Results
<1>4. p \in Portfolio /\ Balanced(p)
    BY <1>2, OutcomesArePortfolios, OutcomesBalance
<1>5. q.balance = p.balance /\ q.realizedPnl = p.realizedPnl /\ q.positions = p.positions
    BY <1>3, <1>4 DEF Portfolio
<1>6. QED
    BY <1>4, <1>5 DEF Balanced

(* A step that saves nothing, where a request under way stays what it was  *)
(* or has just loaded a portfolio.                                         *)
LEMMA UnsavedKeepsBooks ==
    ASSUME TradingInv, Books, UNCHANGED <<saved, torn>>,
           \A r \in Request :
               \/ stage'[r] \in InProgress => stage[r] \in InProgress /\ UNCHANGED job[r]
               \/ job'[r].kind = "trade"
               \/ job'[r].user \in User /\ job'[r].basis = saved[job'[r].user]
    PROVE  Books'
    BY DEF Books, InProgress

LEMMA UnsavedStepKeepsBooks ==
    ASSUME TradingInv, Books, NEW r \in Request, Unsaved(r)
    PROVE  Books'
<1> USE DEF TradingInv, TradingTypeOK, Advance
<1>1. ASSUME NEW u \in User, Ask(r, u) PROVE Books'
    BY <1>1, UnsavedKeepsBooks DEF Ask, Load
<1>2. ASSUME NEW u \in User, Trade(r, u) PROVE Books'
    BY <1>2, UnsavedKeepsBooks DEF Trade
<1>3. CASE Propose(r) \/ Decline(r) \/ ReasoningFails(r) \/ TickerFails(r)
    BY <1>3, UnsavedKeepsBooks DEF Propose, Decline, ReasoningFails, TickerFails, InProgress
<1>4. QED
    BY <1>1, <1>2, <1>3 DEF Unsaved

(* A step that saves r's portfolio, cut or not.                            *)
LEMMA SavedKeepsBooks ==
    ASSUME TradingInv, Books, NEW r \in Request, stage[r] \in InProgress, UNCHANGED job,
           \A q \in Request : stage'[q] \in InProgress => stage[q] \in InProgress,
           NEW p \in Results(r), NEW left,
           saved' = [saved EXCEPT ![job[r].user] = [p EXCEPT !.positions = left]],
           torn' = IF left = p.positions THEN torn ELSE torn \cup {job[r].user}
    PROVE  Books'
<1> DEFINE u == job[r].user
<1>1. p \in Portfolio
    BY ResultsArePortfolios
<1>2. u \in User /\ saved \in [User -> Portfolio] /\ torn \subseteq torn'
    BY DEF TradingInv, TradingTypeOK, Job
<1>3. ASSUME NEW w \in User \ torn' PROVE Balanced(saved'[w])
  <2>1. w \in User \ torn
      BY <1>2
  <2>2. CASE w # u
      BY <1>2, <2>1, <2>2 DEF Books
  <2>3. CASE w = u
    <3>1. left = p.positions
        BY <2>3
    <3>2. saved'[w] = [p EXCEPT !.positions = p.positions]
        BY <1>2, <2>3, <3>1
    <3>3. [p EXCEPT !.positions = p.positions] = p
        BY <1>1 DEF Portfolio
    <3>4. Balanced(p)
        BY <2>1, <2>3, ResultsBalance
    <3>5. QED
        BY <3>2, <3>3, <3>4
  <2>4. QED
      BY <2>2, <2>3
<1>4. \A q \in Request :
          stage'[q] \in InProgress /\ job'[q].kind = "ask" /\ job'[q].user \notin torn' =>
              Balanced(job'[q].basis)
    BY <1>2 DEF Books
<1>5. QED
    BY <1>3, <1>4 DEF Books, Balanced

LEMMA BooksInductive == TradingInv /\ Books /\ [TradingNext]_vars => Books'
<1> SUFFICES ASSUME TradingInv, Books, [TradingNext]_vars PROVE Books'
    OBVIOUS
<1>1. ASSUME NEW r \in Request, Save(r) PROVE Books'
  <2>1. /\ stage[r] = "pricing" /\ stage' = [stage EXCEPT ![r] = "executed"]
        /\ UNCHANGED <<job, torn>>
      BY <1>1 DEF Save, Advance
  <2>2. PICK p \in Results(r) : saved' = [saved EXCEPT ![job[r].user] = p]
      BY <1>1 DEF Save
  <2>3. p \in Portfolio
      BY <2>1, ResultsArePortfolios DEF InProgress
  <2>4. p = [p EXCEPT !.positions = p.positions]
      BY <2>3 DEF Portfolio
  <2>5. saved' = [saved EXCEPT ![job[r].user] = [p EXCEPT !.positions = p.positions]]
      BY <2>2, <2>4
  <2>6. \A q \in Request : stage'[q] \in InProgress => stage[q] \in InProgress
      BY <2>1 DEF InProgress, TradingInv, TradingTypeOK
  <2>7. stage[r] \in InProgress
      BY <2>1 DEF InProgress
  <2>8. QED
      BY <2>1, <2>5, <2>6, <2>7, SavedKeepsBooks
<1>2. ASSUME NEW r \in Request, CutSave(r) PROVE Books'
  <2>1. PICK p \in Results(r) :
            \E left \in {saved[job[r].user].positions} \cup
                            {SubSeq(p.positions, 1, n) : n \in 0..Len(p.positions)} :
               /\ saved' = [saved EXCEPT ![job[r].user] = [p EXCEPT !.positions = left]]
               /\ torn' = IF left = p.positions THEN torn ELSE torn \cup {job[r].user}
      BY <1>2 DEF CutSave
  <2>2. PICK left :
            /\ saved' = [saved EXCEPT ![job[r].user] = [p EXCEPT !.positions = left]]
            /\ torn' = IF left = p.positions THEN torn ELSE torn \cup {job[r].user}
      BY <2>1
  <2>3. /\ stage[r] \in InProgress /\ UNCHANGED job
        /\ stage' \in {Killed, [stage EXCEPT ![r] = "failed"]}
      BY <1>2 DEF CutSave, InProgress
  <2>4. \A q \in Request : stage'[q] \in InProgress => stage[q] \in InProgress
      BY <2>3, KilledIsAnswered DEF InProgress, TradingInv, TradingTypeOK
  <2>5. QED
      BY <2>2, <2>3, <2>4, SavedKeepsBooks
<1>3. CASE Crash
  <2>1. UNCHANGED <<job, saved, torn>> /\ \A q \in Request : stage'[q] \notin InProgress
      BY <1>3, KilledIsAnswered DEF Crash
  <2>2. QED
      BY <2>1, UnsavedKeepsBooks
<1>4. CASE UNCHANGED vars
    BY <1>4, UnsavedKeepsBooks DEF vars
<1>5. QED
    BY <1>1, <1>2, <1>3, <1>4, UnsavedStepKeepsBooks DEF TradingNext, ExecuteProposal, ExecuteTrade, Unsaved

LEMMA BooksHold == TradingSpec => []Books
    BY InitBooks, BooksInductive, TradingInvHolds, PTL DEF TradingSpec

(* A position is worth its cost and its profit, at any price or at none.   *)
LEMMA WorthOfPosition ==
    ASSUME NEW q \in Position, NEW price \in Prices \cup {Unpriced}
    PROVE  /\ PositionPnl(q, price) \in Int
           /\ WorthOf(q, price) = CostOf(q) + PositionPnl(q, price)
<1>1. q.size \in Nat /\ q.entryPrice \in Nat
    BY TradingAssumption DEF Position
<1>2. CASE price = Unpriced
    BY <1>1, <1>2 DEF PositionPnl, WorthOf, CostOf
<1>3. CASE price \in Prices /\ price # Unpriced
  <2>1. price \in Nat
      BY <1>3, TradingAssumption
  <2>2. q.size * price = q.size * q.entryPrice + q.size * (price - q.entryPrice)
      BY <1>1, <2>1
  <2>3. QED
      BY <1>1, <1>3, <2>1, <2>2 DEF PositionPnl, WorthOf, CostOf
<1>4. QED
    BY <1>2, <1>3

(* So a balanced portfolio is worth what its user is shown to have gained. *)
LEMMA BalancedAtAnyPrice ==
    ASSUME NEW p \in Portfolio, Balanced(p), NEW price \in Quotes(p)
    PROVE  Worth(p, price) = Start + TotalPnl(p, price)
<1> DEFINE S == DOMAIN p.positions
           cost == [i \in S |-> CostOf(p.positions[i])]
           pnl == [i \in S |-> PositionPnl(p.positions[i], price[i])]
           worth == [i \in S |-> WorthOf(p.positions[i], price[i])]
<1>1. /\ p.positions \in Seq(Position) /\ p.balance \in Nat /\ p.realizedPnl \in Int
      /\ Start \in Nat
    BY TradingAssumption DEF Portfolio
<1>2. IsFiniteSet(S) /\ \A i \in S : p.positions[i] \in Position /\ CostOf(p.positions[i]) \in Nat
    BY <1>1, CostsOfPositions
<1>3. \A i \in S : price[i] \in Prices \cup {Unpriced}
    BY DEF Quotes
<1>4. \A i \in S : cost[i] \in Int /\ pnl[i] \in Int /\ worth[i] = cost[i] + pnl[i]
    BY <1>2, <1>3, WorthOfPosition
<1>5. /\ p.balance + SumFunctionOnSet(cost, S) = Start + p.realizedPnl
      /\ Worth(p, price) = p.balance + SumFunctionOnSet(worth, S)
      /\ TotalPnl(p, price) = p.realizedPnl + SumFunctionOnSet(pnl, S)
    BY DEF Balanced, Cost, Worth, TotalPnl, UnrealizedPnl
<1> HIDE DEF cost, pnl, worth, S
<1>6. SumFunctionOnSet(worth, S) = SumFunctionOnSet(cost, S) + SumFunctionOnSet(pnl, S)
    BY <1>2, <1>4, SumOfSums
<1>7. SumFunctionOnSet(cost, S) \in Int /\ SumFunctionOnSet(pnl, S) \in Int
    BY <1>2, <1>4, SumInt
<1>8. QED
    BY <1>1, <1>5, <1>6, <1>7

(* What an account is worth is the start and the total profit shown, at    *)
(* whatever prices, for every user no save of whose portfolio was cut.     *)
THEOREM TradingBooksBalance == TradingSpec => []BooksBalance
<1>1. TradingInv /\ Books => BooksBalance
  <2> SUFFICES ASSUME TradingInv, Books, NEW u \in User \ torn, NEW price \in Quotes(saved[u])
               PROVE  Worth(saved[u], price) = Start + TotalPnl(saved[u], price)
      BY DEF BooksBalance
  <2>1. saved[u] \in Portfolio /\ Balanced(saved[u])
      BY DEF TradingInv, TradingTypeOK, Books
  <2>2. QED
      BY <2>1, BalancedAtAnyPrice
<1>2. QED
    BY <1>1, BooksHold, TradingInvHolds, PTL

(* POST /trading/session's check of two of the three numbers is enough.    *)
THEOREM SessionsStartEven == TradingSpec => []SessionStartsEven
<1>1. TradingInv /\ Books => SessionStartsEven
  <2> SUFFICES ASSUME TradingInv, Books, NEW u \in User \ torn, StartsSession(saved[u])
               PROVE  saved[u].realizedPnl = 0
      BY DEF SessionStartsEven
  <2>1. DOMAIN <<>> = {}
      OBVIOUS
  <2>2. Cost(saved[u].positions) = 0
      BY <2>1, SumEmpty DEF Cost, StartsSession
  <2>3. saved[u].balance + 0 = Start + saved[u].realizedPnl /\ saved[u].balance = Start
      BY <2>2 DEF Books, Balanced, StartsSession
  <2>4. saved[u] \in Portfolio
      BY DEF TradingInv, TradingTypeOK
  <2>5. saved[u].realizedPnl \in Int /\ Start \in Nat
      BY <2>4, TradingAssumption DEF Portfolio
  <2>6. QED
      BY <2>3, <2>5
<1>2. QED
    BY <1>1, TradingInvHolds, BooksHold, PTL
==============================================================================
