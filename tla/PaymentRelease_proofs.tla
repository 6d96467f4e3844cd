------------------------ MODULE PaymentRelease_proofs ------------------------
(***************************************************************************)
(* Theorems about POST /payments/release, for any number of requests,      *)
(* identifiers, addresses, amounts and limits.                             *)
(***************************************************************************)
EXTENDS PaymentRelease, TLAPS

(* How far a request has come, and what became of its order, of its        *)
(* transaction and of its row.                                             *)
BeforeBroadcast == {"idle", "received", "checked", "mandated", "verified", "refused"}

OrderGiven == \A r \in Request : stage[r] # "idle" => order[r] \in Order

StageMatchesTx ==
    \A r \in Request :
        /\ stage[r] \in BeforeBroadcast => tx[r] = "none"
        /\ stage[r] \in {"recorded", "released"} => r \in history
        /\ r \in history => tx[r] \in {"mined", "reverted"}
        /\ Paid(r) <=> tx[r] = "mined"

(* What a request pays to is settled by the second lookup: until then its  *)
(* payee is listed as one of the addresses seen, and afterwards the        *)
(* mandate names one of them.                                              *)
PayeeSettled ==
    \A r \in Request :
        /\ stage[r] = "checked" /\ Known(r) => Listed(r) \in seen[r]
        /\ stage[r] \in {"mandated", "verified"} \/ tx[r] # "none" => payTo[r] \in seen[r]

ReleaseInv ==
    ReleaseTypeOK /\ OrderGiven /\ StageMatchesTx /\ HistoryHasPayee /\ PayeeSettled /\ PaidAsLookedUp

------------------------------------------------------------------------------
(* What the steps have in common.                                          *)

(* The backend starts, on empty tables, with the invariant.                *)
LEMMA ReleaseInitInv == ReleaseInit => ReleaseInv
<1> SUFFICES ASSUME ReleaseInit PROVE ReleaseInv
    OBVIOUS
<1> USE DEF ReleaseInit
<1>1. ReleaseTypeOK
    BY DEF ReleaseTypeOK
<1>2. OrderGiven
    BY DEF OrderGiven
<1>3. StageMatchesTx
    BY DEF StageMatchesTx, Paid
<1>4. HistoryHasPayee
    BY DEF HistoryHasPayee
<1>5. PayeeSettled /\ PaidAsLookedUp
    BY DEF PayeeSettled, PaidAsLookedUp, Paid
<1>6. QED
    BY <1>1, <1>2, <1>3, <1>4, <1>5 DEF ReleaseInv

(* The amount of an order is a number, also before there is one.           *)
LEMMA AmountTyped ==
    ASSUME ReleaseTypeOK, NEW r \in Request
    PROVE  order[r].amount \in Nat
<1>1. order[r] \in Order \cup {NoOrder}
    BY DEF ReleaseTypeOK
<1>2. CASE order[r] \in Order
    BY <1>2, ReleaseAssumption DEF Order
<1>3. CASE order[r] = NoOrder
    BY <1>3 DEF NoOrder
<1>4. QED
    BY <1>1, <1>2, <1>3

(* Advancing one request changes its stage and no other.                   *)
LEMMA AdvanceTyped ==
    ASSUME ReleaseTypeOK, NEW r \in Request, NEW from, NEW to, Advance(r, from, to),
           to \in InProgress \cup Answered
    PROVE  /\ stage' \in [Request -> {"idle"} \cup InProgress \cup Answered]
           /\ stage[r] = from
           /\ stage'[r] = to
           /\ \A q \in Request : q # r => stage'[q] = stage[q]
BY DEF ReleaseTypeOK, Advance

(* An outcome that is ok has one of the three classes.                     *)
LEMMA ClassTyped ==
    ASSUME NEW outcome \in Outcomes
    PROVE  ClassOf(outcome) \in OutcomeClass
<1>1. CASE outcome = "SETTLED"
    BY <1>1 DEF ClassOf, OutcomeClass
<1>2. CASE outcome = "ATTEMPTED"
    BY <1>2 DEF ClassOf, OutcomeClass
<1>3. CASE outcome = "FAILED"
    BY <1>3 DEF ClassOf, OutcomeClass
<1>4. QED
    BY <1>1, <1>2, <1>3, ReleaseAssumption

(* A step of one request, as the rest of the system sees it: the request   *)
(* moves on, the chain is left alone, a transaction is broadcast only when *)
(* the request goes to wait for it or to fail, for an address the request  *)
(* has seen, and a row appears only for a transaction in a block and an    *)
(* order the directory knows.                                              *)
RequestStep(r) ==
    /\ ReleaseTypeOK'
    /\ stage[r] # "idle"
    /\ \A q \in Request : q # r => stage'[q] = stage[q] /\ tx'[q] = tx[q]
    /\ \/ tx'[r] = tx[r]
       \/ tx[r] = "none" /\ tx'[r] = "pending" /\ stage'[r] \in {"waiting", "failed"}
    /\ stage'[r] \in BeforeBroadcast => stage[r] \in BeforeBroadcast \ {"idle"}
    /\ stage'[r] # "idle"
    /\ \A q \in Request : q # r => seen'[q] = seen[q] /\ payTo'[q] = payTo[q]
    /\ stage'[r] = "checked" => seen'[r] = {Listed(r)}
    /\ stage'[r] \in {"mandated", "verified"} \/ tx'[r] # "none" => payTo'[r] \in seen'[r]
    /\ Paid(r) => seen'[r] = seen[r]
    /\ \/ history' = history
       \/ InBlock(r) /\ Known(r) /\ history' = history \cup {r}
    /\ stage'[r] \in {"recorded", "released"} => r \in history'
    /\ UNCHANGED <<directory, order, policyVars, accountVars>>

(* Every step of the handler is one.                                       *)
LEMMA HandleIsRequestStep ==
    ASSUME ReleaseInv, NEW r \in Request, Handle(r)
    PROVE  RequestStep(r)
<1> USE DEF ReleaseInv, ReleaseTypeOK, RequestStep, policyVars, accountVars
<1>0. /\ ReleaseTypeOK
      /\ stage[r] \in BeforeBroadcast => tx[r] = "none"
      /\ Paid(r) => tx[r] # "none"
      /\ stage[r] \in {"mandated", "verified"} \/ tx[r] # "none" => payTo[r] \in seen[r]
    BY DEF StageMatchesTx, PayeeSettled
<1>1. CASE PreCheck(r)
  <2>1. PICK to \in {"checked", "refused"} :
            Advance(r, "received", to) /\ (to = "checked" <=> PassesPreCheck(r))
    BY <1>1 DEF PreCheck
  <2>2. order[r] \in Order /\ tx[r] = "none"
    BY <1>0, <2>1 DEF Advance, OrderGiven, BeforeBroadcast
  <2>3. PassesPreCheck(r) => Listed(r) \in Payee
    BY <2>2 DEF PassesPreCheck, Known, Listed, Order
  <2>4. /\ seen' \in [Request -> SUBSET Payee]
        /\ PassesPreCheck(r) => seen'[r] = {Listed(r)}
        /\ \A q \in Request : q # r => seen'[q] = seen[q]
    BY <1>1, <2>3 DEF PreCheck
  <2>5. QED
    BY <1>0, <1>1, <2>1, <2>2, <2>4, AdvanceTyped
    DEF PreCheck, InProgress, Answered, BeforeBroadcast
<1>2. CASE SignMandate(r)
  <2>1. PICK to \in {"mandated", "refused"} :
            Advance(r, "checked", to) /\ (to = "mandated" <=> Known(r))
    BY <1>2 DEF SignMandate
  <2>2. order[r] \in Order /\ tx[r] = "none" /\ (Known(r) => Listed(r) \in seen[r])
    BY <1>0, <2>1 DEF Advance, OrderGiven, BeforeBroadcast, PayeeSettled
  <2>3. Listed(r) \in Payee \cup {NoPayee}
    BY <2>2 DEF Listed, Order
  <2>4. /\ payTo' \in [Request -> Payee \cup {NoPayee}]
        /\ payTo'[r] = Listed(r)
        /\ \A q \in Request : q # r => payTo'[q] = payTo[q]
    BY <1>2, <2>3 DEF SignMandate
  <2>5. QED
    BY <1>0, <1>2, <2>1, <2>2, <2>4, AdvanceTyped
    DEF SignMandate, InProgress, Answered, BeforeBroadcast
<1>3. CASE VerifyRejects(r)
    BY <1>0, <1>3, AdvanceTyped DEF VerifyRejects, InProgress, Answered, BeforeBroadcast
<1>4. ASSUME NEW outcome \in Outcomes, VerifyOk(r, outcome)
      PROVE  RequestStep(r)
  <2>1. verdict' \in [Request -> OutcomeClass \cup {"none"}]
    BY <1>4, ClassTyped DEF VerifyOk
  <2>2. QED
    BY <1>0, <1>4, <2>1, AdvanceTyped DEF VerifyOk, InProgress, Answered, BeforeBroadcast
<1>5. CASE Submit(r)
  <2>1. tx[r] = "none" /\ payTo[r] \in seen[r]
    BY <1>0, <1>5 DEF Submit, Advance, BeforeBroadcast
  <2>2. QED
    BY <1>0, <1>5, <2>1, AdvanceTyped DEF Submit, InProgress, Answered, BeforeBroadcast
<1>6. ASSUME NEW canonical \in BOOLEAN, Record(r, canonical)
      PROVE  RequestStep(r)
  <2>1. CASE RowAccepted(r, canonical)
    <3>1. Advance(r, "waiting", "recorded")
      BY <1>6, <2>1 DEF Record
    <3>2. QED
      BY <1>0, <1>6, <2>1, <3>1, AdvanceTyped
      DEF Record, RowAccepted, InProgress, Answered, BeforeBroadcast
  <2>2. CASE ~RowAccepted(r, canonical)
    <3>1. Advance(r, "waiting", "failed")
      BY <1>6, <2>2 DEF Record
    <3>2. QED
      BY <1>0, <1>6, <2>2, <3>1, AdvanceTyped DEF Record, InProgress, Answered, BeforeBroadcast
  <2>3. QED
    BY <2>1, <2>2
<1>7. CASE WaitTimesOut(r)
    BY <1>0, <1>7, AdvanceTyped DEF WaitTimesOut, InProgress, Answered, BeforeBroadcast
<1>8. CASE Respond(r)
  <2>1. r \in history
    BY <1>8 DEF Respond, Advance, StageMatchesTx
  <2>2. QED
    BY <1>0, <1>8, <2>1, AdvanceTyped DEF Respond, InProgress, Answered, BeforeBroadcast
<1>9. CASE CallThrows(r)
  <2>1. PICK from \in {"received", "checked", "mandated", "verified"} :
            Advance(r, from, "failed")
    BY <1>9 DEF CallThrows
  <2>2. tx[r] = "none"
    BY <1>0, <2>1 DEF Advance, BeforeBroadcast
  <2>3. \/ tx' = tx
        \/ tx' = [tx EXCEPT ![r] = "pending"] /\ payTo[r] \in seen[r]
    BY <1>0, <1>9 DEF CallThrows
  <2>4. QED
    BY <1>0, <1>9, <2>1, <2>2, <2>3, AdvanceTyped
    DEF CallThrows, InProgress, Answered, BeforeBroadcast
<1>10. QED
    BY <1>1, <1>2, <1>3, <1>4, <1>5, <1>6, <1>7, <1>8, <1>9 DEF Handle

(* A step of the chain moves transactions from pending into a block, where *)
(* those that succeed pay whom their mandate names, and leaves the backend *)
(* alone.                                                                  *)
Settles(q) ==
    /\ tx[q] = "pending"
    /\ \/ tx'[q] = "reverted" /\ paid'[q] = paid[q]
       \/ tx'[q] = "mined" /\ paid'[q] = payTo[q] /\ payTo[q] \in Payee

ChainStep ==
    /\ ReleaseTypeOK'
    /\ \A q \in Request : (tx'[q] = tx[q] /\ paid'[q] = paid[q]) \/ Settles(q)
    /\ UNCHANGED backendVars

(* Every block, policy update and deposit is one.                          *)
LEMMA ChainIsChainStep ==
    ASSUME ReleaseInv, Chain
    PROVE  ChainStep
<1> USE DEF ReleaseTypeOK, ChainStep, backendVars, policyVars, accountVars
<1>0. ReleaseTypeOK
    BY DEF ReleaseInv
<1>1. ASSUME NEW r \in Request, Pay(r)
      PROVE  ChainStep
  <2>1. /\ order[r].amount \in Nat
        /\ payTo[r] \in Payee
        /\ order[r].amount <= allowance[payTo[r]]
        /\ order[r].amount <= funds
    BY <1>0, <1>1, AmountTyped DEF Pay, Payable, TxPayee
  <2>2. funds' \in Nat
    BY <1>0, <1>1, <2>1 DEF Pay, TxPayee
  <2>3. allowance' \in [Payee -> Nat]
    BY <1>0, <1>1, <2>1 DEF Pay, TxPayee
  <2>4. /\ tx[r] = "pending"
        /\ tx' = [tx EXCEPT ![r] = "mined"]
        /\ paid' = [paid EXCEPT ![r] = payTo[r]]
        /\ UNCHANGED <<backendVars, policyVars>>
    BY <1>1 DEF Pay, TxPayee
  <2>5. QED
    BY <1>0, <2>1, <2>2, <2>3, <2>4 DEF Settles
<1>2. ASSUME NEW r \in Request, Revert(r)
      PROVE  ChainStep
  <2>1. /\ tx[r] = "pending"
        /\ tx' = [tx EXCEPT ![r] = "reverted"]
        /\ UNCHANGED <<backendVars, policyVars, accountVars>>
    BY <1>2 DEF Revert
  <2>2. QED
    BY <1>0, <2>1 DEF Settles
<1>3. ASSUME NEW p \in Payee, NEW isActive \in BOOLEAN, NEW limit \in PaymentLimits,
             NEW left \in Allowances, SetPolicy(p, isActive, limit, left)
      PROVE  ChainStep
  <2>1. limit \in Nat /\ left \in Nat
    BY ReleaseAssumption
  <2>2. QED
    BY <1>0, <1>3, <2>1 DEF SetPolicy
<1>4. ASSUME NEW payees \in Attested, SetCompliance(payees)
      PROVE  ChainStep
    BY <1>0, <1>4, ReleaseAssumption DEF SetCompliance
<1>5. ASSUME NEW amount \in Amounts, Deposit(amount)
      PROVE  ChainStep
  <2>1. amount \in Nat
    BY ReleaseAssumption
  <2>2. QED
    BY <1>0, <1>5, <2>1 DEF Deposit
<1>6. QED
    BY <1>1, <1>2, <1>3, <1>4, <1>5 DEF Chain

------------------------------------------------------------------------------
(* The invariant.                                                          *)

(* No step of the handler breaks the invariant.                            *)
LEMMA HandleKeepsInv ==
    ASSUME ReleaseInv, NEW r \in Request, Handle(r)
    PROVE  ReleaseInv'
<1> USE DEF ReleaseInv, RequestStep, policyVars, accountVars
<1>1. RequestStep(r)
    BY HandleIsRequestStep
<1>2. OrderGiven'
    BY <1>1 DEF OrderGiven
<1>3. StageMatchesTx'
  <2> SUFFICES ASSUME NEW q \in Request
               PROVE  /\ stage'[q] \in BeforeBroadcast => tx'[q] = "none"
                      /\ stage'[q] \in {"recorded", "released"} => q \in history'
                      /\ q \in history' => tx'[q] \in {"mined", "reverted"}
                      /\ Paid(q)' <=> tx'[q] = "mined"
      BY DEF StageMatchesTx
  <2>1. CASE q # r
      BY <1>1, <2>1 DEF StageMatchesTx, Paid
  <2>2. CASE q = r
      BY <1>1, <2>2 DEF StageMatchesTx, Paid, InBlock, BeforeBroadcast
  <2>3. QED
      BY <2>1, <2>2
<1>4. HistoryHasPayee'
    BY <1>1 DEF HistoryHasPayee, Known, Listed
<1>5. PayeeSettled'
    BY <1>1 DEF PayeeSettled, Known, Listed
<1>6. PaidAsLookedUp'
    BY <1>1 DEF PaidAsLookedUp, Paid
<1>7. QED
    BY <1>1, <1>2, <1>3, <1>4, <1>5, <1>6

(* A new request has no row yet, so what its body says disturbs none.      *)
LEMMA ReceiveKeepsInv ==
    ASSUME ReleaseInv, NEW r \in Request, NEW o \in Order, Receive(r, o)
    PROVE  ReleaseInv'
<1> USE DEF ReleaseInv, Receive, policyVars, accountVars
<1>1. /\ stage' \in [Request -> {"idle"} \cup InProgress \cup Answered]
      /\ stage[r] = "idle"
      /\ stage'[r] = "received"
      /\ \A q \in Request : q # r => stage'[q] = stage[q]
    BY AdvanceTyped DEF InProgress
<1>2. ReleaseTypeOK'
    BY <1>1 DEF ReleaseTypeOK
<1>3. /\ order'[r] = o
      /\ \A q \in Request : q # r => order'[q] = order[q]
    BY DEF ReleaseTypeOK
<1>4. OrderGiven'
    BY <1>1, <1>3 DEF OrderGiven
<1>5. StageMatchesTx'
    BY <1>1 DEF StageMatchesTx, BeforeBroadcast, Paid
<1>6. r \notin history
    BY <1>1 DEF StageMatchesTx, BeforeBroadcast
<1>7. HistoryHasPayee'
    BY <1>3, <1>6 DEF HistoryHasPayee, Known, Listed, ReleaseTypeOK
<1>8. PayeeSettled' /\ PaidAsLookedUp'
    BY <1>1, <1>3 DEF PayeeSettled, PaidAsLookedUp, Paid, Known, Listed
<1>9. QED
    BY <1>2, <1>4, <1>5, <1>7, <1>8

(* A request lost in a crash keeps the transaction and the row it had.     *)
LEMMA CrashKeepsInv ==
    ASSUME ReleaseInv, Crash
    PROVE  ReleaseInv'
<1> USE DEF ReleaseInv, policyVars, accountVars
<1>1. /\ stage' = [r \in Request |-> IF stage[r] \in InProgress THEN "lost" ELSE stage[r]]
      /\ UNCHANGED <<directory, history, order, payTo, seen, verdict, tx, policyVars, accountVars>>
    BY DEF Crash
<1>2. ReleaseTypeOK'
    BY <1>1 DEF ReleaseTypeOK, Answered
<1>3. \A r \in Request : stage'[r] = stage[r] \/ (stage'[r] = "lost" /\ stage[r] # "idle")
    BY <1>1 DEF InProgress
<1>4. OrderGiven'
    BY <1>1, <1>3 DEF OrderGiven
<1>5. StageMatchesTx'
    BY <1>1, <1>3 DEF StageMatchesTx, BeforeBroadcast, Paid
<1>6. HistoryHasPayee'
    BY <1>1 DEF HistoryHasPayee, Known, Listed
<1>7. PayeeSettled' /\ PaidAsLookedUp'
    BY <1>1, <1>3 DEF PayeeSettled, PaidAsLookedUp, Paid, Known, Listed
<1>8. QED
    BY <1>2, <1>4, <1>5, <1>6, <1>7

(* The directory may drop a payee only if no row names it.                 *)
LEMMA DirectoryKeepsInv ==
    ASSUME ReleaseInv, NEW i \in Identifier,
           Delete(i) \/ \E p \in Payee : AddPayee(i, p)
    PROVE  ReleaseInv'
<1> USE DEF ReleaseInv, policyVars, accountVars
<1>1. UNCHANGED <<history, stage, order, payTo, verdict, tx, policyVars, accountVars>>
    BY DEF Delete, AddPayee, Upsert
<1>2. /\ seen' \in [Request -> SUBSET Payee]
      /\ \A r \in Request : seen[r] \subseteq seen'[r]
    BY DEF Delete, AddPayee, ReleaseTypeOK
<1>3. ReleaseTypeOK'
    BY <1>1, <1>2 DEF Delete, AddPayee, Upsert, ReleaseTypeOK
<1>4. OrderGiven'
    BY <1>1 DEF OrderGiven
<1>5. StageMatchesTx'
    BY <1>1 DEF StageMatchesTx, Paid
<1>6. \A r \in Request : stage[r] # "idle" => order[r].identifier \in Identifier
    BY DEF OrderGiven, Order
<1>7. HistoryHasPayee'
  <2> SUFFICES ASSUME NEW r \in history
               PROVE  directory'[order[r].identifier] # NoPayee
      BY <1>1 DEF HistoryHasPayee, Known, Listed
  <2>1. directory[order[r].identifier] # NoPayee
      BY DEF HistoryHasPayee, Known, Listed
  <2>2. order[r].identifier \in Identifier
      BY <1>6 DEF StageMatchesTx, BeforeBroadcast, ReleaseTypeOK
  <2>3. CASE Delete(i)
      BY <2>1, <2>2, <2>3 DEF Delete, NamedInHistory, ReleaseTypeOK
  <2>4. CASE \E p \in Payee : AddPayee(i, p)
      BY <2>1, <2>2, <2>4, ReleaseAssumption DEF AddPayee, Upsert, ReleaseTypeOK
  <2>5. QED
      BY <2>3, <2>4
<1>8. PayeeSettled'
  <2> SUFFICES ASSUME NEW r \in Request, stage[r] = "checked",
                      directory'[order[r].identifier] # NoPayee
               PROVE  directory'[order[r].identifier] \in seen'[r]
      BY <1>1, <1>2 DEF PayeeSettled, Known, Listed
  <2>1. order[r].identifier \in Identifier
      BY <1>6
  <2>2. directory[order[r].identifier] # NoPayee =>
            directory[order[r].identifier] \in seen'[r]
      BY <1>2 DEF PayeeSettled, Known, Listed
  <2>3. CASE Delete(i)
      BY <2>1, <2>2, <2>3 DEF Delete, ReleaseTypeOK
  <2>4. ASSUME NEW p \in Payee, AddPayee(i, p)
        PROVE  directory'[order[r].identifier] \in seen'[r]
      BY <2>1, <2>2, <2>4 DEF AddPayee, Upsert, ReleaseTypeOK
  <2>5. QED
      BY <2>3, <2>4
<1>9. PaidAsLookedUp'
    BY <1>1, <1>2 DEF PaidAsLookedUp, Paid
<1>10. QED
    BY <1>3, <1>4, <1>5, <1>7, <1>8, <1>9

(* A transaction that reaches a block was broadcast, by a request that has *)
(* no row for it yet.                                                      *)
LEMMA ChainKeepsInv ==
    ASSUME ReleaseInv, Chain
    PROVE  ReleaseInv'
<1> USE DEF ReleaseInv, ChainStep, backendVars
<1>1. ChainStep
    BY ChainIsChainStep
<1>2. OrderGiven'
    BY <1>1 DEF OrderGiven
<1>3. StageMatchesTx'
    BY <1>1, ReleaseAssumption DEF StageMatchesTx, BeforeBroadcast, Paid, Settles
<1>4. HistoryHasPayee'
    BY <1>1 DEF HistoryHasPayee, Known, Listed
<1>5. PayeeSettled'
    BY <1>1 DEF PayeeSettled, Known, Listed, Settles
<1>6. PaidAsLookedUp'
    BY <1>1 DEF PaidAsLookedUp, PayeeSettled, Paid, Settles
<1>7. QED
    BY <1>1, <1>2, <1>3, <1>4, <1>5, <1>6

(* A stuttering step keeps the invariant.                                  *)
LEMMA UnchangedKeepsInv == ReleaseInv /\ UNCHANGED vars => ReleaseInv'
BY DEF ReleaseInv, ReleaseTypeOK, OrderGiven, StageMatchesTx, HistoryHasPayee, PayeeSettled,
       PaidAsLookedUp, Paid, Known, Listed, vars, backendVars, policyVars, accountVars

(* The invariant holds in every reachable state.                           *)
THEOREM ReleaseInvariant == ReleaseSpec => []ReleaseInv
<1>1. ReleaseInv /\ [ReleaseNext]_vars => ReleaseInv'
  <2> SUFFICES ASSUME ReleaseInv, [ReleaseNext]_vars
               PROVE  ReleaseInv'
      OBVIOUS
  <2>1. ASSUME NEW r \in Request, Handle(r)
        PROVE  ReleaseInv'
      BY <2>1, HandleKeepsInv
  <2>2. ASSUME NEW r \in Request, NEW o \in Order, Receive(r, o)
        PROVE  ReleaseInv'
      BY <2>2, ReceiveKeepsInv
  <2>3. CASE Crash
      BY <2>3, CrashKeepsInv
  <2>4. ASSUME NEW i \in Identifier, Delete(i) \/ \E p \in Payee : AddPayee(i, p)
        PROVE  ReleaseInv'
      BY <2>4, DirectoryKeepsInv
  <2>5. CASE Chain
      BY <2>5, ChainKeepsInv
  <2>6. CASE UNCHANGED vars
      BY <2>6, UnchangedKeepsInv
  <2>7. QED
      BY <2>1, <2>2, <2>3, <2>4, <2>5, <2>6 DEF ReleaseNext
<1>2. QED
    BY ReleaseInitInv, <1>1, PTL DEF ReleaseSpec

(* Every state of the backend, its tables and the chain is well-typed.     *)
THEOREM ReleaseTypeCorrect == ReleaseSpec => []ReleaseTypeOK
<1>1. ReleaseInv => ReleaseTypeOK
    BY DEF ReleaseInv
<1>2. QED
    BY ReleaseInvariant, <1>1, PTL

(* The client's answer, the transaction and the history row agree as far   *)
(* as the code lets them, whatever the interleaving of the requests, the   *)
(* operator and the chain, and wherever the process dies.                  *)
THEOREM BooksAreExplained == ReleaseSpec => []BooksExplained
<1>1. ReleaseInv => BooksExplained
    BY DEF ReleaseInv, ReleaseTypeOK, StageMatchesTx, BooksExplained, BeforeBroadcast,
           InProgress, Answered
<1>2. QED
    BY ReleaseInvariant, <1>1, PTL

(* No row of payee_payment_history is orphaned by a deletion or an upsert. *)
THEOREM HistoryKeepsPayee == ReleaseSpec => []HistoryHasPayee
<1>1. ReleaseInv => HistoryHasPayee
    BY DEF ReleaseInv
<1>2. QED
    BY ReleaseInvariant, <1>1, PTL

(* However the directory is edited while requests are under way, each pays *)
(* only to an address listed for its payee between its two lookups.        *)
THEOREM PaymentsFollowLookups == ReleaseSpec => []PaidAsLookedUp
<1>1. ReleaseInv => PaidAsLookedUp
    BY DEF ReleaseInv
<1>2. QED
    BY ReleaseInvariant, <1>1, PTL
==============================================================================
