---------------------------- MODULE PaymentRelease ----------------------------
(***************************************************************************)
(* The backend's POST /payments/release, with any number of requests in    *)
(* progress at once, between the payee directory and the payment history   *)
(* (SQLite), the HSP Coordinator, and the treasury on the chain.           *)
(*                                                                         *)
(* A request signs one mandate with a fresh random nonce, so a request     *)
(* stands for its mandate and a retry of the client is another request for *)
(* the same order.  One step is what the handler does between two awaits   *)
(* that others can come between.  Of the treasury there is what decides    *)
(* whether releasePayment succeeds.                                        *)
(***************************************************************************)
EXTENDS Naturals

CONSTANTS
    Request,
    Identifier,     \* payee identifiers, in lower case
    Payee,          \* payee addresses
    NoPayee,
    Amounts,        \* bound: the amounts ordered
    PaymentLimits,  \* bound: perPaymentLimit as the operator sets it
    Allowances,     \* bound: what getRemainingDailyAllowance may become
    Attested,       \* bound: the sets of payees with a valid attestation
    Outcomes,       \* bound: the outcomes of the receipts found ok
    MaxFunds        \* bound: what the treasury holds at any time

ASSUME ReleaseAssumption ==
    /\ NoPayee \notin Payee
    /\ Amounts \subseteq Nat
    /\ PaymentLimits \subseteq Nat
    /\ Allowances \subseteq Nat
    /\ Attested \subseteq SUBSET Payee
    /\ Outcomes \subseteq {"SETTLED", "ATTEMPTED", "FAILED"}
    /\ MaxFunds \in Nat

VARIABLES
    directory,   \* payee_directory: identifier -> address
    history,     \* payee_payment_history: the requests it has a row for
    stage,       \* how far each request has come, or how it was answered
    order,       \* the body of each request
    payTo,       \* the address the mandate names
    seen,        \* history: what the directory listed for the request's
                 \*   payee from the first lookup to the second
    verdict,     \* the outcomeClass of the verifier's decision, if it was ok
    tx,          \* the releasePayment transaction of each request
    active, perPaymentLimit,   \* the policies on the chain
    compliant,   \* the payees whose attestation is valid, none under a pause
    allowance, funds,
    paid         \* the account each request was paid to

backendVars  == <<directory, history, stage, order, payTo, seen, verdict>>
policyVars   == <<active, perPaymentLimit, compliant>>
accountVars  == <<allowance, funds, paid>>
vars == <<backendVars, tx, policyVars, accountVars>>

Order == [identifier : Identifier, amount : Amounts]
NoOrder == [identifier |-> NoPayee, amount |-> 0]

InProgress == {"received", "checked", "mandated", "verified", "waiting", "recorded"}
Answered == {"released", \* 201
             "refused",  \* 403, 404 or 422: a check of this backend said no
             "failed",   \* 500: something threw
             "lost"}     \* the process died with the request

OutcomeClass == {"ACCEPT", "RETRYABLE", "PERMANENT"}

ReleaseTypeOK ==
    /\ directory \in [Identifier -> Payee \cup {NoPayee}]
    /\ history \subseteq Request
    /\ stage \in [Request -> {"idle"} \cup InProgress \cup Answered]
    /\ order \in [Request -> Order \cup {NoOrder}]
    /\ payTo \in [Request -> Payee \cup {NoPayee}]
    /\ seen \in [Request -> SUBSET Payee]
    /\ verdict \in [Request -> OutcomeClass \cup {"none"}]
    /\ tx \in [Request -> {"none", "pending", "mined", "reverted"}]
    /\ active \subseteq Payee
    /\ perPaymentLimit \in [Payee -> Nat]
    /\ compliant \subseteq Payee
    /\ allowance \in [Payee -> Nat]
    /\ funds \in Nat
    /\ paid \in [Request -> Payee \cup {NoPayee}]

ReleaseInit ==
    /\ directory = [i \in Identifier |-> NoPayee]
    /\ history = {}
    /\ stage = [r \in Request |-> "idle"]
    /\ order = [r \in Request |-> NoOrder]
    /\ payTo = [r \in Request |-> NoPayee]
    /\ seen = [r \in Request |-> {}]
    /\ verdict = [r \in Request |-> "none"]
    /\ tx = [r \in Request |-> "none"]
    /\ active = {}
    /\ perPaymentLimit = [p \in Payee |-> 0]
    /\ compliant = {}
    /\ allowance = [p \in Payee |-> 0]
    /\ funds = 0
    /\ paid = [r \in Request |-> NoPayee]

------------------------------------------------------------------------------
(* What the handler asks of the directory, the verifier and the chain.     *)

Listed(r) == directory[order[r].identifier]

Known(r) == Listed(r) # NoPayee

OnChainPolicy(p) == [active |-> p \in active, perPaymentLimit |-> perPaymentLimit[p]]

WithinPaymentLimit(amount, limit) == 0 < amount /\ amount <= limit

(* validateProposedPayment: neither the daily limit nor compliance.        *)
PassesPreCheck(r) ==
    LET policy == OnChainPolicy(Listed(r))
    IN  /\ Known(r)
        /\ policy.active
        /\ WithinPaymentLimit(order[r].amount, policy.perPaymentLimit)

(* A mutant: the payee is looked up a third time, for the transaction.     *)
ListedNow(r) == Listed(r)

(* The address releasePayment is called for: the one in the mandate.       *)
TxPayee(r) == payTo[r]

PayableWhenEstimated(r) == TxPayee(r) \in Payee

(* releasePayment would succeed, at the block it is evaluated against.     *)
Payable(r) ==
    LET p == TxPayee(r) IN
    /\ p \in active \cap compliant
    /\ 0 < order[r].amount
    /\ order[r].amount <= perPaymentLimit[p]
    /\ order[r].amount <= allowance[p]
    /\ order[r].amount <= funds

Broadcast(r) == tx[r] # "none"

InBlock(r) == tx[r] \in {"mined", "reverted"}

NeverOverdue(r) == InBlock(r) /\ tx[r] = "pending"

Overdue(r) == tx[r] = "pending"

(* The foreign key of payee_payment_history.  The row has the identifier   *)
(* as the body spells it, which may be as stored (canonical) or in another *)
(* case; every lookup lowers it, so that it matters here only.             *)
RowAccepted(r, canonical) == canonical /\ Known(r)

ClassOf(outcome) ==
    [SETTLED |-> "ACCEPT", ATTEMPTED |-> "RETRYABLE", FAILED |-> "PERMANENT"][outcome]

------------------------------------------------------------------------------
(* The handler.                                                            *)

Advance(r, from, to) == stage[r] = from /\ stage' = [stage EXCEPT ![r] = to]

Receive(r, o) ==
    /\ Advance(r, "idle", "received")
    /\ order' = [order EXCEPT ![r] = o]
    /\ UNCHANGED <<directory, history, payTo, seen, verdict, tx, policyVars, accountVars>>

PreCheck(r) ==
    /\ Advance(r, "received", IF PassesPreCheck(r) THEN "checked" ELSE "refused")
    /\ seen' = IF PassesPreCheck(r) THEN [seen EXCEPT ![r] = {Listed(r)}] ELSE seen
    /\ UNCHANGED <<directory, history, order, payTo, verdict, tx, policyVars, accountVars>>

(* The directory is read a second time, and the mandate signed for what it *)
(* says then.                                                              *)
SignMandate(r) ==
    /\ Advance(r, "checked", IF Known(r) THEN "mandated" ELSE "refused")
    /\ payTo' = [payTo EXCEPT ![r] = Listed(r)]
    /\ UNCHANGED <<directory, history, order, seen, verdict, tx, policyVars, accountVars>>

(* The mandate is registered and observed at the Coordinator, whose answer *)
(* to the latter is not looked at; fetchAndVerify then judges the latest   *)
(* receipt with an empty sequence index, which rejects DISPUTED.  Another  *)
(* outcome is ok when its signatures, proof and capabilities are, and only *)
(* ok is looked at.                                                        *)
VerifyRejects(r) ==
    /\ Advance(r, "mandated", "refused")
    /\ UNCHANGED <<directory, history, order, payTo, seen, verdict, tx, policyVars, accountVars>>

VerifyOk(r, outcome) ==
    /\ Advance(r, "mandated", "verified")
    /\ verdict' = [verdict EXCEPT ![r] = ClassOf(outcome)]
    /\ UNCHANGED <<directory, history, order, payTo, seen, tx, policyVars, accountVars>>

(* writeContract estimates the gas first, which throws where the call      *)
(* would revert now; then the transaction is broadcast.                    *)
Submit(r) ==
    /\ Advance(r, "verified", "waiting")
    /\ Payable(r)
    /\ tx' = [tx EXCEPT ![r] = "pending"]
    /\ UNCHANGED <<directory, history, order, payTo, seen, verdict, policyVars, accountVars>>

(* waitForTransactionReceipt returns a receipt, whose status is not looked *)
(* at, and the row is inserted or violates the foreign key.                *)
Record(r, canonical) ==
    /\ InBlock(r)
    /\ Advance(r, "waiting", IF RowAccepted(r, canonical) THEN "recorded" ELSE "failed")
    /\ history' = IF RowAccepted(r, canonical) THEN history \cup {r} ELSE history
    /\ UNCHANGED <<directory, order, payTo, seen, verdict, tx, policyVars, accountVars>>

WaitTimesOut(r) ==
    /\ Overdue(r)
    /\ Advance(r, "waiting", "failed")
    /\ UNCHANGED <<directory, history, order, payTo, seen, verdict, tx, policyVars, accountVars>>

Respond(r) ==
    /\ Advance(r, "recorded", "released")
    /\ UNCHANGED <<directory, history, order, payTo, seen, verdict, tx, policyVars, accountVars>>

(* Reading the chain, building the mandate, the Coordinator, a payment     *)
(* without a receipt, or the estimate and the broadcast may throw.  A      *)
(* broadcast may throw although the transaction was taken.                 *)
CallThrows(r) ==
    /\ \E from \in {"received", "checked", "mandated", "verified"} :
          Advance(r, from, "failed")
    /\ \/ UNCHANGED tx
       \/ /\ stage[r] = "verified"
          /\ Payable(r)
          /\ tx' = [tx EXCEPT ![r] = "pending"]
    /\ UNCHANGED <<directory, history, order, payTo, seen, verdict, policyVars, accountVars>>

Handle(r) ==
    \/ PreCheck(r)
    \/ SignMandate(r)
    \/ VerifyRejects(r)
    \/ \E outcome \in Outcomes : VerifyOk(r, outcome)
    \/ Submit(r)
    \/ \E canonical \in BOOLEAN : Record(r, canonical)
    \/ WaitTimesOut(r)
    \/ Respond(r)
    \/ CallThrows(r)

Crash ==
    /\ \E r \in Request : stage[r] \in InProgress
    /\ stage' = [r \in Request |-> IF stage[r] \in InProgress THEN "lost" ELSE stage[r]]
    /\ UNCHANGED <<directory, history, order, payTo, seen, verdict, tx, policyVars, accountVars>>

------------------------------------------------------------------------------
(* The payee directory, changed by other requests.                         *)

Upsert(i, p) == directory' = [directory EXCEPT ![i] = p]

(* validatePayeePolicy, but for the spelling of identifiers and addresses, *)
(* which are well formed here.                                             *)
ValidPayeePolicy(policy) ==
    /\ policy.minKycLevel \in 0..4
    /\ policy.perPaymentLimit > 0
    /\ policy.dailyLimit > 0
    /\ policy.perPaymentLimit <= policy.dailyLimit

(* The bot's /addpayee validates a policy of its own making, and then      *)
(* writes the directory only: the treasury hears nothing of it.            *)
AddPayee(i, p) ==
    /\ ValidPayeePolicy([minKycLevel |-> 1, perPaymentLimit |-> 10000, dailyLimit |-> 50000])
    /\ Upsert(i, p)
    /\ seen' = [r \in Request |->
           IF stage[r] = "checked" /\ order[r].identifier = i THEN seen[r] \cup {p} ELSE seen[r]]
    /\ UNCHANGED <<history, stage, order, payTo, verdict, tx, policyVars, accountVars>>

UncheckedOnDelete(i) == i \notin Identifier

NamedInHistory(i) == \E r \in history : order[r].identifier = i

(* The foreign key refuses to delete a payee with history.                 *)
Delete(i) ==
    /\ directory[i] # NoPayee
    /\ ~NamedInHistory(i)
    /\ directory' = [directory EXCEPT ![i] = NoPayee]
    /\ UNCHANGED <<history, stage, order, payTo, seen, verdict, tx, policyVars, accountVars>>

------------------------------------------------------------------------------
(* The chain.  A transaction can stay pending for ever, and outlives the   *)
(* request that sent it.                                                   *)

Pay(r) ==
    /\ tx[r] = "pending"
    /\ Payable(r)
    /\ tx' = [tx EXCEPT ![r] = "mined"]
    /\ funds' = funds - order[r].amount
    /\ allowance' = [allowance EXCEPT ![TxPayee(r)] = @ - order[r].amount]
    /\ paid' = [paid EXCEPT ![r] = TxPayee(r)]
    /\ UNCHANGED <<backendVars, policyVars>>

Revert(r) ==
    /\ tx[r] = "pending"
    /\ ~Payable(r)
    /\ tx' = [tx EXCEPT ![r] = "reverted"]
    /\ UNCHANGED <<backendVars, policyVars, accountVars>>

(* Policy updates, and the roll of the daily window.                       *)
SetPolicy(p, isActive, limit, left) ==
    /\ active' = IF isActive THEN active \cup {p} ELSE active \ {p}
    /\ perPaymentLimit' = [perPaymentLimit EXCEPT ![p] = limit]
    /\ allowance' = [allowance EXCEPT ![p] = left]
    /\ UNCHANGED <<backendVars, tx, compliant, funds, paid>>

SetCompliance(payees) ==
    /\ compliant' = payees
    /\ UNCHANGED <<backendVars, tx, active, perPaymentLimit, accountVars>>

Deposit(amount) ==
    /\ funds + amount <= MaxFunds
    /\ funds' = funds + amount
    /\ UNCHANGED <<backendVars, tx, policyVars, allowance, paid>>

Chain ==
    \/ \E r \in Request : Pay(r) \/ Revert(r)
    \/ \E p \in Payee, isActive \in BOOLEAN, limit \in PaymentLimits, left \in Allowances :
          SetPolicy(p, isActive, limit, left)
    \/ \E payees \in Attested : SetCompliance(payees)
    \/ \E amount \in Amounts : Deposit(amount)

ReleaseNext ==
    \/ \E r \in Request : Handle(r) \/ \E o \in Order : Receive(r, o)
    \/ Crash
    \/ \E i \in Identifier : Delete(i) \/ \E p \in Payee : AddPayee(i, p)
    \/ Chain

(* Every await ends: fetch, the RPC transport and the wait for a receipt   *)
(* have timeouts, and the event loop serves every continuation.  Nothing   *)
(* is assumed of the clients, the Coordinator's verdict or the chain.      *)
ReleaseSpec ==
    ReleaseInit /\ [][ReleaseNext]_vars /\ \A r \in Request : WF_vars(Handle(r))

------------------------------------------------------------------------------
(* Properties.                                                             *)

Paid(r) == paid[r] # NoPayee

(* The answer, the transaction and the books agree as far as the code lets *)
(* them.  A request that a check refused never moves money, not even       *)
(* later.  A row, and with it a 201, exists only for a transaction in a    *)
(* block, and lacks its payment only where that transaction reverted.  A   *)
(* payment missing from the books is one whose client has no answer yet, a *)
(* 500, or a dead connection.                                              *)
BooksExplained ==
    \A r \in Request :
        /\ stage[r] = "refused" => tx[r] = "none"
        /\ stage[r] = "released" => r \in history
        /\ r \in history => Paid(r) \/ tx[r] = "reverted"
        /\ Paid(r) /\ r \notin history => stage[r] \in {"waiting", "failed", "lost"}

(* Every row names a payee of the directory, whatever was deleted,         *)
(* re-added or moved to another address while payments were in flight:     *)
(* getPaymentHistoryForPayee finds it under that payee, and the payee      *)
(* cannot be deleted from under it.                                        *)
HistoryHasPayee == \A r \in history : Known(r)

(* Money goes only to an address that the directory had for the payee      *)
(* between the two lookups of the request, and so, unless the payee was    *)
(* given another one just then, to the address whose policy was checked:   *)
(* never to one it is given later, while the Coordinator, the verifier,    *)
(* the gas estimate or the block is waited for.                            *)
PaidAsLookedUp == \A r \in Request : Paid(r) => paid[r] \in seen[r]

(* No request hangs: not on a dead Coordinator, nor on a transaction that  *)
(* is never mined.                                                         *)
EveryRequestAnswered ==
    \A r \in Request : stage[r] \in InProgress ~> stage[r] \in Answered

(* src/routes/payments.routes.ts, line 52, of HSP's verification and the   *)
(* treasury's own check: "Both checks are real and both must pass", where  *)
(* line 122 names the passing decision ACCEPT.                             *)
PaidOnlyOnAccept == \A r \in Request : Paid(r) => verdict[r] = "ACCEPT"

(* src/chain/payrollTreasuryClient.ts, lines 58-61: releasePaymentOnChain  *)
(* is there "to submit the tx and surface whatever the chain decides"; the *)
(* history is of payments released.                                        *)
RecordedMeansPaid == \A r \in history : Paid(r)
==============================================================================
