----------------------------- MODULE TelegramPay -----------------------------
(***************************************************************************)
(* /pay of the Telegram bot, any number at once: check the balance, check  *)
(* the payer's KYC at the registry on mainnet, sign and register a mandate,*)
(* transfer the tokens, let the Coordinator observe, verify by HspChecks.  *)
(* One step is what the handler does between two awaits; the wallet is     *)
(* read at the first and used to the last.  A message the user gets is the *)
(* stage a payment ends in.                                                *)
(***************************************************************************)
EXTENDS UserAccounts, HspCapabilities, Functions

CONSTANTS
    Payment,     \* /pay commands with an instruction
    Amounts,     \* bound: the amounts written
    MaxGiven     \* bound: what there is in all wallets

ASSUME PayAssumption == Amounts \subseteq Nat /\ MaxGiven \in Nat

VARIABLES
    stage, job,
    vetted,    \* history: the payments whose signer had KYC when it was checked
    tx,        \* the transfer of each payment
    balance,   \* USDC of each wallet, on the testnet
    attested   \* the wallets with a valid KYC attestation, on mainnet

payVars == <<stage, job, vetted, tx>>
chainVars == <<balance, attested>>
vars == <<accountVars, payVars, chainVars>>

Job == [user : User, from : Wallet, signer : Wallet, to : Wallet, amount : Nat]
NoJob == [user |-> None]

InProgress == {"asked", "funded", "checked", "registered", "waiting", "confirmed",
               "observed"}
Answered == {"succeeded",  \* Payment SETTLED - ACCEPT
             "refused",    \* no wallet, or insufficient balance
             "blocked",    \* KYC required
             "failed",     \* Payment failed
             "lost"}       \* no answer: the process died

PayTypeOK ==
    /\ AccountsTypeOK
    /\ stage \in [Payment -> {"idle"} \cup InProgress \cup Answered]
    /\ job \in [Payment -> Job \cup {NoJob}]
    /\ vetted \subseteq Payment
    /\ tx \in [Payment -> {"none", "pending", "mined", "reverted"}]
    /\ balance \in [Wallet -> Nat]
    /\ attested \subseteq Wallet

PayInit ==
    /\ AccountsInit
    /\ stage = [p \in Payment |-> "idle"]
    /\ job = [p \in Payment |-> NoJob]
    /\ vetted = {}
    /\ tx = [p \in Payment |-> "none"]
    /\ balance = [w \in Wallet |-> 0]
    /\ attested = {}

------------------------------------------------------------------------------
(* The handler of /pay.                                                    *)

Advance(p, from, to) == stage[p] = from /\ stage' = [stage EXCEPT ![p] = to]

(* The amount is the first number of the instruction: where the recipient  *)
(* comes first that is the 0 of its 0x.                                    *)
AmountRead(written, addressFirst) == IF addressFirst THEN 0 ELSE written

Ask(p, u, to, written, addressFirst) ==
    /\ Advance(p, "idle", IF HasWallet(u) THEN "asked" ELSE "refused")
    /\ Register(u)
    /\ job' = IF HasWallet(u)
              THEN [job EXCEPT ![p] = [user |-> u, from |-> address[u], signer |-> key[u], to |-> to,
                                       amount |-> AmountRead(written, addressFirst)]]
              ELSE job
    /\ UNCHANGED <<privyId, address, key, token, madeFor, vetted, tx, chainVars>>

(* A balance that cannot be read counts as 0.                              *)
BalanceSeen(w, readable) == IF readable THEN balance[w] ELSE 0

CheckBalance(p, readable) ==
    /\ stage[p] = "asked"
    /\ LET covers == BalanceSeen(job[p].from, readable) >= job[p].amount
       IN  Advance(p, "asked", IF covers THEN "funded" ELSE "refused")
    /\ UNCHANGED <<accountVars, job, vetted, tx, chainVars>>

(* A mutant: the check of another wallet than the mandate's payer.         *)
KycOfRecipient(p) == job[p].to \in attested

KycValid(p) == job[p].from \in attested

CheckKyc(p) ==
    /\ stage[p] = "funded"
    /\ Advance(p, "funded", IF KycValid(p) THEN "checked" ELSE "blocked")
    /\ vetted' = IF job[p].signer \in attested THEN vetted \cup {p} ELSE vetted
    /\ UNCHANGED <<accountVars, job, tx, chainVars>>

(* With MandateOf and AttestationOf, below.  The Coordinator may take the  *)
(* mandate whoever signed it.                                              *)
RegisterMandate(p) ==
    /\ Advance(p, "checked", "registered")
    /\ UNCHANGED <<accountVars, job, vetted, tx, chainVars>>

(* A mutant: the balance of the wallet that was checked.                   *)
CoveredByPayer(p) == job[p].amount <= balance[job[p].from]

Covered(p) == job[p].amount <= balance[job[p].signer]

(* The transfer is from the account of the key.  The estimate throws where *)
(* the balance does not cover it.                                          *)
SubmitTransfer(p) ==
    /\ Advance(p, "registered", "waiting")
    /\ Covered(p)
    /\ tx' = [tx EXCEPT ![p] = "pending"]
    /\ UNCHANGED <<accountVars, job, vetted, chainVars>>

(* Two confirmations; the status of the receipt is not looked at.          *)
Confirm(p) ==
    /\ tx[p] \in {"mined", "reverted"}
    /\ Advance(p, "waiting", "confirmed")
    /\ UNCHANGED <<accountVars, job, vetted, tx, chainVars>>

(* observePayment; whatever the Coordinator answers is ignored.            *)
Observe(p) ==
    /\ Advance(p, "confirmed", "observed")
    /\ UNCHANGED <<accountVars, job, vetted, tx, chainVars>>

(* A mutant: the backend's own address is not among them.                  *)
MockOnly == [f \in AttestedFamily |-> {"mock"}]

(* The issuers the backend pins: HSP's mock issuer and itself.             *)
Pinned == [f \in AttestedFamily |-> IF f = "risk-score" THEN {} ELSE {"mock", "nexash"}]

(* The policy, with no policyRequiredCapabilities.                         *)
Hsp == INSTANCE HspChecks WITH
           Nobody <- None, Adapter <- "adapter", PolicyRequires <- {}, TrustedIssuers <- Pinned,
           Admission <- "accept-new", AllowsAttempted <- TRUE, DisputeWindowMs <- 30000

(* buildSignedMandate: the payer is the address of the row, the signature  *)
(* that of the key.  Times are relative to the mandate's.                  *)
MandateOf(p) ==
    [hash |-> p, chainId |-> 133, requires |-> {KycFull}, committed |-> {KycFull},
     profile |-> "eip712-eoa", signer |-> job[p].from, signedBy |-> job[p].signer,
     recipient |-> [kind |-> "ADDRESS", id |-> job[p].to], token |-> "usdc",
     amount |-> job[p].amount, deadline |-> 15 * 60]

(* issueKycAttestationDirect, which asks nobody: kycLevel 3 is full.       *)
AttestationOf(p) ==
    [capability |-> KycFull, family |-> "kyc", value |-> KycFull.value, issuer |-> "nexash",
     signedBy |-> "nexash", subject |-> job[p].from, issuedAt |-> 0,
     expiresAt |-> 90 * 24 * 60 * 60, context |-> "none"]

(* buildAndSignReceipt: the transfer that the adapter found on the chain.  *)
ReceiptOf(p) ==
    [hash |-> "receipt", mandate |-> p, adapter |-> "evm-transfer", signedBy |-> "adapter",
     seq |-> 0, outcome |-> "SETTLED", settledAt |-> 0, proofSchema |-> "evm-transfer",
     proof |-> [from |-> job[p].signer, to |-> job[p].to, token |-> "usdc", chainId |-> 133,
                value |-> job[p].amount, txHash |-> p]]

(* The Coordinator has a receipt only for a transfer in a block.           *)
Acceptable(p) ==
    tx[p] = "mined" /\ Hsp!Accepts(MandateOf(p), ReceiptOf(p), {AttestationOf(p)}, 0)

(* fetchAndVerify.  The Coordinator may have no receipt to show yet.       *)
ReportAccepted(p) ==
    /\ Acceptable(p)
    /\ Advance(p, "observed", "succeeded")
    /\ UNCHANGED <<accountVars, job, vetted, tx, chainVars>>

ReportNotAccepted(p) ==
    /\ Advance(p, "observed", "failed")
    /\ UNCHANGED <<accountVars, job, vetted, tx, chainVars>>

(* A mutant: an error is told as if nothing could have happened.           *)
RefusedAfterThrow(p) == "refused"

AnswerAfterThrow(p) == "failed"

(* Registry, Coordinator and RPC node may fail at every call, the wait may *)
(* time out, and the broadcast may throw although the node took it.        *)
CallThrows(p) ==
    /\ \E from \in InProgress \ {"asked"} : Advance(p, from, AnswerAfterThrow(p))
    /\ \/ UNCHANGED tx
       \/ /\ stage[p] = "registered"
          /\ Covered(p)
          /\ tx' = [tx EXCEPT ![p] = "pending"]
    /\ UNCHANGED <<accountVars, job, vetted, chainVars>>

HandlePay(p) ==
    \/ \E readable \in BOOLEAN : CheckBalance(p, readable)
    \/ CheckKyc(p)
    \/ RegisterMandate(p)
    \/ SubmitTransfer(p)
    \/ Confirm(p)
    \/ Observe(p)
    \/ ReportAccepted(p)
    \/ ReportNotAccepted(p)
    \/ CallThrows(p)

Crash ==
    /\ \E p \in Payment : stage[p] \in InProgress
    /\ stage' = [p \in Payment |-> IF stage[p] \in InProgress THEN "lost" ELSE stage[p]]
    /\ UNCHANGED <<accountVars, job, vetted, tx, chainVars>>

------------------------------------------------------------------------------
(* The two chains.                                                         *)

Transfer(p) ==
    /\ tx[p] = "pending"
    /\ Covered(p)
    /\ tx' = [tx EXCEPT ![p] = "mined"]
    /\ balance' = [[balance EXCEPT ![job[p].signer] = @ - job[p].amount]
                      EXCEPT ![job[p].to] = @ + job[p].amount]
    /\ UNCHANGED <<accountVars, stage, job, vetted, attested>>

Revert(p) ==
    /\ tx[p] = "pending"
    /\ ~Covered(p)
    /\ tx' = [tx EXCEPT ![p] = "reverted"]
    /\ UNCHANGED <<accountVars, stage, job, vetted, chainVars>>

Total(f) == SumFunctionOnSet(f, DOMAIN f)

(* The faucet may have given although its answer is lost.                  *)
CallHspFaucet(w, amount) ==
    /\ Total(balance) + amount <= MaxGiven
    /\ balance' = [balance EXCEPT ![w] = @ + amount]

(* /faucet is for the address of the row, not the account of the key.      *)
Faucet(u, amount) ==
    /\ HasWallet(u)
    /\ CallHspFaucet(address[u], amount)
    /\ UNCHANGED <<accountVars, payVars, attested>>

(* /kyc, an issuer, a revocation, or time: see KycIssuance.                *)
Attest(w) ==
    /\ w \notin attested
    /\ attested' = attested \cup {w}
    /\ UNCHANGED <<accountVars, payVars, balance>>

Withdraw(w) ==
    /\ w \in attested
    /\ attested' = attested \ {w}
    /\ UNCHANGED <<accountVars, payVars, balance>>

PayNext ==
    \/ AccountsNext /\ UNCHANGED <<payVars, chainVars>>
    \/ \E p \in Payment :
          \/ \E u \in User, to \in Wallet, written \in Amounts, addressFirst \in BOOLEAN :
                Ask(p, u, to, written, addressFirst)
          \/ HandlePay(p)
          \/ Transfer(p)
          \/ Revert(p)
    \/ Crash
    \/ \E u \in User, amount \in Amounts : Faucet(u, amount)
    \/ \E w \in Wallet : Attest(w) \/ Withdraw(w)

PaySpec == PayInit /\ [][PayNext]_vars

------------------------------------------------------------------------------
(* Properties.                                                             *)

(* What the user is told and what happened.  A payment that was refused or *)
(* blocked never moves money, not even later; one reported as settled has  *)
(* moved it; and money that moves unreported belongs to a payment still in *)
(* progress, reported as failed, or cut off: those a user may repeat.      *)
AnswersExplained ==
    \A p \in Payment :
        /\ stage[p] \in {"idle", "refused", "blocked"} => tx[p] = "none"
        /\ stage[p] = "succeeded" => tx[p] = "mined"
        /\ tx[p] = "mined" => stage[p] \in {"succeeded", "waiting", "confirmed", "observed",
                                       "failed", "lost"}

(* When a payment comes to be verified, the money is gone.  The verifier   *)
(* accepts none that another account paid than the one the mandate names;  *)
(* and while a user has not linked, nothing that happened on the way makes *)
(* it reject one whose transfer is in a block: the mandate, the attestation*)
(* and the receipt made for it pass all of its checks.                     *)
AcceptableUnlessLinked ==
    \A p \in Payment : stage[p] \in {"confirmed", "observed"} /\ tx[p] = "mined" =>
        /\ Acceptable(p) => job[p].from = job[p].signer
        /\ Acceptable(p) \/ Linked(job[p].user)

(* No account pays whose KYC was not found valid before, of a user who has *)
(* not linked; of one who has, the wallet that was checked and the account *)
(* that pays may be two.  But no such payment is reported as settled: the  *)
(* verifier sees that the mandate is not signed by its payer.              *)
PayerVettedUnlessLinked ==
    \A p \in Payment :
        /\ tx[p] # "none" => p \in vetted \/ Linked(job[p].user)
        /\ stage[p] = "succeeded" => p \in vetted
==============================================================================
