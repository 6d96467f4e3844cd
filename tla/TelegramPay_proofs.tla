-------------------------- MODULE TelegramPay_proofs --------------------------
(***************************************************************************)
(* Theorems about accounts and /pay, for any number of users, wallets,     *)
(* link tokens and concurrent payments.                                    *)
(***************************************************************************)
EXTENDS TelegramPay, TLAPS

(* How far a payment has come, and what it knows.                          *)
Unpaid == {"idle", "refused", "blocked", "asked", "funded", "checked", "registered"}
Vetting == {"checked", "registered", "waiting", "confirmed", "observed"}

OneAccount(p) == job[p].from = job[p].signer

JobGiven(p) == stage[p] \notin {"idle", "refused"} => job[p] \in Job

PayerExplained(p) == job[p] \in Job => OneAccount(p) \/ Linked(job[p].user)

MoneyExplained(p) ==
    /\ stage[p] \in Unpaid => tx[p] = "none"
    /\ stage[p] = "succeeded" => tx[p] = "mined" /\ p \in vetted

Vetted(p) == (stage[p] \in Vetting \/ tx[p] # "none") /\ OneAccount(p) => p \in vetted

Consistent(p) == JobGiven(p) /\ PayerExplained(p) /\ MoneyExplained(p) /\ Vetted(p)

PayInv == PayTypeOK /\ KeyKeptUnlessLinked /\ \A p \in Payment : Consistent(p)

------------------------------------------------------------------------------
(* The verifier's part.                                                    *)

(* Whatever is accepted was signed by the account that is to pay.          *)
LEMMA AcceptedIsSignedByPayer ==
    ASSUME NEW p \in Payment, Acceptable(p)
    PROVE  tx[p] = "mined" /\ OneAccount(p)
<1>1. tx[p] = "mined" /\ Hsp!Accepts(MandateOf(p), ReceiptOf(p), {AttestationOf(p)}, 0)
    BY DEF Acceptable
<1>2. Hsp!PhaseA(MandateOf(p)) = "none"
    BY <1>1 DEF Hsp!Accepts, Hsp!RefusalUnread
<1>3. Hsp!SignerGranted(MandateOf(p))
    BY <1>2 DEF Hsp!PhaseA
<1>4. QED
    BY <1>1, <1>3 DEF Hsp!SignerGranted, MandateOf, OneAccount

(* Whatever is signed by the account that is to pay is accepted, once its  *)
(* transfer is in a block.                                                 *)
LEMMA SignedByPayerIsAccepted ==
    ASSUME NEW p \in Payment, job[p] \in Job, OneAccount(p), tx[p] = "mined"
    PROVE  Acceptable(p)
<1> DEFINE m == MandateOf(p)
           r == ReceiptOf(p)
           a == AttestationOf(p)
<1>1. Hsp!PhaseA(m) = "none"
    BY AccountsAssumption DEF OneAccount, Job, MandateOf, Hsp!PhaseA, Hsp!SignerGranted
<1>2. Hsp!Provenance(m, r) = "none"
    BY DEF MandateOf, ReceiptOf, Hsp!Provenance
<1>3. Hsp!RefusalAtIndex(r, {}) = "none"
    BY DEF ReceiptOf, Hsp!RefusalAtIndex, Hsp!Equivocates, Hsp!OfMandate, Hsp!Admissible
<1>4. Hsp!ProofHolds(m, r)
    BY DEF OneAccount, MandateOf, ReceiptOf, Hsp!ProofHolds, Hsp!HidesAmount, KycFull
<1>5. Hsp!Attested(KycFull, m, r, {a}, 0)
  <2>1. Hsp!Granted(a) = a.capability /\ Hsp!Satisfies(KycFull, Hsp!Granted(a))
      BY DEF AttestationOf, Hsp!Granted, Hsp!Satisfies, KycFull
  <2>2. Hsp!ValidCR2(a, m, r, 0)
      BY DEF AttestationOf, MandateOf, Hsp!ValidCR2, Hsp!IssuedByTrusted, Hsp!ExpectedSubject,
             Pinned, AttestedFamily
  <2>3. QED
      BY <2>1, <2>2 DEF Hsp!Attested
<1>6. Hsp!CapabilityRefusals(m, r, {a}, 0) = {"none"}
  <2>1. m.requires = {KycFull} /\ KycFull \in Hsp!Registered
      BY DEF MandateOf, Hsp!Registered, Hsp!KycFull, KycFull
  <2> HIDE DEF m, r, a
  <2>2. QED
      BY <1>5, <2>1 DEF Hsp!CapabilityRefusals
<1>7. ~Hsp!Late(m, r)
    BY DEF MandateOf, ReceiptOf, Hsp!Late
<1>8. Hsp!Sequencing(r, {}) = {"none"}
    BY DEF ReceiptOf, Hsp!Sequencing, Hsp!Stale
<1>9. ~Hsp!TakenByOther(r, {})
    BY DEF Hsp!TakenByOther
<1>10. Hsp!Refusals(m, r, {a}, 0, {}, {}) = {"none"}
  <2> HIDE DEF m, r, a
  <2>1. QED
      BY <1>4, <1>6, <1>7, <1>8, <1>9 DEF Hsp!Refusals
<1>11. Hsp!ClassForOk(r.outcome) = "ACCEPT"
    BY DEF ReceiptOf, Hsp!ClassForOk
<1>12. QED
    BY <1>1, <1>2, <1>3, <1>10, <1>11 DEF Acceptable, Hsp!Accepts, Hsp!RefusalUnread

------------------------------------------------------------------------------
(* Accounts.                                                               *)

(* A token that is still good is somebody's.                               *)
LEMMA ConsumableIsOwned ==
    ASSUME AccountsTypeOK, NEW t \in Token, Consumable(t)
    PROVE  /\ token[t].user \in User
           /\ token[t] = [user |-> token[t].user, state |-> "open"]
<1>1. token[t] \in LinkToken
    BY DEF AccountsTypeOK, Consumable, NoToken
<1>2. QED
    BY <1>1 DEF LinkToken, Consumable

(* A user is never unlinked, and the tables keep their types.              *)
LEMMA AccountsKeepType ==
    ASSUME AccountsTypeOK, AccountsNext
    PROVE  AccountsTypeOK' /\ \A u \in User : Linked(u) => Linked(u)'
<1> USE AccountsAssumption DEF AccountsTypeOK, Linked
<1>1. ASSUME NEW u \in User, ShowWallet(u)
      PROVE  AccountsTypeOK' /\ \A v \in User : Linked(v) => Linked(v)'
    BY <1>1 DEF ShowWallet, Register
<1>2. ASSUME NEW u \in User, NEW w \in Wallet, StartWithNewWallet(u, w)
      PROVE  AccountsTypeOK' /\ \A v \in User : Linked(v) => Linked(v)'
    BY <1>2 DEF StartWithNewWallet, Register
<1>3. ASSUME NEW u \in User, NEW t \in Token, AskForLink(u, t)
      PROVE  AccountsTypeOK' /\ \A v \in User : Linked(v) => Linked(v)'
  <2>1. [user |-> u, state |-> "open"] \in LinkToken
      BY DEF LinkToken
  <2>2. QED
      BY <1>3, <2>1 DEF AskForLink, CreateLinkToken, Register
<1>4. ASSUME NEW t \in Token, ExpireToken(t)
      PROVE  AccountsTypeOK' /\ \A v \in User : Linked(v) => Linked(v)'
  <2>1. [token[t] EXCEPT !.state = "expired"] \in LinkToken
      BY <1>4, ConsumableIsOwned DEF ExpireToken, LinkToken, Consumable
  <2>2. QED
      BY <1>4, <2>1 DEF ExpireToken
<1>5. ASSUME NEW t \in Token, NEW x \in PrivyId, NEW w \in Wallet \cup {None}, Link(t, x, w)
      PROVE  AccountsTypeOK' /\ \A v \in User : Linked(v) => Linked(v)'
  <2>1. token[t].user \in User /\ [token[t] EXCEPT !.state = "used"] \in LinkToken
      BY <1>5, ConsumableIsOwned DEF Link, Consume, LinkToken
  <2>2. QED
      BY <1>5, <2>1 DEF Link, Consume, LinkPrivyToUser
<1>6. QED
    BY <1>1, <1>2, <1>3, <1>4, <1>5 DEF AccountsNext

(* Address and key part only when a user links.                            *)
LEMMA AccountsKeepKeys ==
    ASSUME AccountsTypeOK, KeyKeptUnlessLinked, AccountsNext
    PROVE  KeyKeptUnlessLinked'
<1> USE AccountsAssumption DEF AccountsTypeOK, Linked, KeyKeptUnlessLinked
<1>1. ASSUME NEW u \in User, ShowWallet(u) PROVE KeyKeptUnlessLinked'
    BY <1>1 DEF ShowWallet
<1>2. ASSUME NEW u \in User, NEW w \in Wallet, StartWithNewWallet(u, w)
      PROVE  KeyKeptUnlessLinked'
    BY <1>2 DEF StartWithNewWallet, LacksWallet, HasWallet, NewWallet
<1>3. ASSUME NEW u \in User, NEW t \in Token, AskForLink(u, t)
      PROVE  KeyKeptUnlessLinked'
    BY <1>3 DEF AskForLink, CreateLinkToken
<1>4. ASSUME NEW t \in Token, ExpireToken(t) PROVE KeyKeptUnlessLinked'
    BY <1>4 DEF ExpireToken
<1>5. ASSUME NEW t \in Token, NEW x \in PrivyId, NEW w \in Wallet \cup {None}, Link(t, x, w)
      PROVE  KeyKeptUnlessLinked'
    BY <1>5, ConsumableIsOwned DEF Link, Consume, LinkPrivyToUser
<1>6. QED
    BY <1>1, <1>2, <1>3, <1>4, <1>5 DEF AccountsNext

(* A Privy account gets a row only by the user's own unused code.          *)
LEMMA AccountsSpendOwnCode ==
    ASSUME AccountsTypeOK, AccountsNext, NEW u \in User, RowChanges(u)
    PROVE  OwnCodeSpent(u) \/ NewKeyMade(u)
<1> USE AccountsAssumption DEF AccountsTypeOK, Linked, RowChanges
<1>1. ASSUME NEW v \in User, ShowWallet(v) PROVE FALSE
    BY <1>1 DEF ShowWallet
<1>2. ASSUME NEW v \in User, NEW w \in Wallet, StartWithNewWallet(v, w)
      PROVE  NewKeyMade(u)
    BY <1>2 DEF StartWithNewWallet, NewWallet, NewKeyMade
<1>3. ASSUME NEW v \in User, NEW t \in Token, AskForLink(v, t) PROVE FALSE
    BY <1>3 DEF AskForLink, CreateLinkToken
<1>4. ASSUME NEW t \in Token, ExpireToken(t) PROVE FALSE
    BY <1>4 DEF ExpireToken
<1>5. ASSUME NEW t \in Token, NEW x \in PrivyId, NEW w \in Wallet \cup {None}, Link(t, x, w)
      PROVE  OwnCodeSpent(u)
  <2>1. token[t] = [user |-> token[t].user, state |-> "open"] /\ token'[t].state = "used"
      BY <1>5, ConsumableIsOwned DEF Link, Consume, LinkToken
  <2>2. u = token[t].user
      BY <1>5 DEF Link, Consume, LinkPrivyToUser
  <2>3. QED
      BY <2>1, <2>2 DEF OwnCodeSpent
<1>6. QED
    BY <1>1, <1>2, <1>3, <1>4, <1>5 DEF AccountsNext

------------------------------------------------------------------------------
(* The handler.                                                            *)

Stages == {"idle"} \cup InProgress \cup Answered
Transactions == {"none", "pending", "mined", "reverted"}

(* What every step of the handler keeps to.                                *)
HandleStep(p) ==
    /\ UNCHANGED <<accountVars, job, chainVars>>
    /\ stage' \in [Payment -> Stages]
    /\ tx' \in [Payment -> Transactions]
    /\ vetted \subseteq vetted' /\ vetted' \subseteq Payment
    /\ \A q \in Payment : q # p => stage'[q] = stage[q] /\ tx'[q] = tx[q]
    /\ stage[p] \in InProgress
    /\ stage'[p] \in Unpaid => tx'[p] = "none"
    /\ stage'[p] = "succeeded" => tx'[p] = "mined" /\ OneAccount(p) /\ stage[p] = "observed"
    /\ stage'[p] \in Vetting \/ tx'[p] # "none" =>
           \/ stage[p] \in Vetting
           \/ tx[p] # "none"
           \/ OneAccount(p) => p \in vetted'

LEMMA HandleIsHandleStep ==
    ASSUME PayInv, NEW p \in Payment, HandlePay(p)
    PROVE  HandleStep(p)
<1> USE DEF PayInv, PayTypeOK, HandleStep, Advance, Stages, Transactions, InProgress, Answered,
            Unpaid, Vetting, MoneyExplained, Consistent, accountVars, chainVars
<1>1. ASSUME NEW readable \in BOOLEAN, CheckBalance(p, readable) PROVE HandleStep(p)
    BY <1>1 DEF CheckBalance, BalanceSeen
<1>2. ASSUME CheckKyc(p) PROVE HandleStep(p)
    BY <1>2 DEF CheckKyc, KycValid, OneAccount
<1>3. ASSUME RegisterMandate(p) PROVE HandleStep(p)
    BY <1>3 DEF RegisterMandate
<1>4. ASSUME SubmitTransfer(p) PROVE HandleStep(p)
    BY <1>4 DEF SubmitTransfer
<1>5. ASSUME Confirm(p) PROVE HandleStep(p)
    BY <1>5 DEF Confirm
<1>6. ASSUME Observe(p) PROVE HandleStep(p)
    BY <1>6 DEF Observe
<1>7. ASSUME ReportAccepted(p) PROVE HandleStep(p)
    BY <1>7, AcceptedIsSignedByPayer DEF ReportAccepted
<1>8. ASSUME ReportNotAccepted(p) PROVE HandleStep(p)
    BY <1>8 DEF ReportNotAccepted
<1>9. ASSUME CallThrows(p) PROVE HandleStep(p)
    BY <1>9 DEF CallThrows, AnswerAfterThrow
<1>10. QED
    BY <1>1, <1>2, <1>3, <1>4, <1>5, <1>6, <1>7, <1>8, <1>9 DEF HandlePay

(* No step of the handler breaks the invariant.                            *)
LEMMA HandleKeepsInv ==
    ASSUME PayInv, NEW p \in Payment, HandlePay(p)
    PROVE  PayInv'
<1> USE DEF PayInv
<1>1. HandleStep(p)
    BY HandleIsHandleStep
<1>2. PayTypeOK' /\ KeyKeptUnlessLinked'
    BY <1>1 DEF HandleStep, PayTypeOK, AccountsTypeOK, KeyKeptUnlessLinked, Linked, accountVars,
                chainVars, Stages, Transactions
<1>3. ASSUME NEW q \in Payment, q # p PROVE Consistent(q)'
    BY <1>1, <1>3 DEF HandleStep, Consistent, JobGiven, PayerExplained, MoneyExplained, Vetted,
                      OneAccount, Linked, accountVars
<1>4. Consistent(p)'
    BY <1>1 DEF HandleStep, Consistent, JobGiven, PayerExplained, MoneyExplained, Vetted,
                OneAccount, Linked, accountVars, InProgress, Vetting
<1>5. QED
    BY <1>2, <1>3, <1>4

(* A command is given what the row says, which is one account until the    *)
(* user links.                                                             *)
LEMMA AskKeepsInv ==
    ASSUME PayInv, NEW p \in Payment, NEW u \in User, NEW to \in Wallet, NEW written \in Amounts,
           NEW addressFirst \in BOOLEAN, Ask(p, u, to, written, addressFirst)
    PROVE  PayInv'
<1> USE DEF PayInv, PayTypeOK, Ask, Advance, Register, chainVars
<1>1. stage[p] = "idle" /\ tx[p] = "none"
    BY DEF Consistent, MoneyExplained, Unpaid
<1>2. AccountsTypeOK' /\ KeyKeptUnlessLinked'
    BY DEF AccountsTypeOK, KeyKeptUnlessLinked, Linked
<1>3. ASSUME HasWallet(u)
      PROVE  /\ job'[p] \in Job
             /\ job' \in [Payment -> Job \cup {NoJob}]
             /\ (OneAccount(p) \/ Linked(job[p].user))'
  <2> DEFINE j == [user |-> u, from |-> address[u], signer |-> key[u], to |-> to,
                   amount |-> AmountRead(written, addressFirst)]
  <2>1. j \in Job
      BY <1>3, PayAssumption DEF HasWallet, AccountsTypeOK, AmountRead, Job
  <2>2. j.from = j.signer \/ Linked(u)
      BY DEF KeyKeptUnlessLinked
  <2>3. job' = [job EXCEPT ![p] = j]
      BY <1>3
  <2>4. QED
      BY <2>1, <2>2, <2>3 DEF OneAccount, Linked
<1>4. job' \in [Payment -> Job \cup {NoJob}] /\ \A q \in Payment : q # p => job'[q] = job[q]
    BY <1>3
<1>5. PayTypeOK'
    BY <1>2, <1>4 DEF InProgress, Answered
<1>6. ASSUME NEW q \in Payment, q # p PROVE Consistent(q)'
    BY <1>4, <1>6 DEF Consistent, JobGiven, PayerExplained, MoneyExplained, Vetted, OneAccount, Linked
<1>7. Consistent(p)'
  <2>1. CASE HasWallet(u)
      BY <1>1, <1>3, <2>1 DEF Consistent, JobGiven, PayerExplained, MoneyExplained, Vetted, Vetting
  <2>2. CASE ~HasWallet(u)
      BY <1>1, <2>2 DEF Consistent, JobGiven, PayerExplained, MoneyExplained, Vetted, Vetting,
                        OneAccount, Linked
  <2>3. QED
      BY <2>1, <2>2
<1>8. QED
    BY <1>2, <1>5, <1>6, <1>7

(* A request lost in a crash keeps its transaction.                        *)
LEMMA CrashKeepsInv ==
    ASSUME PayInv, Crash
    PROVE  PayInv'
<1> USE DEF PayInv, Crash, accountVars, chainVars
<1>1. PayTypeOK' /\ KeyKeptUnlessLinked'
    BY DEF PayTypeOK, AccountsTypeOK, KeyKeptUnlessLinked, Linked, Answered
<1>2. ASSUME NEW p \in Payment PROVE Consistent(p)'
  <2>1. stage'[p] = stage[p] \/ (stage[p] \in InProgress /\ stage'[p] = "lost")
      OBVIOUS
  <2>2. QED
      BY <2>1 DEF Consistent, JobGiven, PayerExplained, MoneyExplained, Vetted, OneAccount, Linked,
                  InProgress, Unpaid, Vetting
<1>3. QED
    BY <1>1, <1>2

------------------------------------------------------------------------------
(* The chains.                                                             *)

(* A transfer is only ever of a payment that is far enough, and of what    *)
(* the account has.                                                        *)
LEMMA TransferKeepsType ==
    ASSUME PayInv, NEW p \in Payment, Transfer(p)
    PROVE  balance' \in [Wallet -> Nat]
<1>1. job[p] \in Job
    BY DEF PayInv, Consistent, MoneyExplained, JobGiven, Transfer, Unpaid
<1>2. /\ job[p].signer \in Wallet /\ job[p].to \in Wallet /\ job[p].amount \in Nat
      /\ balance \in [Wallet -> Nat]
    BY <1>1 DEF Job, PayInv, PayTypeOK
<1>3. job[p].amount <= balance[job[p].signer]
    BY DEF Transfer, Covered
<1>4. [balance EXCEPT ![job[p].signer] = @ - job[p].amount] \in [Wallet -> Nat]
    BY <1>2, <1>3
<1>5. QED
    BY <1>2, <1>4 DEF Transfer

LEMMA TransferKeepsInv ==
    ASSUME PayInv, NEW p \in Payment, Transfer(p) \/ Revert(p)
    PROVE  PayInv'
<1> USE DEF PayInv, PayTypeOK, accountVars, chainVars
<1>1. /\ UNCHANGED <<accountVars, stage, job, vetted, attested>>
      /\ tx[p] = "pending"
      /\ tx' \in [Payment -> {"none", "pending", "mined", "reverted"}]
      /\ tx'[p] # "none"
      /\ \A q \in Payment : q # p => tx'[q] = tx[q]
    BY DEF Transfer, Revert
<1>2. balance' \in [Wallet -> Nat]
    BY TransferKeepsType DEF Transfer, Revert
<1>3. PayTypeOK' /\ KeyKeptUnlessLinked'
    BY <1>1, <1>2 DEF AccountsTypeOK, KeyKeptUnlessLinked, Linked
<1>4. ASSUME NEW q \in Payment PROVE Consistent(q)'
  <2>1. CASE q = p
      BY <1>1, <2>1 DEF Consistent, JobGiven, PayerExplained, MoneyExplained, Vetted, OneAccount,
                        Linked, Unpaid
  <2>2. CASE q # p
      BY <1>1, <2>2 DEF Consistent, JobGiven, PayerExplained, MoneyExplained, Vetted, OneAccount,
                        Linked
  <2>3. QED
      BY <2>1, <2>2
<1>5. QED
    BY <1>3, <1>4

(* Gifts and attestations concern no payment.                              *)
LEMMA OthersKeepInv ==
    ASSUME PayInv, UNCHANGED <<accountVars, payVars>>,
           balance' \in [Wallet -> Nat], attested' \subseteq Wallet
    PROVE  PayInv'
    BY DEF PayInv, PayTypeOK, AccountsTypeOK, KeyKeptUnlessLinked, Consistent, JobGiven,
           PayerExplained, MoneyExplained, Vetted, OneAccount, Linked, accountVars, payVars

LEMMA FaucetKeepsInv ==
    ASSUME PayInv, NEW u \in User, NEW amount \in Amounts, Faucet(u, amount)
    PROVE  PayInv'
<1>1. amount \in Nat /\ address[u] \in Wallet
    BY PayAssumption DEF Faucet, CallHspFaucet, HasWallet, PayInv, PayTypeOK, AccountsTypeOK
<1>2. balance' \in [Wallet -> Nat] /\ attested' \subseteq Wallet
    BY <1>1 DEF Faucet, CallHspFaucet, PayInv, PayTypeOK
<1>3. QED
    BY <1>2, OthersKeepInv DEF Faucet, CallHspFaucet

LEMMA AttestationsKeepInv ==
    ASSUME PayInv, NEW w \in Wallet, Attest(w) \/ Withdraw(w)
    PROVE  PayInv'
<1>1. balance' \in [Wallet -> Nat] /\ attested' \subseteq Wallet
    BY DEF Attest, Withdraw, PayInv, PayTypeOK
<1>2. QED
    BY <1>1, OthersKeepInv DEF Attest, Withdraw

(* Nothing an account goes through changes what a payment was given.       *)
LEMMA AccountsKeepInv ==
    ASSUME PayInv, AccountsNext, UNCHANGED <<payVars, chainVars>>
    PROVE  PayInv'
<1> USE DEF PayInv, PayTypeOK, payVars, chainVars
<1>1. PayTypeOK' /\ KeyKeptUnlessLinked'
    BY AccountsKeepType, AccountsKeepKeys
<1>2. ASSUME NEW p \in Payment PROVE Consistent(p)'
  <2>1. job[p] \in Job => job[p].user \in User
      BY DEF Job
  <2>2. PayerExplained(p)'
      BY <2>1, AccountsKeepType DEF Consistent, PayerExplained, OneAccount
  <2>3. QED
      BY <2>2 DEF Consistent, JobGiven, MoneyExplained, Vetted, OneAccount
<1>3. QED
    BY <1>1, <1>2

------------------------------------------------------------------------------
(* Theorems.                                                               *)

LEMMA PayInitInv == PayInit => PayInv
<1> SUFFICES ASSUME PayInit PROVE PayInv
    OBVIOUS
<1> USE AccountsAssumption DEF PayInit, AccountsInit
<1>1. PayTypeOK
    BY DEF PayTypeOK, AccountsTypeOK
<1>2. KeyKeptUnlessLinked
    BY DEF KeyKeptUnlessLinked
<1>3. ASSUME NEW p \in Payment PROVE Consistent(p)
  <2>1. None \notin User
      OBVIOUS
  <2>2. NoJob \notin Job
      BY <2>1 DEF NoJob, Job
  <2>3. QED
      BY <2>2 DEF Consistent, JobGiven, PayerExplained, MoneyExplained, Vetted, Vetting
<1>4. QED
    BY <1>1, <1>2, <1>3 DEF PayInv

LEMMA PayInvInductive == PayInv /\ [PayNext]_vars => PayInv'
<1> SUFFICES ASSUME PayInv, [PayNext]_vars PROVE PayInv'
    OBVIOUS
<1>1. ASSUME AccountsNext, UNCHANGED <<payVars, chainVars>> PROVE PayInv'
    BY <1>1, AccountsKeepInv
<1>2. ASSUME NEW p \in Payment, NEW u \in User, NEW to \in Wallet, NEW written \in Amounts,
             NEW addressFirst \in BOOLEAN, Ask(p, u, to, written, addressFirst)
      PROVE  PayInv'
    BY <1>2, AskKeepsInv
<1>3. ASSUME NEW p \in Payment, HandlePay(p) PROVE PayInv'
    BY <1>3, HandleKeepsInv
<1>4. ASSUME NEW p \in Payment, Transfer(p) \/ Revert(p) PROVE PayInv'
    BY <1>4, TransferKeepsInv
<1>5. ASSUME Crash PROVE PayInv'
    BY <1>5, CrashKeepsInv
<1>6. ASSUME NEW u \in User, NEW amount \in Amounts, Faucet(u, amount) PROVE PayInv'
    BY <1>6, FaucetKeepsInv
<1>7. ASSUME NEW w \in Wallet, Attest(w) \/ Withdraw(w) PROVE PayInv'
    BY <1>7, AttestationsKeepInv
<1>8. CASE UNCHANGED vars
    BY <1>8 DEF PayInv, PayTypeOK, AccountsTypeOK, KeyKeptUnlessLinked, Consistent, JobGiven,
                PayerExplained, MoneyExplained, Vetted, OneAccount, Linked, vars, accountVars,
                payVars, chainVars
<1>9. QED
    BY <1>1, <1>2, <1>3, <1>4, <1>5, <1>6, <1>7, <1>8 DEF PayNext

LEMMA PayInvHolds == PaySpec => []PayInv
<1>1. PayInit => PayInv
    BY PayInitInv
<1>2. PayInv /\ [PayNext]_vars => PayInv'
    BY PayInvInductive
<1>3. QED
    BY <1>1, <1>2, PTL DEF PaySpec

(* Tables, payments and balances are typed: no transfer overdraws an       *)
(* account, however many were told the same balance.                       *)
THEOREM PayTypeCorrect == PaySpec => []PayTypeOK
<1>1. PayInv => PayTypeOK
    BY DEF PayInv
<1>2. QED
    BY <1>1, PayInvHolds, PTL

(* Until a user links, address and key of the row are of the one wallet    *)
(* that was ever made for that user.                                       *)
THEOREM KeysAreKept == PaySpec => []KeyKeptUnlessLinked
<1>1. PayInv => KeyKeptUnlessLinked
    BY DEF PayInv
<1>2. QED
    BY <1>1, PayInvHolds, PTL

(* What the user is told explains what became of the transfer.             *)
THEOREM AnswersAreExplained == PaySpec => []AnswersExplained
<1>1. PayInv => AnswersExplained
  <2> SUFFICES ASSUME PayInv, NEW p \in Payment
               PROVE  /\ stage[p] \in {"idle", "refused", "blocked"} => tx[p] = "none"
                      /\ stage[p] = "succeeded" => tx[p] = "mined"
                      /\ tx[p] = "mined" => stage[p] \in {"succeeded", "waiting", "confirmed",
                                                         "observed", "failed", "lost"}
      BY DEF AnswersExplained
  <2>1. MoneyExplained(p) /\ stage[p] \in {"idle"} \cup InProgress \cup Answered
      BY DEF PayInv, PayTypeOK, Consistent
  <2>2. QED
      BY <2>1 DEF MoneyExplained, Unpaid, InProgress, Answered
<1>2. QED
    BY <1>1, PayInvHolds, PTL

(* The account that pays was vetted, unless its user has linked another;   *)
(* and always where the payment is reported as settled.                    *)
THEOREM PayersAreVetted == PaySpec => []PayerVettedUnlessLinked
<1>1. PayInv => PayerVettedUnlessLinked
  <2> SUFFICES ASSUME PayInv, NEW p \in Payment
               PROVE  /\ tx[p] # "none" => p \in vetted \/ Linked(job[p].user)
                      /\ stage[p] = "succeeded" => p \in vetted
      BY DEF PayerVettedUnlessLinked
  <2>1. Consistent(p)
      BY DEF PayInv
  <2>2. tx[p] # "none" => job[p] \in Job
      BY <2>1 DEF Consistent, JobGiven, MoneyExplained, Unpaid
  <2>3. QED
      BY <2>1, <2>2 DEF Consistent, PayerExplained, MoneyExplained, Vetted
<1>2. QED
    BY <1>1, PayInvHolds, PTL

(* A row changes hands only for a code that its user asked for.            *)
THEOREM LinksSpendOwnCode == PaySpec => LinkSpendsOwnCode
<1> DEFINE A == \A u \in User : RowChanges(u) => OwnCodeSpent(u) \/ NewKeyMade(u)
<1>1. PayInv /\ [PayNext]_vars => [A]_accountVars
  <2> SUFFICES ASSUME PayInv, [PayNext]_vars PROVE A \/ UNCHANGED accountVars
      OBVIOUS
  <2>1. CASE AccountsNext
      BY <2>1, AccountsSpendOwnCode DEF PayInv, PayTypeOK
  <2>2. UNCHANGED <<privyId, address>> => A
      BY DEF RowChanges
  <2>3. \A p \in Payment : HandlePay(p) => UNCHANGED <<privyId, address>>
      BY HandleIsHandleStep DEF HandleStep, accountVars
  <2>4. QED
      BY <2>1, <2>2, <2>3 DEF PayNext, Ask, Transfer, Revert, Crash, Faucet, CallHspFaucet, Attest, Withdraw,
                              vars, accountVars
<1>2. QED
    BY <1>1, PayInvHolds, PTL DEF PaySpec, LinkSpendsOwnCode

(* What /pay moved passes the verifier, unless the user linked, and then   *)
(* only if the account that paid is the one the mandate names.             *)
THEOREM PaymentsAreAcceptable == PaySpec => []AcceptableUnlessLinked
<1>1. PayInv => AcceptableUnlessLinked
  <2> SUFFICES ASSUME PayInv, NEW p \in Payment,
                      stage[p] \in {"confirmed", "observed"}, tx[p] = "mined"
               PROVE  /\ Acceptable(p) => job[p].from = job[p].signer
                      /\ Acceptable(p) \/ Linked(job[p].user)
      BY DEF AcceptableUnlessLinked
  <2>1. job[p] \in Job /\ (OneAccount(p) \/ Linked(job[p].user))
      BY DEF PayInv, Consistent, JobGiven, PayerExplained
  <2>2. QED
      BY <2>1, AcceptedIsSignedByPayer, SignedByPayerIsAccepted DEF OneAccount
<1>2. QED
    BY <1>1, PayInvHolds, PTL
==============================================================================
