--------------------------- MODULE PayrollTreasury ---------------------------
(***************************************************************************)
(* contracts/src/PayrollTreasury.sol on the same chain as the attestation  *)
(* registry it reads: deposits, payee policies, and the release of a       *)
(* payment against a mandate.                                              *)
(*                                                                         *)
(* One action is one successful transaction of either contract.  The       *)
(* tokens are well-behaved ERC-20s: a transfer moves exactly the amount.   *)
(* Amounts stay far below 2^256; the one subtraction that can underflow    *)
(* (dailyLimit - spentToday, which then reverts) is a guard.               *)
(***************************************************************************)
EXTENDS AttestationRegistry, Sequences

CONSTANTS
    Token, Mandate,
    Amounts,         \* amount inputs of deposits and payments
    PaymentLimits,   \* perPaymentLimit inputs
    DailyLimits,     \* dailyLimit inputs
    DAY,             \* 1 days, in units of block time
    ZeroHash,        \* bytes32(0)
    TreasuryOwner,   \* constructor arguments
    InitialOperator,
    Operators,       \* bound: the accounts setOperator is called with
    MaxFunds         \* bound: what is deposited of a token in total

ASSUME TreasuryAssumption ==
    /\ Amounts \subseteq Nat
    /\ PaymentLimits \subseteq Nat
    /\ DailyLimits \subseteq Nat
    /\ DAY \in Nat \ {0}
    /\ DAY <= Genesis      \* the chain is older than a day
    /\ TreasuryOwner \in Address
    /\ InitialOperator \in Address \cup {ZeroAddress}
    /\ Operators \subseteq Address
    /\ MaxFunds \in Nat

VARIABLES
    policies,      \* _policies
    spentToday,    \* _spentToday
    windowStart,   \* _windowStart
    settled,       \* _settledMandates
    operator,
    owner, pendingOwner, paused,
    balance,       \* IERC20(token).balanceOf(treasury)
    payments,      \* history: every payment released, in order
    funded         \* history: per token, the sum of all deposits

TreasuryAdmin == INSTANCE OwnablePausable WITH InitialOwner <- TreasuryOwner

policyVars == <<policies, spentToday, windowStart>>
fundVars   == <<settled, balance, payments, funded>>
roleVars   == <<operator, owner, pendingOwner, paused>>
treasuryVars == <<policies, spentToday, windowStart, settled, operator, owner,
                  pendingOwner, paused, balance, payments, funded>>
vars == <<regVars, treasuryVars>>

EmptyPolicy ==
    [payee |-> ZeroAddress, requiredCapability |-> ZeroHash, minKycLevel |-> 0,
     perPaymentLimit |-> 0, dailyLimit |-> 0, active |-> FALSE]

Policy ==
    [payee : Subjects, requiredCapability : Capability, minKycLevel : Nat,
     perPaymentLimit : Nat, dailyLimit : Nat, active : BOOLEAN]

Payment ==
    [mandate : Mandate, payee : Subjects, token : Token, amount : Nat,
     at : Nat, window : Nat, limit : Nat]

TreasuryTypeOK ==
    /\ RegistryTypeOK
    /\ policies \in [Subjects -> Policy \cup {EmptyPolicy}]
    /\ spentToday \in [Subjects -> Nat]
    /\ windowStart \in [Subjects -> Nat]
    /\ settled \subseteq Mandate
    /\ operator \in Address \cup {ZeroAddress}
    /\ TreasuryAdmin!TypeOK
    /\ balance \in [Token -> Nat]
    /\ payments \in Seq(Payment)
    /\ funded \in [Token -> Nat]

------------------------------------------------------------------------------
(* Guards and views.                                                       *)

OnlyOperator(caller) == caller # ZeroAddress /\ caller \in {operator, owner}

Registered(p) == policies[p].payee # ZeroAddress

EveryPayeeNew(p) == p \in Subjects

NotYetRegistered(p) == ~Registered(p)

EveryMandateOpen(m) == m \in Mandate

MandateOpen(m) == m \notin settled

MeetsRequirementBelowLevel(p) == IsValid(p, policies[p].requiredCapability)

MeetsRequirement(p) ==
    IsValidWithMinLevel(p, policies[p].requiredCapability, policies[p].minKycLevel)

WindowOverInNextBlock(p) == now > windowStart[p]

(* The window that starts with a payment ends a day later. *)
WindowOver(p) == now >= windowStart[p] + DAY

SpentNeverReset(p) == spentToday[p]

SpentInWindow(p) == IF WindowOver(p) THEN 0 ELSE spentToday[p]

WithinDailyLimitAlone(p, amount) == amount <= policies[p].dailyLimit

WithinDailyLimit(p, amount) ==
    /\ SpentInWindow(p) <= policies[p].dailyLimit
    /\ amount <= policies[p].dailyLimit - SpentInWindow(p)

AnyTokenCovers(token, amount) == \E t \in Token : amount <= balance[t]

DepositsCover(token, amount) == amount <= funded[token]

Covered(token, amount) == amount <= balance[token]

(* getRemainingDailyAllowance, which reverts where dailyLimit was lowered  *)
(* below what the window has spent already.                                *)
AllowanceReadable(p) == SpentInWindow(p) <= policies[p].dailyLimit

RemainingDailyAllowance(p) == policies[p].dailyLimit - SpentInWindow(p)

------------------------------------------------------------------------------
(* The transactions.                                                       *)

TreasuryInit ==
    /\ RegistryInit
    /\ policies = [p \in Subjects |-> EmptyPolicy]
    /\ spentToday = [p \in Subjects |-> 0]
    /\ windowStart = [p \in Subjects |-> 0]
    /\ settled = {}
    /\ operator = InitialOperator
    /\ TreasuryAdmin!Init
    /\ balance = [t \in Token |-> 0]
    /\ payments = <<>>
    /\ funded = [t \in Token |-> 0]

SetOperator(newOperator) ==
    /\ TreasuryAdmin!OwnerCalls
    /\ operator' = newOperator
    /\ UNCHANGED <<regVars, policyVars, fundVars, owner, pendingOwner, paused>>

Deposit(token, amount) ==
    /\ ~paused
    /\ amount > 0
    /\ funded[token] + amount <= MaxFunds
    /\ balance' = [balance EXCEPT ![token] = @ + amount]
    /\ funded' = [funded EXCEPT ![token] = @ + amount]
    /\ UNCHANGED <<regVars, policyVars, settled, payments, roleVars>>

RegisterPayee(caller, p, capability, minLevel, perPayment, daily) ==
    /\ OnlyOperator(caller)
    /\ NotYetRegistered(p)
    /\ policies' = [policies EXCEPT ![p] =
           [payee |-> p, requiredCapability |-> capability, minKycLevel |-> minLevel,
            perPaymentLimit |-> perPayment, dailyLimit |-> daily, active |-> TRUE]]
    /\ UNCHANGED <<regVars, spentToday, windowStart, fundVars, roleVars>>

UpdatePayee(caller, p, perPayment, daily, active) ==
    /\ OnlyOperator(caller)
    /\ Registered(p)
    /\ policies' = [policies EXCEPT ![p].perPaymentLimit = perPayment,
                                    ![p].dailyLimit = daily,
                                    ![p].active = active]
    /\ UNCHANGED <<regVars, spentToday, windowStart, fundVars, roleVars>>

DeactivatePayee(caller, p) ==
    /\ OnlyOperator(caller)
    /\ Registered(p)
    /\ policies' = [policies EXCEPT ![p].active = FALSE]
    /\ UNCHANGED <<regVars, spentToday, windowStart, fundVars, roleVars>>

(* Every check precedes the first write, and the transaction is atomic, so *)
(* the rolling of the window is undone when a later check reverts.         *)
ReleasePayment(caller, p, token, amount, m) ==
    LET spent == SpentInWindow(p) + amount
        start == IF WindowOver(p) THEN now ELSE windowStart[p]
    IN
    /\ OnlyOperator(caller)
    /\ ~paused
    /\ amount > 0
    /\ MandateOpen(m)
    /\ Registered(p)
    /\ policies[p].active
    /\ MeetsRequirement(p)
    /\ amount <= policies[p].perPaymentLimit
    /\ WithinDailyLimit(p, amount)
    /\ Covered(token, amount)
    /\ windowStart' = [windowStart EXCEPT ![p] = start]
    /\ spentToday' = [spentToday EXCEPT ![p] = spent]
    /\ settled' = settled \cup {m}
    /\ balance' = [balance EXCEPT ![token] = @ - amount]
    /\ payments' = Append(payments,
           [mandate |-> m, payee |-> p, token |-> token, amount |-> amount,
            at |-> now, window |-> start, limit |-> policies[p].dailyLimit])
    /\ UNCHANGED <<regVars, policies, roleVars, funded>>

PauseTreasury ==
    /\ TreasuryAdmin!Pause
    /\ UNCHANGED <<regVars, policyVars, fundVars, operator>>

UnpauseTreasury ==
    /\ TreasuryAdmin!Unpause
    /\ UNCHANGED <<regVars, policyVars, fundVars, operator>>

TreasuryOwnership ==
    /\ TreasuryAdmin!OwnershipStep
    /\ UNCHANGED <<regVars, policyVars, fundVars, operator>>

PayeeAdministration(caller, p) ==
    \/ \E capability \in Capability, minLevel \in Levels, perPayment \in PaymentLimits,
          daily \in DailyLimits :
          RegisterPayee(caller, p, capability, minLevel, perPayment, daily)
    \/ \E perPayment \in PaymentLimits, daily \in DailyLimits, active \in BOOLEAN :
          UpdatePayee(caller, p, perPayment, daily, active)
    \/ DeactivatePayee(caller, p)

TreasuryNext ==
    \/ \E o \in Operators : SetOperator(o)
    \/ \E token \in Token, amount \in Amounts : Deposit(token, amount)
    \/ \E caller \in {operator, owner}, p \in Subjects :
          \/ PayeeAdministration(caller, p)
          \/ \E token \in Token, amount \in Amounts, m \in Mandate :
                ReleasePayment(caller, p, token, amount, m)
    \/ PauseTreasury
    \/ UnpauseTreasury
    \/ TreasuryOwnership

Next ==
    \/ RegistryNext /\ UNCHANGED treasuryVars
    \/ Mine /\ UNCHANGED treasuryVars
    \/ TreasuryNext

Spec == TreasuryInit /\ [][Next]_vars

------------------------------------------------------------------------------
(* Properties.                                                             *)

(* No two payments share a mandate, and the mandates marked settled are    *)
(* exactly those a payment was released for: _settledMandates never loses, *)
(* and never anticipates, a payment.                                       *)
MandatePaidOnce ==
    /\ \A i, j \in 1..Len(payments) :
          payments[i].mandate = payments[j].mandate => i = j
    /\ settled = {payments[i].mandate : i \in 1..Len(payments)}

(* What a payee must prove to be paid is fixed when it is registered:      *)
(* whatever the operator, the owner or time do, the required capability    *)
(* and the minimum level never change and the payee is never forgotten.    *)
(* Only limits and activity do.                                            *)
RequirementIsFixed ==
    [][\A p \in Subjects : Registered(p) =>
          /\ policies'[p].payee = p
          /\ policies'[p].requiredCapability = policies[p].requiredCapability
          /\ policies'[p].minKycLevel = policies[p].minKycLevel]_vars

(* Who may be paid, read from the two contracts' storage and from none of  *)
(* the views: active, and attested at the required level by an issuer that *)
(* stands, neither revoked nor past its time.                              *)
Eligible(p) ==
    /\ policies[p].payee = p
    /\ policies[p].active
    /\ LET a == attestations[p][policies[p].requiredCapability] IN
       /\ a.subject = p
       /\ a.issuer \in issuers
       /\ ~a.revoked
       /\ a.expiresAt \notin 1..(now - 1)
       /\ a.kycLevel >= policies[p].minKycLevel

Promise == INSTANCE PayrollPromise WITH
    Payee     <- Subjects,
    funds     <- balance,
    disbursed <- settled,
    eligible  <- {p \in Subjects : Eligible(p)},
    allowance <- [p \in Subjects |->
                     IF AllowanceReadable(p) THEN RemainingDailyAllowance(p) ELSE 0]

(* The treasury implements the promise, with getRemainingDailyAllowance as *)
(* the allowance (0 where the view reverts).  In particular a revoked      *)
(* issuer stops every payment at once, and what a payment takes off the    *)
(* view is the amount paid, the start of a new window included.            *)
PromiseKept == Promise!Spec
==============================================================================
