----------------------- MODULE PayrollTreasury_proofs -----------------------
(***************************************************************************)
(* Theorems about the treasury and its registry, for any accounts, tokens, *)
(* mandates, amounts, limits and length of the day.                        *)
(***************************************************************************)
EXTENDS PayrollTreasuryAudit, AttestationRegistry_proofs, SumLemmas

(* Every record sits under its own key; what a view reads at key p is      *)
(* about p.  The refinement needs it: the promise speaks of the payee.     *)
KeysMatch ==
    /\ \A s \in Subjects, c \in Capability :
          attestations[s][c].subject \in {s, ZeroAddress}
    /\ \A p \in Subjects : policies[p].payee \in {p, ZeroAddress}

IInv == TreasuryTypeOK /\ KeysMatch /\ MandatePaidOnce

------------------------------------------------------------------------------
(* Steps, by what they leave alone.                                        *)

(* A step of the registry or of the clock as the treasury sees it.         *)
ChainStep == [RegistryStep]_regVars /\ UNCHANGED treasuryVars

AdminStep ==
    \/ \E o \in Operators : SetOperator(o)
    \/ PauseTreasury
    \/ UnpauseTreasury
    \/ TreasuryOwnership

DepositStep == \E t \in Token, a \in Amounts : Deposit(t, a)

PolicyStep == \E caller \in {operator, owner}, p \in Subjects : PayeeAdministration(caller, p)

ReleaseStep ==
    \E caller \in {operator, owner}, p \in Subjects, t \in Token, a \in Amounts, m \in Mandate :
        ReleasePayment(caller, p, t, a, m)

(* The disjuncts of Next, grouped by the part of the state they disturb.   *)
LEMMA StepKinds ==
    [Next]_vars => ChainStep \/ AdminStep \/ DepositStep \/ PolicyStep \/ ReleaseStep
<1>1. UNCHANGED vars => ChainStep
    BY DEF vars, ChainStep
<1>2. (RegistryNext \/ Mine) /\ UNCHANGED treasuryVars => ChainStep
    BY DEF ChainStep, RegistryStep
<1>3. TreasuryNext => AdminStep \/ DepositStep \/ PolicyStep \/ ReleaseStep
    BY DEF TreasuryNext, AdminStep, DepositStep, PolicyStep, ReleaseStep
<1>4. QED
    BY <1>1, <1>2, <1>3 DEF Next

(* A step of the owner's administration touches the roles only, and leaves *)
(* them well-typed.                                                        *)
LEMMA AdminStepFrame ==
    TreasuryTypeOK /\ AdminStep =>
        /\ UNCHANGED <<regVars, policyVars, fundVars>>
        /\ operator' \in Address \cup {ZeroAddress}
        /\ TreasuryAdmin!TypeOK'
<1> SUFFICES ASSUME TreasuryTypeOK, AdminStep
             PROVE  /\ UNCHANGED <<regVars, policyVars, fundVars>>
                    /\ operator' \in Address \cup {ZeroAddress}
                    /\ TreasuryAdmin!TypeOK'
    OBVIOUS
<1> USE TreasuryAssumption, RegistryAssumption DEF TreasuryTypeOK, TreasuryAdmin!TypeOK
<1>1. ASSUME NEW o \in Operators, SetOperator(o)
      PROVE  /\ UNCHANGED <<regVars, policyVars, fundVars>>
             /\ operator' \in Address \cup {ZeroAddress}
             /\ TreasuryAdmin!TypeOK'
    BY <1>1 DEF SetOperator
<1>2. CASE PauseTreasury
    BY <1>2 DEF PauseTreasury, TreasuryAdmin!Pause
<1>3. CASE UnpauseTreasury
    BY <1>3 DEF UnpauseTreasury, TreasuryAdmin!Unpause
<1>4. CASE TreasuryOwnership
    BY <1>4 DEF TreasuryOwnership, TreasuryAdmin!OwnershipStep, TreasuryAdmin!TransferOwnership,
                TreasuryAdmin!AcceptOwnership, TreasuryAdmin!RenounceOwnership
<1>5. QED
    BY <1>1, <1>2, <1>3, <1>4 DEF AdminStep

(* What a payee-administration step can do to the policies.                *)
LEMMA PolicyStepFrame ==
    ASSUME TreasuryTypeOK, KeysMatch, PolicyStep
    PROVE  /\ UNCHANGED <<regVars, spentToday, windowStart, fundVars, roleVars>>
           /\ policies' \in [Subjects -> Policy \cup {EmptyPolicy}]
           /\ \A q \in Subjects :
                 /\ policies'[q].payee \in {q, ZeroAddress}
                 /\ Registered(q) =>
                       /\ policies'[q].payee = q
                       /\ policies'[q].requiredCapability = policies[q].requiredCapability
                       /\ policies'[q].minKycLevel = policies[q].minKycLevel
<1> DEFINE Frame == /\ UNCHANGED <<regVars, spentToday, windowStart, fundVars, roleVars>>
                    /\ policies' \in [Subjects -> Policy \cup {EmptyPolicy}]
                    /\ \A q \in Subjects :
                          /\ policies'[q].payee \in {q, ZeroAddress}
                          /\ Registered(q) =>
                                /\ policies'[q].payee = q
                                /\ policies'[q].requiredCapability = policies[q].requiredCapability
                                /\ policies'[q].minKycLevel = policies[q].minKycLevel
<1>1. PICK caller \in {operator, owner}, p \in Subjects : PayeeAdministration(caller, p)
    BY DEF PolicyStep
<1>2. policies \in [Subjects -> Policy \cup {EmptyPolicy}] /\ p # ZeroAddress
    BY RegistryAssumption DEF TreasuryTypeOK
<1>3. ASSUME NEW capability \in Capability, NEW minLevel \in Levels,
             NEW perPayment \in PaymentLimits, NEW daily \in DailyLimits,
             RegisterPayee(caller, p, capability, minLevel, perPayment, daily)
      PROVE  Frame
    <2> DEFINE new == [payee |-> p, requiredCapability |-> capability, minKycLevel |-> minLevel,
                       perPaymentLimit |-> perPayment, dailyLimit |-> daily, active |-> TRUE]
    <2>1. new \in Policy
        BY RegistryAssumption, TreasuryAssumption DEF Policy
    <2>2. policies' = [policies EXCEPT ![p] = new] /\ ~Registered(p)
        BY <1>3 DEF RegisterPayee, NotYetRegistered
    <2>3. policies' \in [Subjects -> Policy \cup {EmptyPolicy}]
        BY <1>2, <2>1, <2>2
    <2>4. UNCHANGED <<regVars, spentToday, windowStart, fundVars, roleVars>>
        BY <1>3 DEF RegisterPayee
    <2>5. QED
        BY <1>2, <2>2, <2>3, <2>4 DEF Registered, KeysMatch
<1>4. ASSUME Registered(p), NEW new \in Policy,
             policies' = [policies EXCEPT ![p] = new],
             new.payee = policies[p].payee,
             new.requiredCapability = policies[p].requiredCapability,
             new.minKycLevel = policies[p].minKycLevel,
             UNCHANGED <<regVars, spentToday, windowStart, fundVars, roleVars>>
      PROVE  Frame
    BY <1>2, <1>4 DEF Registered, KeysMatch
<1>5. Registered(p) => policies[p] \in Policy
    BY <1>2 DEF Registered, EmptyPolicy
<1>6. ASSUME NEW perPayment \in PaymentLimits, NEW daily \in DailyLimits,
             NEW active \in BOOLEAN, UpdatePayee(caller, p, perPayment, daily, active)
      PROVE  Frame
    <2> DEFINE new == [policies[p] EXCEPT !.perPaymentLimit = perPayment,
                                          !.dailyLimit = daily, !.active = active]
    <2>1. Registered(p) /\ policies[p] \in Policy
        BY <1>5, <1>6 DEF UpdatePayee
    <2>2. new \in Policy
        BY <2>1, TreasuryAssumption DEF Policy
    <2>3. policies' = [policies EXCEPT ![p] = new]
        BY <1>2, <1>6 DEF UpdatePayee
    <2>4. UNCHANGED <<regVars, spentToday, windowStart, fundVars, roleVars>>
        BY <1>6 DEF UpdatePayee
    <2>5. QED
        BY <1>4, <2>1, <2>2, <2>3, <2>4 DEF Policy
<1>7. ASSUME DeactivatePayee(caller, p)
      PROVE  Frame
    <2> DEFINE new == [policies[p] EXCEPT !.active = FALSE]
    <2>1. Registered(p) /\ policies[p] \in Policy
        BY <1>5, <1>7 DEF DeactivatePayee
    <2>2. new \in Policy
        BY <2>1 DEF Policy
    <2>3. policies' = [policies EXCEPT ![p] = new]
        BY <1>2, <1>7 DEF DeactivatePayee
    <2>4. UNCHANGED <<regVars, spentToday, windowStart, fundVars, roleVars>>
        BY <1>7 DEF DeactivatePayee
    <2>5. QED
        BY <1>4, <2>1, <2>2, <2>3, <2>4 DEF Policy
<1>8. QED
    BY <1>1, <1>3, <1>6, <1>7 DEF PayeeAdministration

(* A registered payee has a real policy, a limit that is a number among    *)
(* them, and the sum of a window stays a number.                           *)
LEMMA ReleaseTyped ==
    ASSUME TreasuryTypeOK, NEW caller, NEW p \in Subjects, NEW t \in Token,
           NEW a \in Amounts, NEW m \in Mandate, ReleasePayment(caller, p, t, a, m)
    PROVE  TreasuryTypeOK'
<1> DEFINE start == IF WindowOver(p) THEN now ELSE windowStart[p]
           entry == [mandate |-> m, payee |-> p, token |-> t, amount |-> a,
                     at |-> now, window |-> start, limit |-> policies[p].dailyLimit]
<1> USE DEF TreasuryTypeOK
<1>1. a \in Nat /\ now \in Nat /\ start \in Nat /\ SpentInWindow(p) \in Nat
    BY TreasuryAssumption DEF RegistryTypeOK, SpentInWindow
<1>2. policies[p] \in Policy
    BY DEF ReleasePayment, Registered, EmptyPolicy
<1>3. entry \in Payment
    BY <1>1, <1>2 DEF Payment, Policy
<1>4. payments' \in Seq(Payment)
    <2>1. payments' = Append(payments, entry)
        BY DEF ReleasePayment
    <2>2. QED
        BY <1>3, <2>1
<1>5. windowStart' \in [Subjects -> Nat] /\ spentToday' \in [Subjects -> Nat]
    BY <1>1 DEF ReleasePayment
<1>6. balance' \in [Token -> Nat]
    <2>1. balance[t] - a \in Nat
        BY <1>1 DEF ReleasePayment, Covered
    <2>2. QED
        BY <2>1 DEF ReleasePayment
<1>7. settled' \subseteq Mandate
    BY DEF ReleasePayment
<1>8. UNCHANGED <<regVars, policies, roleVars, funded>>
    BY DEF ReleasePayment
<1>9. RegistryTypeOK' /\ TreasuryAdmin!TypeOK'
    BY <1>8 DEF RegistryTypeOK, Admin!TypeOK, TreasuryAdmin!TypeOK, regVars, roleVars
<1>10. QED
    BY <1>4, <1>5, <1>6, <1>7, <1>8, <1>9 DEF roleVars

------------------------------------------------------------------------------
(* The inductive invariant.                                                *)
(* The inductive invariant holds of a fresh deployment.                    *)
LEMMA InitIInv == TreasuryInit => IInv
<1> SUFFICES ASSUME TreasuryInit
             PROVE  IInv
    OBVIOUS
<1>1. RegistryTypeOK
    BY RegistryInitTypeOK DEF TreasuryInit
<1>2. policies \in [Subjects -> Policy \cup {EmptyPolicy}]
    BY DEF TreasuryInit
<1>3. TreasuryAdmin!TypeOK
    BY TreasuryAssumption DEF TreasuryInit, TreasuryAdmin!Init, TreasuryAdmin!TypeOK
<1>4. TreasuryTypeOK
    BY <1>1, <1>2, <1>3, TreasuryAssumption DEF TreasuryTypeOK, TreasuryInit
<1>5. KeysMatch
    BY DEF KeysMatch, TreasuryInit, RegistryInit, EmptyAttestation, EmptyPolicy
<1>6. MandatePaidOnce
    BY DEF MandatePaidOnce, TreasuryInit
<1>7. QED
    BY <1>4, <1>5, <1>6 DEF IInv

(* Every step keeps the storage of both contracts well-typed.              *)
LEMMA NextTypeOK == ASSUME IInv, [Next]_vars PROVE TreasuryTypeOK'
<1> USE DEF IInv
<1>1. CASE ChainStep
    <2>1. RegistryTypeOK'
        BY <1>1, RegistryNextTypeOK DEF ChainStep, TreasuryTypeOK
    <2>2. QED
        BY <1>1, <2>1 DEF ChainStep, treasuryVars, TreasuryTypeOK, TreasuryAdmin!TypeOK
<1>2. CASE AdminStep
    <2>1. RegistryTypeOK'
        BY <1>2, AdminStepFrame DEF regVars, TreasuryTypeOK, RegistryTypeOK, Admin!TypeOK
    <2>2. QED
        BY <1>2, <2>1, AdminStepFrame DEF policyVars, fundVars, TreasuryTypeOK
<1>3. CASE DepositStep
    <2>1. PICK t \in Token, a \in Amounts : Deposit(t, a)
        BY <1>3 DEF DepositStep
    <2>2. RegistryTypeOK' /\ TreasuryAdmin!TypeOK'
        BY <2>1 DEF Deposit, regVars, roleVars, TreasuryTypeOK, RegistryTypeOK, Admin!TypeOK,
                    TreasuryAdmin!TypeOK
    <2>3. QED
        BY <2>1, <2>2, TreasuryAssumption DEF Deposit, policyVars, roleVars, TreasuryTypeOK
<1>4. CASE PolicyStep
    <2>1. RegistryTypeOK' /\ TreasuryAdmin!TypeOK'
        BY <1>4, PolicyStepFrame DEF regVars, roleVars, TreasuryTypeOK, RegistryTypeOK,
                    Admin!TypeOK, TreasuryAdmin!TypeOK
    <2>2. QED
        BY <1>4, <2>1, PolicyStepFrame DEF roleVars, fundVars, TreasuryTypeOK
<1>5. CASE ReleaseStep
    BY <1>5, ReleaseTyped DEF ReleaseStep
<1>6. QED
    BY <1>1, <1>2, <1>3, <1>4, <1>5, StepKinds

(* Every step keeps each record under the key it names: an attestation     *)
(* under its subject, a policy under its payee.                            *)
LEMMA NextKeysMatch == ASSUME IInv, [Next]_vars PROVE KeysMatch'
<1> USE DEF IInv, KeysMatch
<1>1. CASE ChainStep
    <2>1. ASSUME NEW s \in Subjects, NEW c \in Capability
          PROVE  attestations'[s][c].subject \in {s, ZeroAddress}
        BY <1>1, StepOnAttestationSubject DEF ChainStep, TreasuryTypeOK
    <2>2. QED
        BY <1>1, <2>1 DEF ChainStep, treasuryVars
<1>2. CASE AdminStep
    BY <1>2, AdminStepFrame DEF regVars, policyVars
<1>3. CASE DepositStep
    BY <1>3 DEF DepositStep, Deposit, regVars, policyVars
<1>4. CASE PolicyStep
    BY <1>4, PolicyStepFrame DEF regVars
<1>5. CASE ReleaseStep
    BY <1>5 DEF ReleaseStep, ReleasePayment, regVars
<1>6. QED
    BY <1>1, <1>2, <1>3, <1>4, <1>5, StepKinds

(* Every step keeps the mandates marked settled in one-to-one              *)
(* correspondence with the payments.                                       *)
LEMMA NextMandatePaidOnce == ASSUME IInv, [Next]_vars PROVE MandatePaidOnce'
<1> USE DEF IInv, MandatePaidOnce
<1>1. CASE ~ReleaseStep
    <2>1. UNCHANGED <<settled, payments>>
        BY <1>1, StepKinds, AdminStepFrame, PolicyStepFrame
           DEF ChainStep, treasuryVars, DepositStep, Deposit, fundVars
    <2>2. QED
        BY <2>1
<1>2. ASSUME NEW caller \in {operator, owner}, NEW p \in Subjects, NEW t \in Token,
             NEW a \in Amounts, NEW m \in Mandate, ReleasePayment(caller, p, t, a, m)
      PROVE  MandatePaidOnce'
    <2> DEFINE n == Len(payments)
    <2>1. payments \in Seq(Payment) /\ n \in Nat
        BY DEF TreasuryTypeOK
    <2>2. /\ Len(payments') = n + 1
          /\ payments'[n + 1].mandate = m
          /\ \A i \in 1..n : payments'[i] = payments[i]
        BY <1>2, <2>1 DEF ReleasePayment
    <2>3. settled' = settled \cup {m} /\ m \notin settled
        BY <1>2 DEF ReleasePayment, MandateOpen
    <2>4. \A i \in 1..n : payments[i].mandate # m
        BY <2>3
    <2>5. 1..Len(payments') = (1..n) \cup {n + 1}
        BY <2>1, <2>2
    <2>6. \A i, j \in 1..Len(payments') :
              payments'[i].mandate = payments'[j].mandate => i = j
        BY <2>2, <2>4, <2>5
    <2>7. settled' = {payments'[i].mandate : i \in 1..Len(payments')}
        BY <2>2, <2>3, <2>5
    <2>8. QED
        BY <2>6, <2>7
<1>3. QED
    BY <1>1, <1>2 DEF ReleaseStep

(* The invariant is inductive.                                             *)
LEMMA NextIInv == IInv /\ [Next]_vars => IInv'
BY NextTypeOK, NextKeysMatch, NextMandatePaidOnce DEF IInv

(* The inductive invariant holds throughout every behaviour.               *)
LEMMA SpecIInv == Spec => []IInv
BY InitIInv, NextIInv, PTL DEF Spec

(* Type correctness of the two contracts.                                  *)
THEOREM TreasuryTypeCorrect == Spec => []TreasuryTypeOK
<1>1. IInv => TreasuryTypeOK
    BY DEF IInv
<1>2. QED
    BY <1>1, SpecIInv, PTL

(* A mandate is paid at most once, whatever the roles, the registry and    *)
(* time do in between.                                                     *)
THEOREM MandatesPaidOnce == Spec => []MandatePaidOnce
<1>1. IInv => MandatePaidOnce
    BY DEF IInv
<1>2. QED
    BY <1>1, SpecIInv, PTL

------------------------------------------------------------------------------
(* The requirement a payee was registered with never changes.              *)
THEOREM RequirementStaysFixed == Spec => RequirementIsFixed
<1> DEFINE Fixed == \A p \in Subjects : Registered(p) =>
              /\ policies'[p].payee = p
              /\ policies'[p].requiredCapability = policies[p].requiredCapability
              /\ policies'[p].minKycLevel = policies[p].minKycLevel
<1>1. ASSUME IInv, [Next]_vars
      PROVE  Fixed
    <2> USE <1>1 DEF IInv
    <2>1. CASE PolicyStep
        BY <2>1, PolicyStepFrame
    <2>2. CASE ~PolicyStep
        <3>1. ChainStep => UNCHANGED policies
            BY DEF ChainStep, treasuryVars
        <3>2. AdminStep => UNCHANGED policies
            BY AdminStepFrame DEF policyVars
        <3>3. DepositStep => UNCHANGED policies
            BY DEF DepositStep, Deposit, policyVars
        <3>4. ReleaseStep => UNCHANGED policies
            BY DEF ReleaseStep, ReleasePayment
        <3>5. UNCHANGED policies
            BY <2>2, <3>1, <3>2, <3>3, <3>4, StepKinds
        <3>6. QED
            BY <3>5 DEF KeysMatch, Registered
    <2>3. QED
        BY <2>1, <2>2
<1>2. IInv /\ [Next]_vars => [Fixed]_vars
    BY <1>1
<1>3. QED
    BY <1>2, SpecIInv, PTL DEF Spec, RequirementIsFixed

------------------------------------------------------------------------------
(* The refinement.                                                         *)

(* The barred variables of the promise.                                    *)
EligibleNow == {p \in Subjects : Eligible(p)}

AllowanceOf(p) == IF AllowanceReadable(p) THEN RemainingDailyAllowance(p) ELSE 0

AllowanceNow == [p \in Subjects |-> AllowanceOf(p)]

(* The allowance the view shows is a number.                               *)
LEMMA AllowanceTyped == TreasuryTypeOK => AllowanceNow \in [Subjects -> Nat]
<1> SUFFICES ASSUME TreasuryTypeOK, NEW p \in Subjects
             PROVE  AllowanceOf(p) \in Nat
    BY DEF AllowanceNow
<1>1. policies[p].dailyLimit \in Nat /\ SpentInWindow(p) \in Nat
    BY DEF TreasuryTypeOK, Policy, EmptyPolicy, SpentInWindow
<1>2. QED
    BY <1>1 DEF AllowanceOf, AllowanceReadable, RemainingDailyAllowance

(* So it is in the next state.                                             *)
LEMMA AllowanceTypedNext == TreasuryTypeOK' => (AllowanceNow \in [Subjects -> Nat])'
BY AllowanceTyped, PTL

(* At the start nobody is registered, so nobody is eligible.               *)
LEMMA InitKeepsPromise == TreasuryInit => Promise!Init
<1> SUFFICES ASSUME TreasuryInit
             PROVE  Promise!Init
    OBVIOUS
<1>1. ASSUME NEW p \in Subjects
      PROVE  ~Eligible(p)
    BY RegistryAssumption DEF TreasuryInit, EmptyPolicy, Eligible
<1>2. ASSUME NEW p \in Subjects
      PROVE  AllowanceOf(p) = 0
    BY DEF TreasuryInit, EmptyPolicy, AllowanceOf, AllowanceReadable, RemainingDailyAllowance,
           SpentInWindow
<1>3. AllowanceNow = [p \in Subjects |-> 0]
    BY <1>2 DEF AllowanceNow
<1>4. QED
    BY <1>1, <1>3 DEF Promise!Init, TreasuryInit, AllowanceNow, AllowanceOf

(* A step that neither moves funds nor settles a mandate regulates.        *)
LEMMA QuietStepRegulates ==
    ASSUME TreasuryTypeOK', UNCHANGED <<balance, settled>>
    PROVE  Promise!Regulate
<1>1. AllowanceNow' \in [Subjects -> Nat]
    BY AllowanceTypedNext
<1>2. QED
    BY <1>1 DEF Promise!Regulate, AllowanceNow, AllowanceOf

(* A deposit funds.                                                        *)
LEMMA DepositFunds ==
    ASSUME TreasuryTypeOK, NEW t \in Token, NEW a \in Amounts, Deposit(t, a)
    PROVE  Promise!Fund(t)
<1>1. a \in Nat /\ a > 0 /\ balance \in [Token -> Nat]
    BY TreasuryAssumption DEF Deposit, TreasuryTypeOK
<1>2. balance' = [balance EXCEPT ![t] = @ + a]
    BY DEF Deposit
<1>3. balance'[t] > balance[t] /\ balance' = [balance EXCEPT ![t] = balance'[t]]
    BY <1>1, <1>2
<1>4. UNCHANGED <<now, issuers, attestations, policies, spentToday, windowStart, settled>>
    BY DEF Deposit, regVars, policyVars
<1>5. \A p \in Subjects : Eligible(p)' = Eligible(p)
    BY <1>4 DEF Eligible
<1>6. \A p \in Subjects : AllowanceOf(p)' = AllowanceOf(p)
    BY <1>4 DEF AllowanceOf, AllowanceReadable, RemainingDailyAllowance, SpentInWindow,
                WindowOver
<1>7. QED
    BY <1>3, <1>4, <1>5, <1>6 DEF Promise!Fund, AllowanceOf

(* What a release needs is what the promise demands.                       *)
LEMMA ReleasedIsEligible ==
    ASSUME IInv, NEW p \in Subjects, Registered(p), policies[p].active, MeetsRequirement(p)
    PROVE  Eligible(p)
<1> DEFINE c == policies[p].requiredCapability
           a == attestations[p][c]
<1>1. policies[p].payee = p /\ policies[p] \in Policy
    BY DEF IInv, KeysMatch, Registered, TreasuryTypeOK, EmptyPolicy
<1>2. c \in Capability
    BY <1>1 DEF Policy
<1>3. a \in Attestation /\ now \in Nat /\ a.subject \in {p, ZeroAddress}
    BY <1>2 DEF IInv, KeysMatch, TreasuryTypeOK, RegistryTypeOK
<1>4. /\ a.subject # ZeroAddress
      /\ ~a.revoked
      /\ a.expiresAt = 0 \/ a.expiresAt >= now
      /\ a.issuer \in issuers
      /\ a.kycLevel >= policies[p].minKycLevel
    BY DEF MeetsRequirement, IsValidWithMinLevel, IsValid, Exists
<1>5. a.expiresAt \notin 1..(now - 1)
    BY <1>3, <1>4 DEF Attestation
<1>6. QED
    BY <1>1, <1>3, <1>4, <1>5 DEF Eligible

(* A release disburses.                                                    *)
LEMMA ReleaseDisburses ==
    ASSUME IInv, NEW caller, NEW p \in Subjects, NEW t \in Token, NEW a \in Amounts,
           NEW m \in Mandate, ReleasePayment(caller, p, t, a, m)
    PROVE  Promise!Disburse(m, p, t, a) /\ a \in 1..balance[t]
<1>1. /\ a \in Nat /\ a > 0 /\ now \in Nat /\ DAY \in Nat \ {0}
      /\ balance \in [Token -> Nat] /\ spentToday \in [Subjects -> Nat]
      /\ windowStart \in [Subjects -> Nat] /\ a <= balance[t]
    BY TreasuryAssumption DEF IInv, TreasuryTypeOK, RegistryTypeOK, ReleasePayment, Covered
<1>2. Eligible(p)
    BY ReleasedIsEligible DEF ReleasePayment
<1>3. UNCHANGED <<now, issuers, attestations, policies>>
    BY DEF ReleasePayment, regVars
<1>4. \A q \in Subjects : Eligible(q)' = Eligible(q)
    BY <1>3 DEF Eligible
<1>5. policies[p].dailyLimit \in Nat /\ SpentInWindow(p) \in Nat
    BY <1>1 DEF IInv, TreasuryTypeOK, Policy, EmptyPolicy, SpentInWindow
<1>6. AllowanceOf(p) = policies[p].dailyLimit - SpentInWindow(p) /\ a <= AllowanceOf(p)
    BY DEF ReleasePayment, WithinDailyLimit, AllowanceOf, AllowanceReadable,
           RemainingDailyAllowance
<1>7. SpentInWindow(p)' = SpentInWindow(p) + a
    <2>1. spentToday'[p] = SpentInWindow(p) + a
        BY <1>1 DEF ReleasePayment
    <2>2. windowStart'[p] = IF WindowOver(p) THEN now ELSE windowStart[p]
        BY <1>1 DEF ReleasePayment
    <2>3. ~WindowOver(p)'
        BY <1>1, <1>3, <2>2 DEF WindowOver
    <2>4. QED
        BY <2>1, <2>3 DEF SpentInWindow
<1>8. AllowanceOf(p)' = AllowanceOf(p) - a
    BY <1>1, <1>3, <1>5, <1>6, <1>7 DEF AllowanceOf, AllowanceReadable, RemainingDailyAllowance
<1>9. ASSUME NEW q \in Subjects, q # p
      PROVE  AllowanceOf(q)' = AllowanceOf(q)
    <2>1. spentToday'[q] = spentToday[q] /\ windowStart'[q] = windowStart[q]
        BY <1>1, <1>9 DEF ReleasePayment
    <2>2. QED
        BY <1>3, <2>1 DEF AllowanceOf, AllowanceReadable, RemainingDailyAllowance,
                          SpentInWindow, WindowOver
<1>10. AllowanceNow' = [AllowanceNow EXCEPT ![p] = @ - a]
    BY <1>8, <1>9 DEF AllowanceNow
<1>11. /\ m \notin settled /\ settled' = settled \cup {m}
       /\ balance' = [balance EXCEPT ![t] = @ - a]
    BY DEF ReleasePayment, MandateOpen
<1>12. p \in EligibleNow /\ EligibleNow' = EligibleNow
    BY <1>2, <1>4 DEF EligibleNow
<1>13. a <= AllowanceNow[p]
    BY <1>6 DEF AllowanceNow
<1>14. QED
    BY <1>1, <1>10, <1>11, <1>12, <1>13
       DEF Promise!Disburse, AllowanceNow, AllowanceOf, EligibleNow

(* Every step of the two contracts is a step of the promise or leaves what *)
(* it speaks of unchanged.                                                 *)
LEMMA StepKeepsPromise ==
    ASSUME IInv, IInv', [Next]_vars
    PROVE  [Promise!Next]_Promise!vars
<1> USE DEF IInv
<1>1. ASSUME NEW caller \in {operator, owner}, NEW p \in Subjects, NEW t \in Token,
             NEW a \in Amounts, NEW m \in Mandate, ReleasePayment(caller, p, t, a, m)
      PROVE  Promise!Next
    BY <1>1, ReleaseDisburses DEF Promise!Next
<1>2. ASSUME NEW t \in Token, NEW a \in Amounts, Deposit(t, a)
      PROVE  Promise!Next
    BY <1>2, DepositFunds DEF Promise!Next
<1>3. CASE ChainStep \/ AdminStep \/ PolicyStep
    <2>1. UNCHANGED <<balance, settled>>
        BY <1>3, AdminStepFrame, PolicyStepFrame DEF ChainStep, treasuryVars, fundVars
    <2>2. QED
        BY <2>1, QuietStepRegulates DEF Promise!Next
<1>4. QED
    BY <1>1, <1>2, <1>3, StepKinds DEF DepositStep, ReleaseStep

(* The two contracts together implement the promise: every payment draws   *)
(* on an unpaid mandate, on funds at hand, on a payee eligible in the very *)
(* state it is paid in, and on the allowance the view shows.               *)
THEOREM TreasuryKeepsPromise == Spec => PromiseKept
<1>1. IInv /\ IInv' /\ [Next]_vars => [Promise!Next]_Promise!vars
    BY StepKeepsPromise
<1>2. QED
    BY <1>1, InitKeepsPromise, SpecIInv, PTL DEF Spec, PromiseKept, Promise!Spec

------------------------------------------------------------------------------
(* The books.                                                              *)

(* A sum over some payments of a history.                                  *)
SumOf(history, I) == SumFunctionOnSet([i \in 1..Len(history) |-> history[i].amount], I)

LEMMA SumOfNat ==
    ASSUME NEW history \in Seq(Payment), NEW I \in SUBSET (1..Len(history))
    PROVE  IsFiniteSet(I) /\ SumOf(history, I) \in Nat
<1> DEFINE f == [i \in 1..Len(history) |-> history[i].amount]
<1>1. IsFiniteSet(1..Len(history))
    BY FS_Interval
<1>2. IsFiniteSet(I)
    BY <1>1, FS_Subset
<1>3. ASSUME NEW i \in I
      PROVE  f[i] \in Nat
  <2>1. history[i] \in Payment
    OBVIOUS
  <2>2. QED
    BY <2>1 DEF Payment
<1> HIDE DEF f
<1>4. QED
    BY <1>2, <1>3, SumNat DEF SumOf, f

(* What was paid stays paid, and a new payment adds its amount.            *)
LEMMA SumOfAppend ==
    ASSUME NEW history \in Seq(Payment), NEW entry \in Payment,
           NEW I \in SUBSET (1..Len(history))
    PROVE  /\ SumOf(Append(history, entry), I) = SumOf(history, I)
           /\ SumOf(Append(history, entry), I \cup {Len(history) + 1})
                  = SumOf(history, I) + entry.amount
<1> DEFINE n == Len(history)
           after == Append(history, entry)
           f == [i \in 1..Len(history) |-> history[i].amount]
           g == [i \in 1..Len(after) |-> after[i].amount]
<1>1. n \in Nat /\ Len(after) = n + 1 /\ \A i \in 1..n : after[i] = history[i]
    OBVIOUS
<1>2. after[n + 1] = entry
    OBVIOUS
<1>3. IsFiniteSet(I)
    BY SumOfNat
<1>4. ASSUME NEW i \in I
      PROVE  f[i] = g[i] /\ g[i] \in Int
  <2>1. history[i] \in Payment /\ i \in 1..n /\ i \in 1..Len(after)
    BY <1>1
  <2>2. f[i] = history[i].amount /\ g[i] = after[i].amount
    BY <2>1
  <2>3. history[i].amount \in Int
    BY <2>1 DEF Payment
  <2>4. QED
    BY <1>1, <2>1, <2>2, <2>3
<1>5. g[n + 1] = entry.amount /\ entry.amount \in Int /\ n + 1 \notin I
    BY <1>1, <1>2 DEF Payment
<1> HIDE DEF f, g
<1>6. SumFunctionOnSet(f, I) = SumFunctionOnSet(g, I)
    BY <1>3, <1>4, SumEqual
<1>7. SumFunctionOnSet(g, I \cup {n + 1}) = SumFunctionOnSet(g, I) + g[n + 1]
    BY <1>3, <1>4, <1>5, SumAdd
<1>8. QED
    BY <1>5, <1>6, <1>7 DEF SumOf, f, g

BooksInv ==
    /\ IInv
    /\ \A p \in Subjects : windowStart[p] <= now
    /\ WindowsADayApart
    /\ FundsConserved
    /\ SpentTodayIsWindowTotal
    /\ WindowWithinLimit

(* Before the first payment every sum is empty.                            *)
LEMMA InitBooks == TreasuryInit => BooksInv
<1> SUFFICES ASSUME TreasuryInit
             PROVE  BooksInv
    OBVIOUS
<1>1. payments = <<>> /\ Index = {}
    BY DEF TreasuryInit, Index
<1>2. Total({}) = 0
    BY SumEmpty DEF Total
<1>3. now \in Nat
    BY RegistryAssumption DEF TreasuryInit, RegistryInit
<1>4. \A p \in Subjects : windowStart[p] <= now
    BY <1>3 DEF TreasuryInit
<1>5. FundsConserved
  <2>1. \A t \in Token : {i \in Index : payments[i].token = t} = {}
    BY <1>1
  <2>2. \A t \in Token : Total({i \in Index : payments[i].token = t}) = 0
    BY <1>2, <2>1, Zenon
  <2>3. QED
    BY <2>2 DEF FundsConserved, TreasuryInit
<1>6. SpentTodayIsWindowTotal
  <2>1. \A p \in Subjects : {i \in PaidTo(p) : payments[i].at >= windowStart[p]} = {}
    BY <1>1 DEF PaidTo
  <2>2. \A p \in Subjects : Total({i \in PaidTo(p) : payments[i].at >= windowStart[p]}) = 0
    BY <1>2, <2>1, Zenon
  <2>3. QED
    BY <2>2 DEF SpentTodayIsWindowTotal, TreasuryInit
<1>7. WindowWithinLimit /\ WindowsADayApart
    BY <1>1 DEF WindowWithinLimit, WindowsADayApart
<1>8. QED
    BY <1>4, <1>5, <1>6, <1>7, InitIInv DEF BooksInv

(* A step that is neither a deposit nor a release leaves the books alone.  *)
LEMMA QuietBooks ==
    ASSUME BooksInv, IInv', [Next]_vars, ~DepositStep, ~ReleaseStep
    PROVE  BooksInv'
<1>1. UNCHANGED <<windowStart, spentToday, balance, payments, funded>> /\ now' >= now
  <2>1. now \in Nat
    BY DEF BooksInv, IInv, TreasuryTypeOK, RegistryTypeOK
  <2>2. CASE ChainStep
    <3>1. now' = now \/ now' = now + 1
        BY <2>2 DEF ChainStep, RegistryStep, RegistryNext, RegisterIssuer, RevokeIssuer,
                    RecordAttestation, RevokeAttestation, PauseRegistry, UnpauseRegistry,
                    RegistryOwnership, RecordAny, Mine, regVars
    <3>2. QED
        BY <2>1, <2>2, <3>1 DEF ChainStep, treasuryVars
  <2>3. CASE AdminStep \/ PolicyStep
    BY <2>1, <2>3, AdminStepFrame, PolicyStepFrame
       DEF BooksInv, IInv, policyVars, fundVars, regVars
  <2>4. QED
    BY <2>2, <2>3, StepKinds
<1>2. FundsConserved' /\ SpentTodayIsWindowTotal' /\ WindowWithinLimit'
  <2>1. FundsConserved'
    BY <1>1 DEF BooksInv, FundsConserved, Total, Index
  <2>2. SpentTodayIsWindowTotal'
    BY <1>1 DEF BooksInv, SpentTodayIsWindowTotal, Total, PaidTo, Index
  <2>3. WindowWithinLimit'
    BY <1>1 DEF BooksInv, WindowWithinLimit, Total, PaidTo, Index
  <2>4. QED
    BY <2>1, <2>2, <2>3
<1>3. now \in Nat /\ now' \in Nat /\ windowStart \in [Subjects -> Nat]
    BY DEF BooksInv, IInv, TreasuryTypeOK, RegistryTypeOK
<1>4. \A p \in Subjects : windowStart'[p] <= now'
    BY <1>1, <1>3 DEF BooksInv
<1>5. WindowsADayApart'
  <2>1. payments \in Seq(Payment)
    BY DEF BooksInv, IInv, TreasuryTypeOK
  <2>2. ASSUME NEW i \in Index
        PROVE  payments[i].at \in Nat
    <3>1. payments[i] \in Payment
        BY <2>1 DEF Index
    <3>2. QED
        BY <3>1 DEF Payment
  <2>3. \A i \in Index : payments[i].at <= now'
    BY <1>1, <1>3, <2>2 DEF BooksInv, WindowsADayApart
  <2>4. QED
    BY <1>1, <2>3 DEF BooksInv, WindowsADayApart, PaidTo, Index
<1>6. QED
    BY <1>2, <1>4, <1>5 DEF BooksInv

(* A deposit is booked as funded.                                          *)
LEMMA DepositBooks ==
    ASSUME BooksInv, IInv', NEW t \in Token, NEW a \in Amounts, Deposit(t, a)
    PROVE  BooksInv'
<1>1. UNCHANGED <<now, windowStart, spentToday, payments>>
    BY DEF Deposit, policyVars, regVars
<1>2. /\ balance \in [Token -> Nat] /\ funded \in [Token -> Nat] /\ a \in Nat
      /\ payments \in Seq(Payment)
    BY TreasuryAssumption DEF BooksInv, IInv, TreasuryTypeOK
<1>3. FundsConserved'
  <2> DEFINE paid(u) == Total({i \in Index : payments[i].token = u})
  <2>1. ASSUME NEW u \in Token
        PROVE  paid(u) \in Nat /\ paid(u)' = paid(u)
    <3>1. paid(u)' = paid(u)
        BY <1>1 DEF Total, Index
    <3>2. paid(u) \in Nat
        BY <1>2, SumOfNat DEF Total, SumOf, Index
    <3>3. QED
        BY <3>1, <3>2
  <2>2. \A u \in Token : balance[u] + paid(u) = funded[u]
    BY DEF BooksInv, FundsConserved
  <2> HIDE DEF paid
  <2>3. \A u \in Token : balance'[u] + paid(u)' = funded'[u] /\ balance'[u] >= 0
    BY <1>2, <2>1, <2>2 DEF Deposit
  <2>4. QED
    BY <2>3 DEF FundsConserved, paid
<1>4. SpentTodayIsWindowTotal'
    BY <1>1 DEF BooksInv, SpentTodayIsWindowTotal, Total, PaidTo, Index
<1>5. WindowWithinLimit'
    BY <1>1 DEF BooksInv, WindowWithinLimit, Total, PaidTo, Index
<1>6. WindowsADayApart' /\ \A p \in Subjects : windowStart'[p] <= now'
    BY <1>1 DEF BooksInv, WindowsADayApart, PaidTo, Index
<1>7. QED
    BY <1>3, <1>4, <1>5, <1>6 DEF BooksInv

(* The entry that a release appends to the history.                        *)
Entry(p, t, a, m) ==
    [mandate |-> m, payee |-> p, token |-> t, amount |-> a, at |-> now,
     window |-> windowStart'[p], limit |-> policies[p].dailyLimit]

LEMMA ReleaseAppends ==
    ASSUME BooksInv, NEW caller, NEW p \in Subjects, NEW t \in Token, NEW a \in Amounts,
           NEW m \in Mandate, ReleasePayment(caller, p, t, a, m)
    PROVE  /\ Len(payments) \in Nat
           /\ Index = 1..Len(payments)
           /\ Index' = Index \cup {Len(payments) + 1}
           /\ Len(payments) + 1 \notin Index
           /\ \A i \in Index : payments'[i] = payments[i] /\ payments[i] \in Payment
           /\ payments \in Seq(Payment)
           /\ Entry(p, t, a, m) \in Payment
           /\ payments' = Append(payments, Entry(p, t, a, m))
<1> DEFINE entry == Entry(p, t, a, m)
<1>1. payments \in Seq(Payment) /\ windowStart \in [Subjects -> Nat]
    BY DEF BooksInv, IInv, TreasuryTypeOK
<1>2. payments' = Append(payments, entry)
    BY <1>1 DEF ReleasePayment, Entry
<1> HIDE DEF entry
<1>3. payments'[Len(payments) + 1] = entry
    BY <1>1, <1>2
<1>4. entry \in Payment
  <2>1. TreasuryTypeOK'
    BY ReleaseTyped DEF BooksInv, IInv
  <2>2. payments' \in Seq(Payment) /\ Len(payments') = Len(payments) + 1
    BY <1>1, <1>2, <2>1 DEF TreasuryTypeOK
  <2>3. QED
    BY <1>1, <1>3, <2>2
<1>5. /\ Len(payments) \in Nat
      /\ Index = 1..Len(payments)
      /\ Index' = Index \cup {Len(payments) + 1}
      /\ Len(payments) + 1 \notin Index
      /\ \A i \in Index : payments'[i] = payments[i] /\ payments[i] \in Payment
    BY <1>1, <1>2, <1>4 DEF Index
<1>6. QED
    BY <1>1, <1>2, <1>3, <1>4, <1>5 DEF entry

(* The sums over what was paid before are what they were.                  *)
LEMMA ReleaseSums ==
    ASSUME BooksInv, NEW caller, NEW p \in Subjects, NEW t \in Token, NEW a \in Amounts,
           NEW m \in Mandate, ReleasePayment(caller, p, t, a, m), NEW I \in SUBSET Index
    PROVE  /\ Total(I) \in Nat
           /\ SumOf(payments', I) = Total(I)
           /\ SumOf(payments', I \cup {Len(payments) + 1}) = Total(I) + a
<1> DEFINE entry == Entry(p, t, a, m)
<1>1. entry.amount = a
    BY DEF Entry
<1> HIDE DEF entry
<1>2. payments \in Seq(Payment) /\ entry \in Payment /\ payments' = Append(payments, entry)
    BY ReleaseAppends DEF entry
<1>3. I \in SUBSET (1..Len(payments)) /\ Total(I) = SumOf(payments, I)
    BY DEF Index, Total, SumOf
<1>4. SumOf(payments, I) \in Nat
    BY <1>2, <1>3, SumOfNat
<1>5. /\ SumOf(Append(payments, entry), I) = SumOf(payments, I)
      /\ SumOf(Append(payments, entry), I \cup {Len(payments) + 1})
            = SumOf(payments, I) + entry.amount
    BY <1>2, <1>3, SumOfAppend
<1>6. QED
    BY <1>1, <1>2, <1>3, <1>4, <1>5

(* After a release each payment's window is the one open then or a day     *)
(* earlier than every later one: a new window opens at least a day after   *)
(* the last, and before it no payment of the payee is later than a day.    *)
LEMMA ReleaseWindows ==
    ASSUME BooksInv, NEW caller, NEW p \in Subjects, NEW t \in Token, NEW a \in Amounts,
           NEW m \in Mandate, ReleasePayment(caller, p, t, a, m)
    PROVE  /\ WindowsADayApart'
           /\ \A q \in Subjects : windowStart'[q] <= now'
           /\ \/ windowStart'[p] = windowStart[p] /\ SpentInWindow(p) = spentToday[p]
              \/ /\ SpentInWindow(p) = 0
                 /\ windowStart'[p] = now
                 /\ \A i \in PaidTo(p) : payments[i].at < now
<1> DEFINE n == Len(payments)
           start == windowStart'[p]
<1>1. /\ now \in Nat /\ DAY \in Nat \ {0} /\ windowStart \in [Subjects -> Nat]
      /\ now' = now /\ \A q \in Subjects : windowStart[q] <= now
    BY TreasuryAssumption DEF BooksInv, IInv, TreasuryTypeOK, RegistryTypeOK, ReleasePayment, regVars
<1>2. /\ n \in Nat /\ Index = 1..n /\ Index' = Index \cup {n + 1} /\ n + 1 \notin Index
      /\ \A i \in Index : payments'[i] = payments[i] /\ payments[i] \in Payment
      /\ payments'[n + 1].at = now
      /\ payments'[n + 1].window = start
      /\ payments'[n + 1].payee = p
  <2> DEFINE entry == Entry(p, t, a, m)
  <2>1. entry.at = now /\ entry.window = start /\ entry.payee = p
    BY DEF Entry
  <2> HIDE DEF entry
  <2>2. payments \in Seq(Payment) /\ payments' = Append(payments, entry)
    BY ReleaseAppends DEF entry
  <2>3. payments'[n + 1] = entry
    BY <2>2
  <2>4. n \in Nat /\ Index = 1..n /\ Index' = Index \cup {n + 1} /\ n + 1 \notin Index
    BY ReleaseAppends
  <2>5. \A i \in Index : payments'[i] = payments[i] /\ payments[i] \in Payment
    BY ReleaseAppends
  <2>6. QED
    BY <2>1, <2>3, <2>4, <2>5
<1>3. \A i \in Index : /\ payments[i].at \in Nat
                       /\ payments[i].window \in Nat
                       /\ payments[i].payee \in Subjects
    BY <1>2 DEF Payment
<1>4. \A q \in Subjects : windowStart'[q] = IF q = p THEN start ELSE windowStart[q]
    BY <1>1 DEF ReleasePayment
<1>5. \/ start = windowStart[p] /\ now < start + DAY
      \/ start = now /\ now >= windowStart[p] + DAY
    BY <1>1 DEF ReleasePayment, WindowOver
<1>6. start \in Nat /\ start <= now /\ now <= start + DAY - 1
    BY <1>1, <1>5
<1>7. \A q \in Subjects : windowStart'[q] <= now'
    BY <1>1, <1>4, <1>6
<1>8. ASSUME NEW i \in Index
      PROVE  /\ payments[i].at >= payments[i].window
             /\ payments[i].at <= payments[i].window + DAY - 1
             /\ payments[i].at <= now
             /\ \A j \in PaidTo(payments[i].payee) : i < j =>
                   \/ payments[j].window = payments[i].window
                   \/ payments[j].window >= payments[i].window + DAY
             /\ \/ windowStart[payments[i].payee] = payments[i].window
                \/ windowStart[payments[i].payee] >= payments[i].window + DAY
    BY <1>1, <1>3 DEF BooksInv, WindowsADayApart
<1>9. ASSUME NEW i \in Index, payments[i].payee = p
      PROVE  start = payments[i].window \/ start >= payments[i].window + DAY
    BY <1>1, <1>3, <1>5, <1>8, <1>9
<1>10. ASSUME NEW i \in Index'
       PROVE  /\ payments'[i].at \in payments'[i].window..(payments'[i].window + DAY - 1)
              /\ payments'[i].at <= now'
              /\ \/ windowStart'[payments'[i].payee] = payments'[i].window
                 \/ windowStart'[payments'[i].payee] >= payments'[i].window + DAY
  <2>1. CASE i = n + 1
    BY <1>1, <1>2, <1>6, <2>1
  <2>2. CASE i \in Index
    <3>1. payments'[i] = payments[i]
        BY <1>2, <2>2
    <3>2. payments[i].at \in payments[i].window..(payments[i].window + DAY - 1)
        BY <1>1, <1>3, <1>8, <2>2
    <3>3. payments[i].at <= now'
        BY <1>1, <1>8, <2>2
    <3>4. \/ windowStart'[payments[i].payee] = payments[i].window
          \/ windowStart'[payments[i].payee] >= payments[i].window + DAY
        BY <1>3, <1>4, <1>8, <1>9, <2>2
    <3>5. QED
        BY <3>1, <3>2, <3>3, <3>4
  <2>3. QED
    BY <1>2, <2>1, <2>2
<1>11. ASSUME NEW i \in Index', NEW j \in Index', i < j, payments'[j].payee = payments'[i].payee
       PROVE  \/ payments'[j].window = payments'[i].window
              \/ payments'[j].window >= payments'[i].window + DAY
  <2>1. i \in Index /\ payments'[i] = payments[i]
    BY <1>2, <1>11
  <2>2. CASE j = n + 1
    BY <1>2, <1>9, <1>11, <2>1, <2>2
  <2>3. CASE j \in Index
    <3>1. payments'[j] = payments[j] /\ j \in PaidTo(payments[i].payee)
        BY <1>2, <1>11, <2>1, <2>3 DEF PaidTo
    <3>2. QED
        BY <1>8, <1>11, <2>1, <3>1
  <2>4. QED
    BY <1>2, <2>2, <2>3
<1>12. WindowsADayApart'
    BY <1>10, <1>11 DEF WindowsADayApart, PaidTo
<1>13. \/ start = windowStart[p] /\ SpentInWindow(p) = spentToday[p]
       \/ /\ SpentInWindow(p) = 0
          /\ start = now
          /\ \A i \in PaidTo(p) : payments[i].at < now
  <2>1. CASE WindowOver(p)
    <3>1. now >= windowStart[p] + DAY /\ start = now /\ SpentInWindow(p) = 0
        BY <1>1, <2>1 DEF WindowOver, ReleasePayment, SpentInWindow
    <3>2. ASSUME NEW i \in PaidTo(p)
          PROVE  payments[i].at < now
        <4>1. i \in Index /\ payments[i].payee = p
            BY DEF PaidTo
        <4>2. QED
            BY <1>1, <1>3, <1>8, <3>1, <4>1
    <3>3. QED
        BY <3>1, <3>2
  <2>2. CASE ~WindowOver(p)
    BY <1>1, <2>2 DEF ReleasePayment, SpentInWindow
  <2>3. QED
    BY <2>1, <2>2
<1>14. QED
    BY <1>7, <1>12, <1>13

(* A release moves its amount from the balance into the sums.              *)
LEMMA ReleaseBooks ==
    ASSUME BooksInv, IInv', NEW caller, NEW p \in Subjects, NEW t \in Token, NEW a \in Amounts,
           NEW m \in Mandate, ReleasePayment(caller, p, t, a, m)
    PROVE  BooksInv'
<1> DEFINE n == Len(payments)
           entry == Entry(p, t, a, m)
           start == windowStart'[p]
<1>1. /\ a \in Nat /\ now \in Nat
      /\ balance \in [Token -> Nat] /\ funded \in [Token -> Nat]
      /\ windowStart \in [Subjects -> Nat] /\ spentToday \in [Subjects -> Nat]
      /\ balance' \in [Token -> Nat]
    BY TreasuryAssumption DEF BooksInv, IInv, TreasuryTypeOK, RegistryTypeOK
<1>2. /\ entry.payee = p /\ entry.token = t /\ entry.amount = a /\ entry.at = now
      /\ entry.window = start /\ entry.limit = policies[p].dailyLimit
    BY DEF Entry
<1> HIDE DEF entry
<1>3. payments \in Seq(Payment) /\ payments' = Append(payments, entry)
    BY ReleaseAppends DEF entry
<1>4. payments'[n + 1] = entry
    BY <1>3
<1>5. n \in Nat /\ Index = 1..n /\ Index' = Index \cup {n + 1} /\ n + 1 \notin Index
    BY ReleaseAppends
<1>6. ASSUME NEW i \in Index
      PROVE  /\ payments'[i] = payments[i]
             /\ payments[i].at \in Nat /\ payments[i].window \in Nat
             /\ payments[i].payee \in Subjects
  <2>1. payments'[i] = payments[i] /\ payments[i] \in Payment
    BY ReleaseAppends
  <2>2. QED
    BY <2>1 DEF Payment
<1>7. ASSUME NEW I \in SUBSET Index
      PROVE  /\ Total(I) \in Nat
             /\ SumOf(payments', I) = Total(I)
             /\ SumOf(payments', I \cup {n + 1}) = Total(I) + a
    BY ReleaseSums
<1>8. /\ start = windowStart[p] /\ SpentInWindow(p) = spentToday[p]
      \/ /\ SpentInWindow(p) = 0
         /\ start = now
         /\ \A i \in PaidTo(p) : payments[i].at < now
    BY ReleaseWindows
<1>9. /\ spentToday' = [spentToday EXCEPT ![p] = SpentInWindow(p) + a]
      /\ \A q \in Subjects : windowStart'[q] = IF q = p THEN start ELSE windowStart[q]
      /\ balance' = [balance EXCEPT ![t] = @ - a] /\ funded' = funded
      /\ start <= now /\ start \in Nat
    BY <1>1, <1>8 DEF ReleasePayment, BooksInv
<1>10. FundsConserved'
  <2> DEFINE of(u) == {i \in Index : payments[i].token = u}
             ofNext(u) == {i \in Index' : payments'[i].token = u}
  <2>1. ASSUME NEW u \in Token
        PROVE  balance'[u] + SumOf(payments', ofNext(u)) = funded'[u] /\ balance'[u] >= 0
    <3>1. of(u) \in SUBSET Index /\ balance[u] + Total(of(u)) = funded[u]
        BY DEF BooksInv, FundsConserved
    <3>2. Total(of(u)) \in Nat
        BY <1>7, <3>1
    <3>3. CASE u = t
        <4>1. ofNext(u) = of(u) \cup {n + 1}
            BY <1>2, <1>4, <1>5, <1>6, <3>3
        <4> HIDE DEF of, ofNext, n
        <4>2. SumOf(payments', of(u) \cup {n + 1}) = Total(of(u)) + a
            BY <1>7, <3>1
        <4>3. SumOf(payments', ofNext(u)) = Total(of(u)) + a
            BY <4>1, <4>2, Zenon
        <4>4. QED
            BY <1>1, <1>9, <3>1, <3>2, <3>3, <4>3
    <3>4. CASE u # t
        <4>1. ofNext(u) = of(u)
            BY <1>2, <1>4, <1>5, <1>6, <3>4
        <4> HIDE DEF of, ofNext, n
        <4>2. SumOf(payments', ofNext(u)) = Total(of(u))
            BY <1>7, <3>1, <4>1, Zenon
        <4>3. QED
            BY <1>1, <1>9, <3>1, <3>2, <3>4, <4>2
    <3>5. QED
        BY <3>3, <3>4
  <2>2. QED
    BY <2>1 DEF FundsConserved, Total, SumOf, Index
<1> DEFINE since(q) == {i \in PaidTo(q) : payments[i].at >= windowStart[q]}
           sinceNext(q) == {i \in PaidTo(q)' : payments'[i].at >= windowStart'[q]}
<1>11. ASSUME NEW q \in Subjects
       PROVE  spentToday'[q] = SumOf(payments', sinceNext(q))
  <2>1. since(q) \in SUBSET Index /\ spentToday[q] = Total(since(q))
    BY DEF BooksInv, SpentTodayIsWindowTotal, PaidTo
  <2>2. CASE q # p
    <3>1. sinceNext(q) = since(q)
        BY <1>2, <1>4, <1>5, <1>6, <1>9, <2>2 DEF PaidTo
    <3> HIDE DEF since, sinceNext
    <3>2. SumOf(payments', sinceNext(q)) = Total(since(q))
        BY <1>7, <2>1, <3>1, Zenon
    <3>3. QED
        BY <1>1, <1>9, <2>1, <2>2, <3>2
  <2>3. CASE q = p /\ start = windowStart[p] /\ SpentInWindow(p) = spentToday[p]
    <3>1. sinceNext(q) = since(q) \cup {n + 1}
        BY <1>1, <1>2, <1>4, <1>5, <1>6, <1>9, <2>3 DEF PaidTo
    <3> HIDE DEF since, sinceNext, n
    <3>2. SumOf(payments', since(q) \cup {n + 1}) = Total(since(q)) + a
        BY <1>7, <2>1
    <3>3. SumOf(payments', sinceNext(q)) = Total(since(q)) + a
        BY <3>1, <3>2, Zenon
    <3>4. QED
        BY <1>1, <1>9, <2>1, <2>3, <3>3
  <2>4. CASE /\ q = p /\ SpentInWindow(p) = 0 /\ start = now
             /\ \A i \in PaidTo(p) : payments[i].at < now
    <3>1. sinceNext(q) = {} \cup {n + 1}
        <4>1. windowStart'[q] = now
            BY <1>9, <2>4
        <4>2. ASSUME NEW i \in Index, payments'[i].payee = q
              PROVE  ~(payments'[i].at >= now)
            <5>1. payments'[i] = payments[i] /\ payments[i].at \in Nat /\ i \in PaidTo(q)
                BY <1>6, <4>2 DEF PaidTo
            <5>2. payments[i].at < now
                BY <2>4, <5>1
            <5>3. QED
                BY <1>1, <5>1, <5>2
        <4>3. payments'[n + 1].payee = q /\ payments'[n + 1].at >= now
            BY <1>1, <1>2, <1>4, <2>4
        <4>4. QED
            BY <1>5, <4>1, <4>2, <4>3 DEF PaidTo
    <3>2. Total({}) = 0
        BY SumEmpty DEF Total
    <3> HIDE DEF since, sinceNext, n
    <3>3. SumOf(payments', {} \cup {n + 1}) = Total({}) + a
        BY <1>7
    <3>4. SumOf(payments', sinceNext(q)) = Total({}) + a
        BY <3>1, <3>3, Zenon
    <3>5. QED
        BY <1>1, <1>9, <2>4, <3>2, <3>4
  <2>5. QED
    BY <1>8, <2>2, <2>3, <2>4
<1>12. SpentTodayIsWindowTotal'
    BY <1>11 DEF SpentTodayIsWindowTotal, Total, SumOf, Index
<1>13. WindowsADayApart' /\ \A q \in Subjects : windowStart'[q] <= now'
    BY ReleaseWindows
<1> DEFINE upTo(i) == {j \in PaidTo(payments[i].payee) :
                          j <= i /\ payments[j].window = payments[i].window}
           upToNext(i) == {j \in {k \in Index' : payments'[k].payee = payments'[i].payee} :
                              j <= i /\ payments'[j].window = payments'[i].window}
<1>14. ASSUME NEW i \in Index'
       PROVE  SumOf(payments', upToNext(i)) <= payments'[i].limit
  <2>1. CASE i \in Index
    <3>1. /\ upTo(i) \in SUBSET Index /\ Total(upTo(i)) <= payments[i].limit
          /\ payments'[i] = payments[i]
        BY <1>6, <2>1 DEF BooksInv, WindowWithinLimit, PaidTo
    <3>2. upToNext(i) = upTo(i)
        BY <1>5, <1>6, <2>1 DEF PaidTo
    <3> HIDE DEF upTo, upToNext
    <3>3. SumOf(payments', upToNext(i)) = Total(upTo(i))
        BY <1>7, <3>1, <3>2, Zenon
    <3>4. QED
        BY <3>1, <3>3
  <2>2. CASE i = n + 1
    <3>1. upToNext(i) = sinceNext(p)
        <4>1. ASSUME NEW j \in Index', payments'[j].payee = p
              PROVE  j <= n + 1 /\ (payments'[j].window = start <=> payments'[j].at >= start)
            <5>1. CASE j = n + 1
                BY <1>1, <1>2, <1>4, <1>5, <1>9, <5>1
            <5>2. CASE j \in Index
                <6>1. /\ payments'[j].at \in payments'[j].window..(payments'[j].window + DAY - 1)
                      /\ \/ start = payments'[j].window
                         \/ start >= payments'[j].window + DAY
                    BY <1>13, <4>1 DEF WindowsADayApart
                <6>2. payments'[j].at \in Nat /\ payments'[j].window \in Nat /\ DAY \in Nat \ {0}
                    BY <1>6, <5>2, TreasuryAssumption
                <6>3. payments'[j].window = start <=> payments'[j].at >= start
                    BY <1>9, <6>1, <6>2
                <6>4. QED
                    BY <1>5, <5>2, <6>3
            <5>3. QED
                BY <1>5, <5>1, <5>2
        <4>2. payments'[i].payee = p /\ payments'[i].window = start
            BY <1>2, <1>4, <2>2
        <4>3. windowStart'[p] = start
            OBVIOUS
        <4>4. QED
            BY <2>2, <4>1, <4>2, <4>3 DEF PaidTo
    <3>2. SumOf(payments', sinceNext(p)) = spentToday'[p]
        BY <1>11
    <3>3. spentToday'[p] = SpentInWindow(p) + a /\ SpentInWindow(p) \in Nat
        BY <1>1, <1>8, <1>9
    <3>4. policies[p].dailyLimit \in Nat
        BY DEF BooksInv, IInv, TreasuryTypeOK, Policy, EmptyPolicy
    <3>5. spentToday'[p] <= policies[p].dailyLimit
        BY <1>1, <3>3, <3>4 DEF ReleasePayment, WithinDailyLimit
    <3>6. payments'[i].limit = policies[p].dailyLimit
        BY <1>2, <1>4, <2>2
    <3> HIDE DEF upToNext, sinceNext
    <3>7. SumOf(payments', upToNext(i)) = spentToday'[p]
        BY <3>1, <3>2, Zenon
    <3>8. QED
        BY <3>5, <3>6, <3>7
  <2>3. QED
    BY <1>5, <2>1, <2>2
<1>15. WindowWithinLimit'
    BY <1>14 DEF WindowWithinLimit, Total, SumOf, PaidTo, Index
<1>16. QED
    BY <1>10, <1>12, <1>13, <1>15 DEF BooksInv

(* The invariant of the books is inductive, and holds throughout.          *)
LEMMA NextBooks == BooksInv /\ [Next]_vars => BooksInv'
<1> SUFFICES ASSUME BooksInv, [Next]_vars
             PROVE  BooksInv'
    OBVIOUS
<1>1. IInv'
    BY NextIInv DEF BooksInv
<1>2. CASE DepositStep
    BY <1>1, <1>2, DepositBooks DEF DepositStep
<1>3. CASE ReleaseStep
    BY <1>1, <1>3, ReleaseBooks DEF ReleaseStep
<1>4. CASE ~DepositStep /\ ~ReleaseStep
    BY <1>1, <1>4, QuietBooks
<1>5. QED
    BY <1>2, <1>3, <1>4

LEMMA SpecBooks == Spec => []BooksInv
BY InitBooks, NextBooks, PTL DEF Spec

(* The treasury is never overdrawn and never keeps more or less of a token *)
(* than was deposited and not paid out.                                    *)
THEOREM FundsAreConserved == Spec => []FundsConserved
<1>1. BooksInv => FundsConserved
    BY DEF BooksInv
<1>2. QED
    BY <1>1, SpecBooks, PTL

(* The counter the daily limit is checked against is the sum of what the   *)
(* payee was paid since its window opened.                                 *)
THEOREM SpentTodayIsTheTotal == Spec => []SpentTodayIsWindowTotal
<1>1. BooksInv => SpentTodayIsWindowTotal
    BY DEF BooksInv
<1>2. QED
    BY <1>1, SpecBooks, PTL

(* Two windows of a payee are never less than a day apart.                 *)
THEOREM WindowsAreADayApart == Spec => []WindowsADayApart
<1>1. BooksInv => WindowsADayApart
    BY DEF BooksInv
<1>2. QED
    BY <1>1, SpecBooks, PTL

(* No window exceeds the limit in force at any payment in it.              *)
THEOREM WindowsStayWithinLimit == Spec => []WindowWithinLimit
<1>1. BooksInv => WindowWithinLimit
    BY DEF BooksInv
<1>2. QED
    BY <1>1, SpecBooks, PTL

------------------------------------------------------------------------------
(* A day meets at most two windows.                                        *)

(* Payments of one window within a day come to no more than the highest    *)
(* limit of that day: the last of them was within its own.                 *)
LEMMA OneWindowOfADay ==
    ASSUME BooksInv, NEW i \in Index, NEW C \in SUBSET WithinADay(i),
           \A j, k \in C : payments[j].window = payments[k].window,
           NEW top \in Nat, \A j \in WithinADay(i) : payments[j].limit <= top
    PROVE  Total(C) \in Nat /\ Total(C) <= top
<1>1. payments \in Seq(Payment) /\ C \in SUBSET Index /\ Index = 1..Len(payments)
    BY DEF BooksInv, IInv, TreasuryTypeOK, WithinADay, PaidTo, Index
<1>2. \A I \in SUBSET Index : IsFiniteSet(I) /\ Total(I) \in Nat
    BY <1>1, SumOfNat DEF Total, SumOf, Index
<1>3. CASE C = {}
  <2>1. Total({}) = 0
    BY SumEmpty DEF Total
  <2>2. QED
    BY <1>3, <2>1
<1>4. CASE C # {}
  <2>1. C \subseteq Int /\ IsFiniteSet(C)
    BY <1>1, <1>2
  <2>2. PICK k \in C : \A j \in C : k >= j
    BY <1>4, <2>1, LargestElement
  <2> DEFINE W == {j \in PaidTo(payments[k].payee) :
                      j <= k /\ payments[j].window = payments[k].window}
             f == [j \in Index |-> payments[j].amount]
  <2>3. k \in Index /\ k \in WithinADay(i) /\ payments[k] \in Payment
    BY <1>1
  <2>4. Total(W) <= payments[k].limit
    BY <2>3 DEF BooksInv, WindowWithinLimit
  <2>5. C \in SUBSET W /\ W \in SUBSET Index
    <3>1. \A j \in C : payments[j].payee = payments[i].payee /\ j \in Index
        BY DEF WithinADay, PaidTo
    <3>2. \A j \in C : j <= k
        BY <1>1, <2>2, <2>3, <3>1
    <3>3. QED
        BY <3>1, <3>2 DEF PaidTo
  <2>6. \A j \in W : f[j] \in Nat
    <3>1. \A j \in W : payments[j] \in Payment /\ j \in Index
        BY <1>1, <2>5
    <3>2. QED
        BY <3>1 DEF Payment
  <2>7. IsFiniteSet(W) /\ Total(W) \in Nat
    BY <1>2, <2>5
  <2>8. Total(C) <= Total(W)
    <3> HIDE DEF W, f
    <3>1. SumFunctionOnSet(f, C) <= SumFunctionOnSet(f, W)
        BY <2>5, <2>6, <2>7, SumMonotone
    <3>2. QED
        BY <3>1 DEF Total, f
  <2>9. Total(C) \in Nat /\ payments[k].limit \in Nat /\ payments[k].limit <= top
    BY <1>1, <1>2, <2>3 DEF Payment
  <2> HIDE DEF W
  <2>10. QED
    BY <2>4, <2>7, <2>8, <2>9
<1>5. QED
    BY <1>3, <1>4

(* The payments within a day that are not of the first one's window are    *)
(* all of the next: a third would open two days after the first.           *)
LEMMA TwoWindowsADay ==
    ASSUME BooksInv, NEW i \in Index, NEW j \in WithinADay(i), NEW k \in WithinADay(i),
           payments[j].window # payments[i].window, payments[k].window # payments[i].window
    PROVE  payments[j].window = payments[k].window
<1> DEFINE w(l) == payments[l].window
           at(l) == payments[l].at
<1>1. payments \in Seq(Payment) /\ Index = 1..Len(payments) /\ DAY \in Nat \ {0}
    BY TreasuryAssumption DEF BooksInv, IInv, TreasuryTypeOK, Index
<1>2. ASSUME NEW l \in Index
      PROVE  l \in Nat /\ w(l) \in Nat /\ at(l) \in Nat /\ w(l) <= at(l) /\ at(l) < w(l) + DAY
  <2>1. payments[l] \in Payment /\ l \in Nat
    BY <1>1
  <2>2. w(l) \in Nat /\ at(l) \in Nat
    BY <2>1 DEF Payment
  <2>3. at(l) \in w(l)..(w(l) + DAY - 1)
    BY DEF BooksInv, WindowsADayApart
  <2>4. QED
    BY <1>1, <2>1, <2>2, <2>3
<1>3. ASSUME NEW l \in Index, NEW o \in Index, payments[l].payee = payments[o].payee, l < o
      PROVE  w(o) = w(l) \/ w(o) >= w(l) + DAY
    BY <1>3 DEF BooksInv, WindowsADayApart, PaidTo
<1>4. ASSUME NEW l \in WithinADay(i)
      PROVE  /\ l \in Index
             /\ payments[l].payee = payments[i].payee
             /\ at(i) <= at(l) /\ at(l) < at(i) + DAY
  <2>1. l \in Index /\ payments[l].payee = payments[i].payee /\ at(l) \in at(i)..(at(i) + DAY - 1)
    BY DEF WithinADay, PaidTo
  <2>2. QED
    BY <1>1, <1>2, <2>1
<1> HIDE DEF w, at
<1>5. ASSUME NEW l \in WithinADay(i), w(l) # w(i)
      PROVE  w(l) >= w(i) + DAY /\ w(l) < w(i) + 2 * DAY
  <2>1. l \in Index /\ l # i
    BY <1>4, <1>5
  <2>2. CASE i < l
    <3>1. w(l) >= w(i) + DAY
        BY <1>3, <1>4, <1>5, <2>1, <2>2
    <3>2. /\ w(l) <= at(l) /\ at(l) < at(i) + DAY /\ at(i) < w(i) + DAY
          /\ w(l) \in Nat /\ at(l) \in Nat /\ at(i) \in Nat /\ w(i) \in Nat
        BY <1>2, <1>4, <2>1
    <3>3. QED
        BY <1>1, <3>1, <3>2
  <2>3. CASE l < i
    BY <1>1, <1>2, <1>3, <1>4, <1>5, <2>1, <2>3
  <2>4. QED
    BY <1>2, <2>1, <2>2, <2>3
<1>6. w(j) >= w(i) + DAY /\ w(j) < w(i) + 2 * DAY
    BY <1>5 DEF w
<1>7. w(k) >= w(i) + DAY /\ w(k) < w(i) + 2 * DAY
    BY <1>5 DEF w
<1>8. j \in Index /\ k \in Index /\ payments[j].payee = payments[k].payee
    BY <1>4
<1>9. CASE j = k
    BY <1>9
<1>10. CASE j < k
  <2>1. w(k) = w(j) \/ w(k) >= w(j) + DAY
    BY <1>3, <1>8, <1>10
  <2>2. w(k) = w(j)
    BY <1>1, <1>2, <1>6, <1>7, <1>8, <2>1
  <2>3. QED
    BY <2>2 DEF w
<1>11. CASE k < j
  <2>1. w(j) = w(k) \/ w(j) >= w(k) + DAY
    BY <1>3, <1>8, <1>11
  <2>2. w(k) = w(j)
    BY <1>1, <1>2, <1>6, <1>7, <1>8, <2>1
  <2>3. QED
    BY <2>2 DEF w
<1>12. QED
    BY <1>2, <1>8, <1>9, <1>10, <1>11

(* So a day's payments are two windows' worth at most.                     *)
LEMMA TwiceTheLimit == BooksInv => AnyDayWithinTwiceTheLimit
<1> SUFFICES ASSUME BooksInv, NEW i \in Index
             PROVE  Total(WithinADay(i)) <= 2 * Max({payments[j].limit : j \in WithinADay(i)})
    BY DEF AnyDayWithinTwiceTheLimit
<1> DEFINE D == WithinADay(i)
           L == {payments[j].limit : j \in D}
           A == {j \in D : payments[j].window = payments[i].window}
           B == {j \in D : payments[j].window # payments[i].window}
<1>1. payments \in Seq(Payment) /\ D \in SUBSET Index /\ Index = 1..Len(payments)
    BY DEF BooksInv, IInv, TreasuryTypeOK, WithinADay, PaidTo, Index
<1>2. \A I \in SUBSET Index : IsFiniteSet(I) /\ Total(I) \in Nat
    BY <1>1, SumOfNat DEF Total, SumOf, Index
<1>3. \A j \in D : payments[j] \in Payment /\ payments[j].limit \in Nat
                   /\ payments[j].amount \in Int
  <2>1. \A j \in D : payments[j] \in Payment
    BY <1>1
  <2>2. QED
    BY <2>1 DEF Payment
<1>4. i \in D
  <2>1. payments[i] \in Payment /\ DAY \in Nat \ {0}
    BY <1>1, TreasuryAssumption
  <2>2. payments[i].at \in Nat
    BY <2>1 DEF Payment
  <2>3. QED
    BY <2>1, <2>2 DEF WithinADay, PaidTo
<1>5. Max(L) \in L /\ \A x \in L : Max(L) >= x
  <2>1. IsFiniteSet(D)
    BY <1>1, <1>2
  <2>2. IsFiniteSet(L)
    <3> DEFINE limitOf == [j \in D |-> payments[j].limit]
    <3>1. limitOf \in Surjection(D, L)
        BY DEF Surjection
    <3>2. QED
        BY <2>1, <3>1, FS_Surjection
  <2>3. L \subseteq Int /\ L # {}
    BY <1>3, <1>4
  <2> HIDE DEF L
  <2>4. \E x \in L : \A y \in L : x >= y
    BY <2>2, <2>3, LargestElement
  <2>5. QED
    BY <2>4 DEF Max
<1> DEFINE top == Max(L)
<1>6. top \in Nat /\ \A j \in D : payments[j].limit <= top
  <2>1. PICK j \in D : top = payments[j].limit
    BY <1>5
  <2>2. \A k \in D : top >= payments[k].limit
    BY <1>5
  <2> HIDE DEF top, L
  <2>3. top \in Nat
    BY <1>3, <2>1
  <2>4. QED
    BY <1>3, <2>2, <2>3
<1> HIDE DEF top
<1>7. Total(A) \in Nat /\ Total(A) <= top
  <2>1. A \in SUBSET D /\ \A j, k \in A : payments[j].window = payments[k].window
    OBVIOUS
  <2> HIDE DEF A
  <2>2. QED
    BY <1>6, <2>1, OneWindowOfADay
<1>8. Total(B) \in Nat /\ Total(B) <= top
  <2>1. B \in SUBSET D /\ \A j, k \in B : payments[j].window = payments[k].window
    BY TwoWindowsADay
  <2> HIDE DEF B
  <2>2. QED
    BY <1>6, <2>1, OneWindowOfADay
<1>9. Total(D) = Total(A) + Total(B)
  <2> DEFINE f == [j \in Index |-> payments[j].amount]
  <2>1. D = A \cup B /\ A \cap B = {} /\ IsFiniteSet(A) /\ IsFiniteSet(B)
    BY <1>1, <1>2
  <2>2. \A j \in A \cup B : f[j] \in Int
    BY <1>1, <1>3, <2>1
  <2> HIDE DEF A, B, f, D
  <2>3. SumFunctionOnSet(f, A \cup B) = SumFunctionOnSet(f, A) + SumFunctionOnSet(f, B)
    BY <2>1, <2>2, SumUnion
  <2>4. SumFunctionOnSet(f, D) = SumFunctionOnSet(f, A) + SumFunctionOnSet(f, B)
    BY <2>1, <2>3, Zenon
  <2>5. QED
    BY <2>4 DEF Total, f
<1>10. Total(D) <= 2 * top
  <2> HIDE DEF A, B, D
  <2>1. QED
    BY <1>6, <1>7, <1>8, <1>9
<1>11. QED
    BY <1>10 DEF top

(* In no stretch of a day is a payee paid more than twice the highest      *)
(* limit in force at a payment of that day, for any limits, any length of  *)
(* the day and any history of the two contracts.                           *)
THEOREM AnyDayStaysWithinTwiceTheLimit == Spec => []AnyDayWithinTwiceTheLimit
BY SpecBooks, TwiceTheLimit, PTL
==============================================================================
