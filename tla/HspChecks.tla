------------------------------ MODULE HspChecks ------------------------------
(***************************************************************************)
(* The checks of the HSP verifier, under the policy buildCompliancePolicy  *)
(* builds.  Each names the class of the first early return taken, or       *)
(* "none".                                                                 *)
(*                                                                         *)
(* Mandates, receipts and attestations are records of what is looked at:   *)
(* a hash or a signature is the fact it establishes (signedBy names whoever*)
(* recoverAddress yields, Nobody where it throws or the form is refused).  *)
(***************************************************************************)
EXTENDS Integers, HspCapabilities

CONSTANTS
    Nobody,
    Adapter,          \* the address of the adapter that is trusted
    TrustedIssuers,   \* of each family, the issuers that are trust anchors
    PolicyRequires,   \* policyRequiredCapabilities
    Admission,        \* of the proof schema
    AllowsAttempted,
    DisputeWindowMs

SignerGranted(m) == m.signedBy = m.signer /\ m.signer # Nobody

(* verifyPhaseA.  The policy accepts its own verifying contract, and the   *)
(* one signer profile depends on no state.                                 *)
PhaseA(m) ==
    IF m.chainId = 0 \/ m.requires # m.committed THEN "PERMANENT"
    ELSE IF ~(PolicyRequires \subseteq m.requires) \/ m.profile # "eip712-eoa" THEN "POLICY"
    ELSE IF ~SignerGranted(m) THEN "PERMANENT"
    ELSE "none"

(* The receipt is the mandate's, and the trusted adapter's.                *)
Provenance(m, r) ==
    IF r.mandate # m.hash THEN "PERMANENT"
    ELSE IF r.adapter # "evm-transfer" THEN "POLICY"
    ELSE IF r.signedBy # Adapter THEN "PERMANENT"
    ELSE "none"

(* Everything before the index is read depends on the arguments only.      *)
RefusalUnread(m, r) == IF PhaseA(m) # "none" THEN PhaseA(m) ELSE Provenance(m, r)

OfMandate(r, known) == {e \in known : e.mandate = r.mandate}

Equivocates(r, known) ==
    \E e \in OfMandate(r, known) : e.seq = r.seq /\ e.hash # r.hash

Admissible(r, seen) ==
    \/ Admission = "accept-new"
    \/ seen /\ Admission = "accept-historical"
    \/ seen /\ r.outcome \in {"DISPUTED", "FAILED"}

(* The equivocation, the schema and its admission.                         *)
RefusalAtIndex(r, known) ==
    LET seen == OfMandate(r, known) # {}
    IN  IF Equivocates(r, known) THEN "PERMANENT"
        ELSE IF r.proofSchema # "evm-transfer" THEN "POLICY"
        ELSE IF Admissible(r, seen) THEN "none"
        ELSE IF seen THEN "RETRYABLE" ELSE "POLICY"

(* evmTransferSchema.verify, and checkSettlementConsistency of what it     *)
(* observed: an exact amount, on which a mandate to hide it founders.      *)
ProofHolds(m, r) ==
    /\ m.recipient.kind = "ADDRESS"
    /\ r.proof.from = m.signer
    /\ r.proof.token = m.token
    /\ r.proof.chainId = m.chainId
    /\ r.proof.to = m.recipient.id
    /\ HidesAmount \notin m.requires
    /\ r.proof.value = m.amount

(* transferObservationId                                                   *)
Observation(r) == <<r.proof.chainId, r.proof.token, r.proof.txHash>>

(* roleFunction: the payer, whom every registered capability is about, is  *)
(* whoever the signer profile resolved.                                    *)
ExpectedSubject(m) == m.signer

(* validateCR2: no contextBindingScope is set.                             *)
IssuedByTrusted(a) == a.signedBy = a.issuer /\ a.issuer \in TrustedIssuers[a.family]

ValidCR2(a, m, r, now) ==
    /\ IssuedByTrusted(a)
    /\ a.subject = ExpectedSubject(m)
    /\ a.issuedAt <= now
    /\ a.expiresAt = 0 \/ now <= a.expiresAt
    /\ a.context \in {"none", m.hash, r.hash}

Granted(a) == [family |-> a.family, value |-> a.value]

Registered == {KycBasic, KycFull, Sanctions}

(* An attestation is looked at only if it names the capability that its    *)
(* claims amount to.                                                       *)
Attested(cap, m, r, atts, now) ==
    \E a \in atts : /\ Granted(a) = a.capability
                    /\ Satisfies(cap, Granted(a))
                    /\ ValidCR2(a, m, r, now)

(* walkCap of every requirement, which the order of their hashes ends at   *)
(* any one that fails.                                                     *)
CapabilityRefusals(m, r, atts, now) ==
    LET unmet == {cap \in m.requires : cap \notin Registered
                                         \/ ~Attested(cap, m, r, atts, now)}
        Of(cap) == IF cap \in Registered /\ TrustedIssuers[cap.family] # {}
                   THEN "RETRYABLE" ELSE "POLICY"
    IN  IF unmet = {} THEN {"none"} ELSE {Of(cap) : cap \in unmet}

Late(m, r) == r.outcome \in {"ATTEMPTED", "SETTLED"} /\ m.deadline < r.settledAt

SettledIn(seen) == {e \in seen : e.outcome = "SETTLED"}

(* The settlement a dispute is measured against; of two with one number,   *)
(* which only overlapping calls can record, either may come first.         *)
LatestSettled(seen) ==
    {e \in SettledIn(seen) : \A f \in SettledIn(seen) : f.seq <= e.seq}

(* A mutant: seconds compared with milliseconds.                           *)
InDisputeWindowUnits(r, s) ==
    s.settledAt <= r.settledAt /\ r.settledAt - s.settledAt <= DisputeWindowMs

InDisputeWindow(r, s) ==
    s.settledAt <= r.settledAt /\ (r.settledAt - s.settledAt) * 1000 <= DisputeWindowMs

(* A mutant: the number compared with those of settlements only.           *)
StaleAfterSettledOnly(r, seen) == \E e \in SettledIn(seen) : r.seq <= e.seq

Stale(r, seen) == \E e \in seen : r.seq <= e.seq

(* A mutant: a dispute that overtakes its settlement is refused for good.  *)
NothingToDisputeEver(r) == "PERMANENT"

NothingToDispute(r) == IF r.seq > 0 THEN "RETRYABLE" ELSE "PERMANENT"

(* checkSequencing, against what the caller has seen of the mandate.       *)
Sequencing(r, seen) ==
    IF Stale(r, seen) THEN {"PERMANENT"}
    ELSE IF r.outcome = "DISPUTED" THEN
        IF SettledIn(seen) = {} THEN {NothingToDispute(r)}
        ELSE {IF InDisputeWindow(r, s) THEN "none" ELSE "PERMANENT" : s \in LatestSettled(seen)}
    ELSE IF \E e \in seen : e.outcome \in {"SETTLED", "DISPUTED"} THEN {"PERMANENT"}
    ELSE {IF r.outcome = "ATTEMPTED" /\ ~AllowsAttempted THEN "POLICY" ELSE "none"}

(* A mutant: the observation compared with those of the same mandate only. *)
TakenWithin(r, known) ==
    \E e \in known : e # r /\ e.mandate = r.mandate /\ Observation(e) = Observation(r)

TakenByOther(r, known) ==
    \E e \in known : e.mandate # r.mandate /\ Observation(e) = Observation(r)

(* What may stop a call between its reading of the index and its entry,    *)
(* where only the observation is looked up anew.                           *)
Refusals(m, r, atts, now, seen, known) ==
    LET unmet == CapabilityRefusals(m, r, atts, now)
    IN  IF ~ProofHolds(m, r) THEN {"PERMANENT"}
        ELSE IF unmet # {"none"} THEN unmet
        ELSE IF Late(m, r) THEN {"PERMANENT"}
        ELSE {IF refusal = "none" /\ TakenByOther(r, known) THEN "PERMANENT" ELSE refusal :
                 refusal \in Sequencing(r, seen)}

(* A mutant: an outcome that the switch forgets.                           *)
ClassForOkPartly(outcome) ==
    IF outcome = "SETTLED" THEN "ACCEPT"
    ELSE IF outcome = "ATTEMPTED" THEN "RETRYABLE"
    ELSE IF outcome = "FAILED" THEN "PERMANENT"
    ELSE "none"

(* outcomeClassForOk: FAILED and DISPUTED are for good.                    *)
ClassForOk(outcome) ==
    IF outcome = "SETTLED" THEN "ACCEPT"
    ELSE IF outcome = "ATTEMPTED" THEN "RETRYABLE"
    ELSE "PERMANENT"

(* verify() without an index answers ok and ACCEPT.                        *)
Accepts(m, r, atts, now) ==
    /\ RefusalUnread(m, r) = "none"
    /\ RefusalAtIndex(r, {}) = "none"
    /\ Refusals(m, r, atts, now, {}, {}) = {"none"}
    /\ ClassForOk(r.outcome) = "ACCEPT"
==============================================================================
