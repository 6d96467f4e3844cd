---------------------- MODULE AttestationRegistry_proofs ----------------------
(***************************************************************************)
(* Theorems about the registry, for any accounts, levels and expiry times. *)
(***************************************************************************)
EXTENDS AttestationRegistry, TLAPS

(* A freshly deployed registry is well-typed: an unwritten entry reads as  *)
(* an attestation of nobody.                                               *)
LEMMA RegistryInitTypeOK == RegistryInit => RegistryTypeOK
<1> SUFFICES ASSUME RegistryInit
             PROVE  RegistryTypeOK
    OBVIOUS
<1>1. EmptyAttestation \in Attestation
    BY DEF EmptyAttestation, Attestation
<1>2. attestations \in [Subjects -> [Capability -> Attestation]]
    BY <1>1 DEF RegistryInit
<1>3. Admin!TypeOK
    BY RegistryAssumption DEF RegistryInit, Admin!Init, Admin!TypeOK
<1>4. QED
    BY <1>2, <1>3, RegistryAssumption DEF RegistryInit, RegistryTypeOK

(* The registry's steps, with whatever level and expiry time an issuer     *)
(* passes, and not only the bounded choice of RegistryNext.                *)
RecordAny ==
    \E caller \in issuers, s \in Subjects, c \in Capability, level \in Nat, expiry \in Nat :
        RecordAttestation(caller, s, c, level, expiry)

RegistryStep == RegistryNext \/ Mine \/ RecordAny

(* Every transaction of the registry, and every tick of the clock, keeps   *)
(* the storage well-typed.                                                 *)
LEMMA RegistryNextTypeOK ==
    RegistryTypeOK /\ [RegistryStep]_regVars => RegistryTypeOK'
<1> SUFFICES ASSUME RegistryTypeOK, [RegistryStep]_regVars
             PROVE  RegistryTypeOK'
    OBVIOUS
<1> USE RegistryAssumption DEF RegistryTypeOK, Admin!TypeOK, adminVars
<1>1. ASSUME NEW i \in Issuers, RegisterIssuer(i) \/ RevokeIssuer(i)
      PROVE  RegistryTypeOK'
    BY <1>1 DEF RegisterIssuer, RevokeIssuer
<1>2. ASSUME NEW caller \in issuers, NEW s \in Subjects, NEW c \in Capability,
             NEW level \in Nat, NEW expiry \in Nat,
             RecordAttestation(caller, s, c, level, expiry)
      PROVE  RegistryTypeOK'
    BY <1>2 DEF RecordAttestation, Attestation
<1>3. ASSUME NEW caller \in issuers, NEW s \in Subjects, NEW c \in Capability,
             RevokeAttestation(caller, s, c)
      PROVE  RegistryTypeOK'
    <2> DEFINE a == attestations[s][c]
    <2>1. a \in Attestation
        OBVIOUS
    <2>2. [a EXCEPT !.revoked = TRUE, !.revokedBy = caller] \in Attestation
        BY <2>1 DEF Attestation
    <2>3. attestations' = [attestations EXCEPT ![s] =
              [@ EXCEPT ![c] = [a EXCEPT !.revoked = TRUE, !.revokedBy = caller]]]
        BY <1>3 DEF RevokeAttestation
    <2>4. attestations' \in [Subjects -> [Capability -> Attestation]]
        BY <2>2, <2>3
    <2>5. QED
        BY <1>3, <2>4 DEF RevokeAttestation
<1>4. CASE PauseRegistry
    BY <1>4 DEF PauseRegistry, Admin!Pause
<1>5. CASE UnpauseRegistry
    BY <1>5 DEF UnpauseRegistry, Admin!Unpause
<1>6. CASE RegistryOwnership
    BY <1>6 DEF RegistryOwnership, Admin!OwnershipStep, Admin!TransferOwnership,
                Admin!AcceptOwnership, Admin!RenounceOwnership
<1>7. CASE Mine
    BY <1>7 DEF Mine, registryVars
<1>8. CASE UNCHANGED regVars
    BY <1>8 DEF regVars
<1>9. QED
    BY <1>1, <1>2, <1>3, <1>4, <1>5, <1>6, <1>7, <1>8 DEF RegistryNext, RegistryStep, RecordAny

(* Type correctness of the registry.                                       *)
THEOREM RegistryTypeCorrect == RegistrySpec => []RegistryTypeOK
<1>1. RegistryTypeOK /\ [RegistryNext \/ Mine]_regVars => RegistryTypeOK'
    BY RegistryNextTypeOK DEF RegistryStep
<1>2. QED
    BY <1>1, RegistryInitTypeOK, PTL DEF RegistrySpec

------------------------------------------------------------------------------

(* What a step can do to one attestation: keep it, revoke it, or replace   *)
(* it by one a registered issuer records now.                              *)
Kept(s, c) == attestations'[s][c] = attestations[s][c]

RevokedNow(s, c) ==
    LET a == attestations[s][c] IN
    /\ Exists(a)
    /\ \E sender \in issuers \cap {a.issuer, regOwner} :
          attestations'[s][c] = [a EXCEPT !.revoked = TRUE, !.revokedBy = sender]

(* Reading a two-level mapping after one entry was written.                *)
LEMMA NestedUpdate ==
    ASSUME NEW S, NEW C, NEW V, NEW f \in [S -> [C -> V]], NEW value,
           NEW s \in S, NEW c \in C, NEW t \in S, NEW d \in C
    PROVE  [f EXCEPT ![t][d] = value][s][c] = IF s = t /\ c = d THEN value ELSE f[s][c]
<1>1. CASE s = t
    BY <1>1
<1>2. CASE s # t
    BY <1>2
<1>3. QED
    BY <1>1, <1>2

(* What one step can do to one attestation: keep it, while time passes or  *)
(* while neither the clock nor the issuers move; record it anew by an      *)
(* issuer that is registered; or set the revoked flag on it.               *)
LEMMA StepOnAttestation ==
    ASSUME RegistryTypeOK, [RegistryStep]_regVars,
           NEW s \in Subjects, NEW c \in Capability
    PROVE  \/ Kept(s, c) /\ now' >= now
           \/ Kept(s, c) /\ UNCHANGED <<now, issuers>>
           \/ RevokedNow(s, c) /\ UNCHANGED <<now, issuers>>
           \/ /\ Superseded(s, c)
              /\ attestations'[s][c].subject = s
              /\ UNCHANGED <<now, issuers>>
<1> USE RegistryAssumption DEF RegistryTypeOK, Admin!TypeOK, adminVars
<1>1. ASSUME NEW i \in Issuers, RegisterIssuer(i) \/ RevokeIssuer(i)
      PROVE  Kept(s, c) /\ now' >= now
    BY <1>1 DEF RegisterIssuer, RevokeIssuer, Kept
<1>2. ASSUME NEW caller \in issuers, NEW t \in Subjects, NEW d \in Capability,
             NEW level \in Nat, NEW expiry \in Nat,
             RecordAttestation(caller, t, d, level, expiry)
      PROVE  /\ Kept(s, c) \/ (Superseded(s, c) /\ attestations'[s][c].subject = s)
             /\ UNCHANGED <<now, issuers>>
    <2> DEFINE new == [subject |-> t, issuer |-> caller, kycLevel |-> level,
                       issuedAt |-> now, expiresAt |-> expiry, revoked |-> FALSE,
                       revokedBy |-> ZeroAddress]
    <2>1. attestations'[s][c] = IF s = t /\ c = d THEN new ELSE attestations[s][c]
        BY <1>2, NestedUpdate DEF RecordAttestation
    <2>2. UNCHANGED <<now, issuers>> /\ ~regPaused
        BY <1>2 DEF RecordAttestation
    <2>3. /\ new.subject = t
          /\ new.issuer \in issuers
          /\ new.issuedAt = now
          /\ ~new.revoked
        OBVIOUS
    <2> HIDE DEF new
    <2>4. CASE s = t /\ c = d
        BY <2>1, <2>2, <2>3, <2>4 DEF Superseded, Kept
    <2>5. CASE ~(s = t /\ c = d)
        BY <2>1, <2>2, <2>5 DEF Kept
    <2>6. QED
        BY <2>4, <2>5
<1>3. ASSUME NEW caller \in issuers, NEW t \in Subjects, NEW d \in Capability,
             RevokeAttestation(caller, t, d)
      PROVE  (Kept(s, c) \/ RevokedNow(s, c)) /\ UNCHANGED <<now, issuers>>
    <2> DEFINE new == [attestations[t][d] EXCEPT !.revoked = TRUE, !.revokedBy = caller]
    <2>1. attestations' = [attestations EXCEPT ![t][d] = new]
        BY <1>3 DEF RevokeAttestation
    <2>2. attestations'[s][c] = IF s = t /\ c = d THEN new ELSE attestations[s][c]
        BY <2>1, NestedUpdate
    <2>3. /\ UNCHANGED <<now, issuers>>
          /\ Exists(attestations[t][d])
          /\ caller \in {attestations[t][d].issuer, regOwner}
        BY <1>3 DEF RevokeAttestation, MayRevoke, Admin!IsOwner
    <2>4. QED
        BY <2>2, <2>3 DEF Kept, RevokedNow
<1>4. CASE PauseRegistry \/ UnpauseRegistry \/ RegistryOwnership
    BY <1>4 DEF PauseRegistry, UnpauseRegistry, RegistryOwnership, Kept
<1>5. CASE Mine
    BY <1>5 DEF Mine, registryVars, Kept
<1>6. CASE UNCHANGED regVars
    BY <1>6 DEF regVars, Kept
<1>7. QED
    BY <1>1, <1>2, <1>3, <1>4, <1>5, <1>6 DEF RegistryNext, RegistryStep, RecordAny

(* Whatever is stored under a subject names that subject.                  *)
LEMMA StepOnAttestationSubject ==
    ASSUME RegistryTypeOK, [RegistryStep]_regVars,
           NEW s \in Subjects, NEW c \in Capability,
           attestations[s][c].subject \in {s, ZeroAddress}
    PROVE  attestations'[s][c].subject \in {s, ZeroAddress}
<1>1. attestations[s][c] \in Attestation
    BY DEF RegistryTypeOK
<1>2. RevokedNow(s, c) => attestations'[s][c].subject = attestations[s][c].subject
    BY <1>1 DEF RevokedNow, Attestation
<1>3. QED
    BY <1>2, StepOnAttestation DEF Kept, Superseded

(* An issuer that enters or leaves the set does so by the owner's call,    *)
(* which leaves the clock and the attestations alone.                      *)
LEMMA StepOnIssuers ==
    ASSUME [RegistryStep]_regVars
    PROVE  \/ UNCHANGED issuers
           \/ Admin!OwnerCalls /\ UNCHANGED <<now, attestations>>
<1>1. CASE \E i \in Issuers : RegisterIssuer(i) \/ RevokeIssuer(i)
    BY <1>1 DEF RegisterIssuer, RevokeIssuer
<1>2. CASE ~ \E i \in Issuers : RegisterIssuer(i) \/ RevokeIssuer(i)
    BY <1>2 DEF RegistryStep, RecordAny, RegistryNext, Mine, regVars, registryVars, RecordAttestation,
                RevokeAttestation, PauseRegistry, UnpauseRegistry, RegistryOwnership
<1>3. QED
    BY <1>1, <1>2

(* One step makes an attestation valid only by recording it or by letting  *)
(* its issuer in again.                                                    *)
LEMMA StepGainsValidityOnlyBy ==
    ASSUME RegistryTypeOK, [RegistryStep]_regVars,
           NEW s \in Subjects, NEW c \in Capability
    PROVE  GainsValidityOnlyBy(s, c)
<1> DEFINE a == attestations[s][c]
<1> SUFFICES ASSUME ~IsValid(s, c), IsValid(s, c)', ~Superseded(s, c)
             PROVE  /\ a = attestations'[s][c]
                    /\ ~a.revoked
                    /\ a.issuer \in issuers' \ issuers
                    /\ Admin!OwnerCalls
    BY DEF GainsValidityOnlyBy
<1>1. a \in Attestation /\ now \in Nat
    BY DEF RegistryTypeOK
<1>2. ~RevokedNow(s, c)
    BY <1>1 DEF RevokedNow, IsValid, Attestation
<1>3. Kept(s, c) /\ (now' >= now \/ UNCHANGED <<now, issuers>>)
    BY <1>2, StepOnAttestation
<1>4. a = attestations'[s][c] /\ ~a.revoked /\ a.issuer \in issuers'
    BY <1>3 DEF Kept, IsValid
<1>5. now' \in Nat
    BY RegistryNextTypeOK DEF RegistryTypeOK
<1>6. a.expiresAt = 0 \/ a.expiresAt >= now
    BY <1>1, <1>3, <1>5 DEF Kept, IsValid, Attestation
<1>7. a.issuer \notin issuers
    BY <1>4, <1>6, <1>3 DEF IsValid, Kept, Exists
<1>8. QED
    BY <1>4, <1>7, StepOnIssuers

(* One step makes an attestation invalid only by time, by its issuer's     *)
(* removal, by a revocation or by a replacement.                           *)
LEMMA StepLosesValidityOnlyBy ==
    ASSUME RegistryTypeOK, [RegistryStep]_regVars,
           NEW s \in Subjects, NEW c \in Capability
    PROVE  LosesValidityOnlyBy(s, c)
<1> DEFINE a == attestations[s][c]
<1> SUFFICES ASSUME IsValid(s, c), ~IsValid(s, c)', ~Superseded(s, c)
             PROVE  \/ /\ a = attestations'[s][c]
                       /\ \/ a.expiresAt # 0 /\ now' > a.expiresAt
                          \/ a.issuer \in issuers \ issuers' /\ Admin!OwnerCalls
                    \/ \E sender \in issuers :
                          /\ attestations'[s][c] = [a EXCEPT !.revoked = TRUE, !.revokedBy = sender]
                          /\ sender \in {a.issuer, regOwner}
                          /\ UNCHANGED issuers
    BY DEF LosesValidityOnlyBy
<1>1. a \in Attestation /\ now' \in Nat
    BY RegistryNextTypeOK DEF RegistryTypeOK
<1>2. CASE Kept(s, c)
    <2>1. a = attestations'[s][c] /\ a.issuer \in issuers
        BY <1>2 DEF Kept, IsValid
    <2>2. \/ a.expiresAt # 0 /\ now' > a.expiresAt
          \/ a.issuer \in issuers \ issuers'
        BY <1>1, <2>1 DEF IsValid, Attestation
    <2>3. QED
        BY <2>1, <2>2, StepOnIssuers
<1>3. CASE RevokedNow(s, c) /\ UNCHANGED <<now, issuers>>
    BY <1>3 DEF RevokedNow, IsValid
<1>4. QED
    BY <1>2, <1>3, StepOnAttestation

(* The registry grants validity in no other way than by a recording or by  *)
(* the return of an issuer.                                                *)
THEOREM ValidityGainHolds == RegistrySpec => ValidityGainIsAccounted
<1>1. RegistryTypeOK /\ [RegistryNext \/ Mine]_regVars =>
          [\A s \in Subjects, c \in Capability : GainsValidityOnlyBy(s, c)]_regVars
    BY StepGainsValidityOnlyBy DEF RegistryStep
<1>2. QED
    BY <1>1, RegistryTypeCorrect, PTL DEF RegistrySpec, ValidityGainIsAccounted

(* The registry withdraws validity in no other way than by time, by the    *)
(* issuer's removal, by a revocation or by a replacement.                  *)
THEOREM ValidityLossHolds == RegistrySpec => ValidityLossIsAccounted
<1>1. RegistryTypeOK /\ [RegistryNext \/ Mine]_regVars =>
          [\A s \in Subjects, c \in Capability : LosesValidityOnlyBy(s, c)]_regVars
    BY StepLosesValidityOnlyBy DEF RegistryStep
<1>2. QED
    BY <1>1, RegistryTypeCorrect, PTL DEF RegistrySpec, ValidityLossIsAccounted
==============================================================================
