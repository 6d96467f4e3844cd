-------------------------- MODULE KycIssuance_proofs --------------------------
(***************************************************************************)
(* Theorems about KYC issuance, for any requests, wallets, reports, tasks  *)
(* and levels, on any history of the registry.                             *)
(***************************************************************************)
EXTENDS KycIssuance, AttestationRegistry_proofs

(* What a request that gets as far as a broadcast rests on.                *)
Sourced(r) ==
    \/ OfDemo(r) /\ r \notin logged /\ job[r].level = DemoLevel
    \/ /\ ~OfDemo(r) /\ r \in logged
       /\ job[r].report \in ConfirmedReport
       /\ job[r].task \in PassedTask
       /\ job[r].level = TaskLevel[job[r].task]

Begun(r) ==
    /\ job[r] \in Job
    /\ job[r].checkedAt <= now

(* The log is written before the broadcast, and by requests for a report.  *)
RequestOK(r) ==
    /\ stage[r] = "idle" => r \notin logged /\ tx[r] = "none"
    /\ stage[r] \in InProgress \/ r \in logged \/ tx[r] # "none" => Begun(r)
    /\ stage[r] \in {"asked", "reported"} => ~OfDemo(r) /\ r \notin logged
    /\ stage[r] = "reported" => job[r].report \in ConfirmedReport
    /\ stage[r] = "wanted" => OfDemo(r) /\ r \notin logged /\ job[r].level = DemoLevel
    /\ stage[r] = "ready" \/ tx[r] # "none" => Sourced(r)
    /\ stage[r] = "waiting" => tx[r] # "none"
    /\ r \in logged => ~OfDemo(r)
    /\ tx[r] # "none" =>
          /\ job[r].level \in 0..MaxUint8
          /\ \/ stage[r] \in {"waiting", "anchored", "unanchored", "lost"}
             \/ stage[r] = "failed" /\ OfDemo(r)

IssuanceInv == IssuanceTypeOK /\ \A r \in Request : RequestOK(r)

------------------------------------------------------------------------------
(* The steps, grouped by what they disturb.                                *)

RequestStep(r) ==
    \/ Handle(r)
    \/ \E s \in Wallets : AskDemo(r, s)
    \/ \E body \in Bodies : PostIssueKyc(r, body)

(* A request's own step leaves the chain and the other requests alone, and *)
(* its own job, once it is logged or broadcast.                            *)
LEMMA RequestStepFrame ==
    ASSUME IssuanceInv, NEW r \in Request, RequestStep(r)
    PROVE  /\ UNCHANGED <<regVars, registeredAt>>
           /\ \A q \in Request \ {r} :
                 /\ UNCHANGED <<stage[q], job[q], tx[q]>>
                 /\ q \in logged' <=> q \in logged
           /\ logged \subseteq logged'
           /\ \A q \in Request : q \in logged \/ tx[q] # "none" => UNCHANGED job[q]
           /\ \A q \in Request : tx[q] # "none" => UNCHANGED tx[q]
<1> USE DEF IssuanceInv, IssuanceTypeOK, RequestOK, Advance, InProgress
<1>1. CASE \E s \in Wallets : AskDemo(r, s)
    BY <1>1 DEF AskDemo
<1>2. CASE \E body \in Bodies : PostIssueKyc(r, body)
    BY <1>2 DEF PostIssueKyc
<1>3. CASE ConfirmReport(r) \/ MarkAnchored(r) \/ ReportIssued(r) \/ WaitThrows(r) \/ CallThrows(r)
    BY <1>3 DEF ConfirmReport, MarkAnchored, ReportIssued, WaitThrows, CallThrows
<1>4. CASE SignAndLog(r)
    BY <1>4 DEF SignAndLog, LogIssuedAttestation
<1>5. CASE CheckAttested(r)
    BY <1>5 DEF CheckAttested
<1>6. CASE Submit(r) \/ SubmitThrows(r)
    BY <1>6 DEF Submit, SubmitThrows
<1>7. QED
    BY <1>1, <1>2, <1>3, <1>4, <1>5, <1>6 DEF RequestStep, Handle

(* A request that is not at work keeps its own, and time only passes.      *)
LEMMA OthersKeepTheirs ==
    ASSUME IssuanceInv, NEW q \in Request, UNCHANGED <<stage[q], job[q], tx[q]>>,
           q \in logged' <=> q \in logged, now' \in Nat, now' >= now
    PROVE  RequestOK(q)'
<1>1. now \in Nat
    BY DEF IssuanceInv, IssuanceTypeOK, RegistryTypeOK
<1>2. job[q] \in Job => job[q].checkedAt \in Nat
    BY DEF Job
<1>3. Begun(q) => Begun(q)'
    BY <1>1, <1>2 DEF Begun
<1>4. Sourced(q) => Sourced(q)'
    BY DEF Sourced, OfDemo
<1>5. QED
    BY <1>3, <1>4 DEF IssuanceInv, RequestOK, OfDemo

(* What signing a report's attestation and checking a demo's write.        *)
LEMMA SignedJob ==
    ASSUME IssuanceInv, NEW r \in Request, SignAndLog(r)
    PROVE  job'[r] \in Job /\ job'[r].level = TaskLevel[job[r].task]
<1>1. job[r] \in Job /\ now \in Nat /\ job[r].task \in Task
    BY IssuanceAssumption DEF IssuanceInv, IssuanceTypeOK, RegistryTypeOK, RequestOK, Begun,
                              InProgress, SignAndLog, Advance, TaskPasses
<1>2. job' = [job EXCEPT ![r].level = TaskLevel[job[r].task], ![r].expiry = now + ReportValidity]
    BY DEF SignAndLog, LogIssuedAttestation
<1>3. job \in [Request -> Job \cup {NoJob}]
    BY DEF IssuanceInv, IssuanceTypeOK
<1>4. job'[r] = [job[r] EXCEPT !.level = TaskLevel[job[r].task], !.expiry = now + ReportValidity]
    BY <1>2, <1>3
<1>5. TaskLevel[job[r].task] \in Nat /\ now + ReportValidity \in Nat
    BY <1>1, IssuanceAssumption
<1>6. QED
    BY <1>1, <1>4, <1>5 DEF Job

LEMMA CheckedJob ==
    ASSUME IssuanceInv, NEW r \in Request, CheckAttested(r)
    PROVE  job'[r] \in Job /\ job'[r].checkedAt = now
<1>1. job[r] \in Job /\ now \in Nat
    BY DEF IssuanceInv, IssuanceTypeOK, RegistryTypeOK, RequestOK, Begun, InProgress, CheckAttested
<1>2. job' = [job EXCEPT ![r].expiry = now + DemoValidity, ![r].checkedAt = now]
    BY DEF CheckAttested
<1>3. job \in [Request -> Job \cup {NoJob}]
    BY DEF IssuanceInv, IssuanceTypeOK
<1>4. job'[r] = [job[r] EXCEPT !.expiry = now + DemoValidity, !.checkedAt = now]
    BY <1>2, <1>3
<1>5. now + DemoValidity \in Nat
    BY <1>1, IssuanceAssumption
<1>6. QED
    BY <1>1, <1>4, <1>5 DEF Job

(* What each step of a request leaves that request in.                     *)
LEMMA OwnStepKeepsRequestOK ==
    ASSUME IssuanceInv, NEW r \in Request, RequestStep(r)
    PROVE  RequestOK(r)'
<1> USE IssuanceAssumption DEF IssuanceInv, IssuanceTypeOK, RequestOK, Advance, InProgress
<1>1. now \in Nat /\ UNCHANGED now
    BY RequestStepFrame DEF RegistryTypeOK, regVars
<1>2. CASE \E s \in Wallets : AskDemo(r, s)
  <2>1. PICK s \in Wallets : AskDemo(r, s)
      BY <1>2
  <2>2. /\ job'[r] = [subject |-> s, report |-> DemoReport, task |-> DemoReport,
                      level |-> DemoLevel, expiry |-> 0, checkedAt |-> 0]
        /\ stage[r] = "idle" /\ stage'[r] = "wanted" /\ UNCHANGED <<logged, tx>>
      BY <2>1 DEF AskDemo
  <2>3. job'[r] \in Job
      BY <2>2 DEF Job, MaxUint8
  <2>4. QED
      BY <1>1, <2>2, <2>3 DEF OfDemo, Begun
<1>3. CASE \E body \in Bodies : PostIssueKyc(r, body)
  <2>1. PICK body \in Bodies : PostIssueKyc(r, body)
      BY <1>3
  <2>2. stage[r] = "idle" /\ UNCHANGED <<logged, tx>>
      BY <2>1 DEF PostIssueKyc
  <2>3. CASE stage'[r] = "failed"
      BY <2>2, <2>3
  <2>4. CASE stage'[r] # "failed"
    <3>1. /\ stage'[r] = "asked"
          /\ job'[r] = [subject |-> body.subject, report |-> body.report, task |-> body.task,
                        level |-> 0, expiry |-> 0, checkedAt |-> 0]
        BY <2>1, <2>4 DEF PostIssueKyc
    <3>2. job'[r] \in Job /\ job'[r].report # DemoReport
        BY <3>1 DEF Job, Body
    <3>3. QED
        BY <1>1, <2>2, <3>1, <3>2 DEF OfDemo, Begun
  <2>5. QED
      BY <2>3, <2>4
<1>4. CASE ConfirmReport(r)
    BY <1>1, <1>4 DEF ConfirmReport, OfDemo, Begun
<1>5. CASE MarkAnchored(r) \/ ReportIssued(r)
    BY <1>1, <1>5 DEF MarkAnchored, ReportIssued, OfDemo, Begun, Sourced, InBlock
<1>6. CASE WaitThrows(r)
    BY <1>1, <1>6 DEF WaitThrows, NotAnchored, OfDemo, Begun, Sourced
<1>7. CASE CallThrows(r)
    BY <1>1, <1>7 DEF CallThrows, OfDemo, Begun, Sourced
<1>8. CASE SignAndLog(r)
  <2>1. /\ stage[r] = "reported" /\ stage'[r] = "ready" /\ UNCHANGED tx
        /\ r \in logged' /\ job[r].task \in PassedTask
      BY <1>8 DEF SignAndLog, LogIssuedAttestation, TaskPasses
  <2>2. job[r] \in Job /\ job[r].checkedAt <= now
      BY <2>1 DEF Begun
  <2>3. job'[r] = [job[r] EXCEPT !.level = TaskLevel[job[r].task], !.expiry = now + ReportValidity]
      BY <1>8 DEF SignAndLog, LogIssuedAttestation
  <2>4. /\ job'[r].report = job[r].report /\ job'[r].task = job[r].task
        /\ job'[r].checkedAt = job[r].checkedAt
      BY <2>3
  <2>5. job'[r] \in Job /\ job'[r].level = TaskLevel[job[r].task]
      BY <1>8, SignedJob
  <2>6. tx[r] = "none"
      BY <2>1
  <2>7. QED
      BY <1>1, <2>1, <2>2, <2>4, <2>5, <2>6 DEF OfDemo, Begun, Sourced
<1>9. CASE CheckAttested(r)
  <2>1. stage[r] = "wanted" /\ stage'[r] \in {"ready", "already"} /\ UNCHANGED <<tx, logged>>
      BY <1>9 DEF CheckAttested
  <2>2. job[r] \in Job /\ job'[r] = [job[r] EXCEPT !.expiry = now + DemoValidity, !.checkedAt = now]
      BY <1>9, <2>1 DEF CheckAttested, Begun
  <2>3. job'[r].report = job[r].report /\ job'[r].level = job[r].level
      BY <2>2
  <2>4. job'[r] \in Job /\ job'[r].checkedAt = now
      BY <1>9, CheckedJob
  <2>5. QED
      BY <1>1, <2>1, <2>3, <2>4 DEF OfDemo, Begun, Sourced
<1>10. CASE Submit(r)
    BY <1>1, <1>10 DEF Submit, Encodable, OfDemo, Begun, Sourced
<1>11. CASE SubmitThrows(r)
  <2>1. /\ stage[r] = "ready" /\ stage'[r] = (IF OfDemo(r) THEN "failed" ELSE "unanchored")
        /\ UNCHANGED <<job, logged>>
      BY <1>11 DEF SubmitThrows, NotAnchored
  <2>2. UNCHANGED tx \/ (job[r].level \in 0..MaxUint8 /\ tx'[r] = "pending")
      BY <1>11 DEF SubmitThrows, Encodable
  <2>3. Sourced(r)' /\ Begun(r)' /\ (OfDemo(r)' <=> OfDemo(r))
      BY <1>1, <2>1 DEF Sourced, OfDemo, Begun
  <2>4. QED
      BY <2>1, <2>2, <2>3 DEF OfDemo, Sourced
<1>12. QED
    BY <1>2, <1>3, <1>4, <1>5, <1>6, <1>7, <1>8, <1>9, <1>10, <1>11 DEF RequestStep, Handle

(* Everything else: blocks, other issuers and the registry's owner, and a  *)
(* crash, which only cuts requests off.                                    *)
ChainStep ==
    \/ \E r \in Request : Mined(r) \/ Reverted(r)
    \/ Crash
    \/ OthersOnChain
    \/ UNCHANGED vars

LEMMA StepKinds ==
    [IssuanceNext]_vars => (\E r \in Request : RequestStep(r)) \/ ChainStep
    BY DEF IssuanceNext, RequestStep, ChainStep

LEMMA ChainStepFrame ==
    ASSUME IssuanceInv, ChainStep
    PROVE  /\ UNCHANGED <<job, logged, marked>>
           /\ \A q \in Request : /\ UNCHANGED tx[q] \/ (tx[q] = "pending" /\ InBlock(q)')
                                 /\ UNCHANGED stage[q]
                                       \/ (stage[q] \in InProgress /\ stage'[q] = "lost")
<1> USE DEF IssuanceInv, IssuanceTypeOK
<1>1. CASE \E r \in Request : Mined(r) \/ Reverted(r)
    BY <1>1 DEF Mined, Reverted, InBlock
<1>2. CASE Crash
    BY <1>2 DEF Crash
<1>3. CASE OthersOnChain \/ UNCHANGED vars
    BY <1>3 DEF OthersOnChain, issuanceVars, requestVars, vars
<1>4. QED
    BY <1>1, <1>2, <1>3 DEF ChainStep

(* The registry takes its own steps only, and time passes.                 *)
LEMMA StepOnRegistry ==
    ASSUME IssuanceInv, [IssuanceNext]_vars
    PROVE  /\ [RegistryStep]_regVars
           /\ RegistryTypeOK'
           /\ now \in Nat /\ now' \in Nat /\ now' >= now
<1>1. ASSUME NEW r \in Request, RequestStep(r) PROVE UNCHANGED regVars
    BY <1>1, RequestStepFrame
<1>2. ASSUME NEW r \in Request, Mined(r) PROVE RecordAny
  <2>1. job[r] \in Job
      BY <1>2 DEF Mined, IssuanceInv, RequestOK, Begun
  <2>2. job[r].subject \in Subjects /\ job[r].level \in Nat /\ job[r].expiry \in Nat
      BY <2>1 DEF Job
  <2>3. RecordAttestation(Backend, job[r].subject, Kyc, job[r].level, job[r].expiry)
      BY <1>2 DEF Mined
  <2>4. Backend \in issuers
      BY <2>3 DEF RecordAttestation
  <2>5. QED
      BY <2>2, <2>3, <2>4, IssuanceAssumption DEF RecordAny
<1>3. (\E r \in Request : Reverted(r)) \/ Crash \/ UNCHANGED vars => UNCHANGED regVars
    BY DEF Reverted, Crash, vars
<1>4. OthersOnChain => RegistryStep
    BY IssuanceAssumption DEF OthersOnChain, RegistryStep, RegistryNext
<1>5. [RegistryStep]_regVars
    BY <1>1, <1>2, <1>3, <1>4, StepKinds DEF ChainStep, RegistryStep
<1>6. now \in Nat /\ RegistryTypeOK'
    BY <1>5, RegistryNextTypeOK DEF IssuanceInv, IssuanceTypeOK, RegistryTypeOK
<1>7. now' = now \/ now' = now + 1
  <2>1. CASE Mine
      BY <2>1 DEF Mine
  <2>2. CASE ~Mine
      BY <1>5, <2>2 DEF RegistryStep, RecordAny, RegistryNext, RegisterIssuer, RevokeIssuer,
                        RecordAttestation, RevokeAttestation, PauseRegistry, UnpauseRegistry,
                        RegistryOwnership, regVars
  <2>3. QED
      BY <2>1, <2>2
<1>8. QED
    BY <1>5, <1>6, <1>7

LEMMA RequestsStayOK ==
    ASSUME IssuanceInv, [IssuanceNext]_vars, NEW q \in Request
    PROVE  RequestOK(q)'
<1>1. now \in Nat /\ now' \in Nat /\ now' >= now
    BY StepOnRegistry
<1>2. ASSUME NEW r \in Request, RequestStep(r) PROVE RequestOK(q)'
  <2>1. CASE q = r
      BY <1>2, <2>1, OwnStepKeepsRequestOK
  <2>2. CASE q # r
    <3>1. UNCHANGED <<stage[q], job[q], tx[q]>> /\ (q \in logged' <=> q \in logged)
        BY <1>2, <2>2, RequestStepFrame
    <3>2. QED
        BY <1>1, <3>1, OthersKeepTheirs
  <2>3. QED
      BY <2>1, <2>2
<1>3. ASSUME ChainStep PROVE RequestOK(q)'
  <2>1. /\ UNCHANGED <<job, logged>>
        /\ UNCHANGED tx[q] \/ (tx[q] = "pending" /\ InBlock(q)')
        /\ UNCHANGED stage[q] \/ (stage[q] \in InProgress /\ stage'[q] = "lost")
      BY <1>3, ChainStepFrame
  <2>2. Begun(q) => Begun(q)'
    <3>1. job[q] \in Job => job[q].checkedAt \in Nat
        BY DEF Job
    <3>2. QED
        BY <1>1, <2>1, <3>1 DEF Begun
  <2>3. /\ Sourced(q) => Sourced(q)'
        /\ OfDemo(q)' <=> OfDemo(q)
      BY <2>1 DEF Sourced, OfDemo
  <2>4. (tx'[q] # "none" <=> tx[q] # "none") /\ "lost" \notin InProgress
      BY <2>1 DEF InBlock, InProgress
  <2>5. QED
      BY <2>1, <2>2, <2>3, <2>4 DEF IssuanceInv, RequestOK, InProgress
<1>4. QED
    BY <1>2, <1>3, StepKinds

(* A level on the chain is one that was encoded.                           *)
LEMMA LevelsStayEncodable ==
    ASSUME IssuanceInv, [IssuanceNext]_vars, NEW s \in Subjects, NEW c \in Capability
    PROVE  attestations'[s][c].kycLevel <= MaxUint8
<1> USE DEF IssuanceInv, IssuanceTypeOK, RegistryTypeOK
<1>1. attestations[s][c].kycLevel <= MaxUint8
    OBVIOUS
<1>2. ASSUME NEW caller, NEW t \in Subjects, NEW d \in Capability, NEW level \in 0..MaxUint8,
             NEW expiry, RecordAttestation(caller, t, d, level, expiry)
      PROVE  attestations'[s][c].kycLevel <= MaxUint8
  <2> DEFINE new == [subject |-> t, issuer |-> caller, kycLevel |-> level,
                     issuedAt |-> now, expiresAt |-> expiry, revoked |-> FALSE,
                     revokedBy |-> ZeroAddress]
  <2>1. attestations'[s][c] = IF s = t /\ c = d THEN new ELSE attestations[s][c]
      BY <1>2, NestedUpdate DEF RecordAttestation
  <2>2. new.kycLevel = level /\ level <= MaxUint8
      BY DEF MaxUint8
  <2>3. QED
      BY <1>1, <2>1, <2>2
<1>3. ASSUME NEW caller, NEW t \in Subjects, NEW d \in Capability, RevokeAttestation(caller, t, d)
      PROVE  attestations'[s][c].kycLevel <= MaxUint8
  <2> DEFINE new == [attestations[t][d] EXCEPT !.revoked = TRUE, !.revokedBy = caller]
  <2>1. attestations' = [attestations EXCEPT ![t][d] = new]
      BY <1>3 DEF RevokeAttestation
  <2>2. attestations'[s][c] = IF s = t /\ c = d THEN new ELSE attestations[s][c]
      BY <2>1, NestedUpdate
  <2>3. new.kycLevel = attestations[t][d].kycLevel
      OBVIOUS
  <2>4. QED
      BY <1>1, <2>2, <2>3
<1>4. CASE UNCHANGED attestations
    BY <1>1, <1>4
<1>5. ASSUME NEW r \in Request, Mined(r) PROVE attestations'[s][c].kycLevel <= MaxUint8
  <2>1. job[r] \in Job /\ job[r].level \in 0..MaxUint8
      BY <1>5 DEF Mined, RequestOK, Begun
  <2>2. job[r].subject \in Subjects
      BY <2>1 DEF Job
  <2>3. QED
      BY <1>2, <1>5, <2>1, <2>2, IssuanceAssumption DEF Mined
<1>6. CASE OthersOnChain
    BY <1>2, <1>3, <1>4, <1>6, IssuanceAssumption
       DEF OthersOnChain, RegisterIssuer, RevokeIssuer, PauseRegistry, UnpauseRegistry, Mine,
           registryVars
<1>7. CASE (\E r \in Request : RequestStep(r) \/ Reverted(r)) \/ Crash \/ UNCHANGED vars
    BY <1>4, <1>7, RequestStepFrame DEF Reverted, Crash, vars, regVars
<1>8. QED
    BY <1>5, <1>6, <1>7, StepKinds DEF ChainStep

LEMMA OwnStepKeepsTypes ==
    ASSUME IssuanceInv, NEW r \in Request, RequestStep(r)
    PROVE  /\ stage' \in [Request -> {"idle"} \cup InProgress \cup Answered]
           /\ job' \in [Request -> Job \cup {NoJob}]
           /\ logged' \subseteq Request
           /\ marked' \in [Request -> Request \cup {NoRequest}]
           /\ tx' \in [Request -> {"none", "pending", "mined", "reverted"}]
<1>1. /\ stage \in [Request -> {"idle"} \cup InProgress \cup Answered]
      /\ job \in [Request -> Job \cup {NoJob}]
      /\ logged \subseteq Request
      /\ marked \in [Request -> Request \cup {NoRequest}]
      /\ tx \in [Request -> {"none", "pending", "mined", "reverted"}]
    BY DEF IssuanceInv, IssuanceTypeOK
<1> USE DEF Advance, InProgress, Answered
<1>2. CASE \E s \in Wallets : AskDemo(r, s)
  <2>1. PICK s \in Wallets : AskDemo(r, s)
      BY <1>2
  <2>2. [subject |-> s, report |-> DemoReport, task |-> DemoReport, level |-> DemoLevel,
         expiry |-> 0, checkedAt |-> 0] \in Job
      BY IssuanceAssumption DEF Job, MaxUint8
  <2>3. QED
      BY <1>1, <2>1, <2>2 DEF AskDemo
<1>3. CASE \E body \in Bodies : PostIssueKyc(r, body)
  <2>1. PICK body \in Bodies : PostIssueKyc(r, body)
      BY <1>3
  <2>2. [subject |-> body.subject, report |-> body.report, task |-> body.task,
         level |-> 0, expiry |-> 0, checkedAt |-> 0] \in Job
      BY IssuanceAssumption DEF Job, Body
  <2>3. QED
      BY <1>1, <2>1, <2>2 DEF PostIssueKyc
<1>4. CASE ConfirmReport(r) \/ ReportIssued(r) \/ WaitThrows(r) \/ CallThrows(r)
    BY <1>1, <1>4 DEF ConfirmReport, ReportIssued, WaitThrows, CallThrows, NotAnchored
<1>5. CASE MarkAnchored(r)
    BY <1>1, <1>5 DEF MarkAnchored
<1>6. CASE SignAndLog(r)
  <2>1. job' = [job EXCEPT ![r] = job'[r]]
      BY <1>1, <1>6 DEF SignAndLog, LogIssuedAttestation
  <2>2. job'[r] \in Job
      BY <1>6, SignedJob
  <2>3. job' \in [Request -> Job \cup {NoJob}]
      BY <1>1, <2>1, <2>2
  <2>4. QED
      BY <1>1, <1>6, <2>3 DEF SignAndLog, LogIssuedAttestation
<1>7. CASE CheckAttested(r)
  <2>1. job' = [job EXCEPT ![r] = job'[r]]
      BY <1>1, <1>7 DEF CheckAttested
  <2>2. job'[r] \in Job
      BY <1>7, CheckedJob
  <2>3. job' \in [Request -> Job \cup {NoJob}]
      BY <1>1, <2>1, <2>2
  <2>4. QED
      BY <1>1, <1>7, <2>3 DEF CheckAttested
<1>8. CASE Submit(r) \/ SubmitThrows(r)
    BY <1>1, <1>8 DEF Submit, SubmitThrows, NotAnchored
<1>9. QED
    BY <1>2, <1>3, <1>4, <1>5, <1>6, <1>7, <1>8 DEF RequestStep, Handle

LEMMA ChainStepKeepsTypes ==
    ASSUME IssuanceInv, ChainStep
    PROVE  /\ stage' \in [Request -> {"idle"} \cup InProgress \cup Answered]
           /\ tx' \in [Request -> {"none", "pending", "mined", "reverted"}]
           /\ registeredAt' \in [Issuers -> Nat]
<1>1. /\ stage \in [Request -> {"idle"} \cup InProgress \cup Answered]
      /\ tx \in [Request -> {"none", "pending", "mined", "reverted"}]
      /\ registeredAt \in [Issuers -> Nat] /\ now \in Nat
    BY DEF IssuanceInv, IssuanceTypeOK, RegistryTypeOK
<1>2. CASE \E r \in Request : Mined(r) \/ Reverted(r)
    BY <1>1, <1>2 DEF Mined, Reverted
<1>3. CASE Crash
    BY <1>1, <1>3 DEF Crash, InProgress, Answered
<1>4. CASE OthersOnChain \/ UNCHANGED vars
    BY <1>1, <1>4 DEF OthersOnChain, issuanceVars, requestVars, vars
<1>5. QED
    BY <1>2, <1>3, <1>4 DEF ChainStep

LEMMA IssuanceInvInductive == IssuanceInv /\ [IssuanceNext]_vars => IssuanceInv'
<1> SUFFICES ASSUME IssuanceInv, [IssuanceNext]_vars PROVE IssuanceInv'
    OBVIOUS
<1>1. \A r \in Request : RequestOK(r)'
    BY RequestsStayOK
<1>2. /\ RegistryTypeOK'
      /\ \A s \in Subjects, c \in Capability : attestations'[s][c].kycLevel <= MaxUint8
    BY StepOnRegistry, LevelsStayEncodable
<1>3. ASSUME NEW r \in Request, RequestStep(r) PROVE IssuanceTypeOK'
  <2>1. UNCHANGED registeredAt
      BY <1>3, RequestStepFrame
  <2>2. QED
      BY <1>2, <1>3, <2>1, OwnStepKeepsTypes DEF IssuanceInv, IssuanceTypeOK
<1>4. ASSUME ChainStep PROVE IssuanceTypeOK'
    BY <1>2, <1>4, ChainStepFrame, ChainStepKeepsTypes DEF IssuanceInv, IssuanceTypeOK
<1>5. QED
    BY <1>1, <1>3, <1>4, StepKinds DEF IssuanceInv

LEMMA IssuanceInitInv == IssuanceInit => IssuanceInv
<1> SUFFICES ASSUME IssuanceInit PROVE IssuanceInv
    OBVIOUS
<1>1. RegistryTypeOK
    BY RegistryInitTypeOK DEF IssuanceInit
<1>2. \A s \in Subjects, c \in Capability : attestations[s][c].kycLevel <= MaxUint8
    BY DEF IssuanceInit, RegistryInit, EmptyAttestation, MaxUint8
<1>3. IssuanceTypeOK
    BY <1>1, <1>2 DEF IssuanceInit, IssuanceTypeOK
<1>4. QED
    BY <1>3 DEF IssuanceInit, IssuanceInv, RequestOK, InProgress

LEMMA IssuanceInvHolds == IssuanceSpec => []IssuanceInv
    BY IssuanceInitInv, IssuanceInvInductive, PTL DEF IssuanceSpec

(* Type correctness: no level on the chain is more than eight bits wide.   *)
THEOREM IssuanceTypeCorrect == IssuanceSpec => []IssuanceTypeOK
<1>1. IssuanceInv => IssuanceTypeOK
    BY DEF IssuanceInv
<1>2. QED
    BY <1>1, IssuanceInvHolds, PTL

------------------------------------------------------------------------------
(* Where an attestation comes from.                                        *)

(* What a request that is attested has on the chain.                       *)
Recorded(r, s) ==
    /\ Mined(r)
    /\ job[r].subject = s
    /\ attestations'[s][Kyc].expiresAt = job[r].expiry
    /\ attestations'[s][Kyc].kycLevel = job[r].level

(* Only a request's own transaction makes the backend a subject's issuer.  *)
LEMMA StepOnBackendsAttestation ==
    ASSUME IssuanceInv, [IssuanceNext]_vars, NEW s \in Subjects,
           attestations'[s][Kyc].issuer = Backend
    PROVE  \/ \E r \in Request : Recorded(r, s)
           \/ /\ attestations[s][Kyc].issuer = Backend
              /\ attestations'[s][Kyc].expiresAt = attestations[s][Kyc].expiresAt
              /\ attestations'[s][Kyc].kycLevel = attestations[s][Kyc].kycLevel
<1> USE IssuanceAssumption DEF IssuanceInv, IssuanceTypeOK, RegistryTypeOK
<1> DEFINE Same == /\ attestations[s][Kyc].issuer = Backend
                   /\ attestations'[s][Kyc].expiresAt = attestations[s][Kyc].expiresAt
                   /\ attestations'[s][Kyc].kycLevel = attestations[s][Kyc].kycLevel
<1>1. CASE UNCHANGED attestations
    BY <1>1
<1>2. ASSUME NEW caller, NEW t \in Subjects, NEW d \in Capability, NEW level, NEW expiry,
             RecordAttestation(caller, t, d, level, expiry)
      PROVE  \/ Same
             \/ /\ s = t /\ caller = Backend
                /\ attestations'[s][Kyc].expiresAt = expiry
                /\ attestations'[s][Kyc].kycLevel = level
  <2> DEFINE new == [subject |-> t, issuer |-> caller, kycLevel |-> level,
                     issuedAt |-> now, expiresAt |-> expiry, revoked |-> FALSE,
                     revokedBy |-> ZeroAddress]
  <2>1. attestations'[s][Kyc] = IF s = t /\ Kyc = d THEN new ELSE attestations[s][Kyc]
      BY <1>2, NestedUpdate DEF RecordAttestation
  <2>2. new.issuer = caller /\ new.expiresAt = expiry /\ new.kycLevel = level
      OBVIOUS
  <2> HIDE DEF new
  <2>3. QED
      BY <2>1, <2>2
<1>3. ASSUME NEW caller, NEW t \in Subjects, NEW d \in Capability, RevokeAttestation(caller, t, d)
      PROVE  Same
  <2> DEFINE new == [attestations[t][d] EXCEPT !.revoked = TRUE, !.revokedBy = caller]
  <2>1. attestations' = [attestations EXCEPT ![t][d] = new]
      BY <1>3 DEF RevokeAttestation
  <2>2. attestations'[s][Kyc] = IF s = t /\ Kyc = d THEN new ELSE attestations[s][Kyc]
      BY <2>1, NestedUpdate
  <2>3. /\ new.issuer = attestations[t][d].issuer
        /\ new.expiresAt = attestations[t][d].expiresAt
        /\ new.kycLevel = attestations[t][d].kycLevel
      OBVIOUS
  <2> HIDE DEF new
  <2>4. QED
      BY <2>2, <2>3
<1>4. ASSUME NEW r \in Request, Mined(r) PROVE Same \/ Recorded(r, s)
  <2>1. job[r] \in Job
      BY <1>4 DEF Mined, RequestOK, Begun
  <2>2. job[r].subject \in Subjects
      BY <2>1 DEF Job
  <2>3. QED
      BY <1>2, <1>4, <2>2 DEF Mined, Recorded
<1>5. OthersOnChain => Same
  <2>1. ASSUME NEW caller \in issuers \ {Backend}, NEW t \in Wallets, NEW d \in Capability,
               NEW level \in Levels, NEW expiry \in Expiries,
               RecordAttestation(caller, t, d, level, expiry)
        PROVE  Same
      BY <1>2, <2>1
  <2>2. QED
      BY <1>1, <1>3, <2>1
         DEF OthersOnChain, RegisterIssuer, RevokeIssuer, PauseRegistry, UnpauseRegistry, Mine,
             registryVars
<1>6. (\E r \in Request : RequestStep(r) \/ Reverted(r)) \/ Crash \/ UNCHANGED vars =>
          UNCHANGED attestations
    BY RequestStepFrame DEF Reverted, Crash, vars, regVars
<1>7. QED
    BY <1>1, <1>4, <1>5, <1>6, StepKinds DEF ChainStep

Accounts(r, s) ==
    /\ tx[r] = "mined"
    /\ job[r].subject = s
    /\ job[r].expiry = attestations[s][Kyc].expiresAt
    /\ job[r].level = attestations[s][Kyc].kycLevel

(* The backend attests what it was asked to and what it logged, only.      *)
THEOREM AttestationsAreTraced == IssuanceSpec => []AttestationsTraced
<1> DEFINE Traced == \A s \in Subjects : attestations[s][Kyc].issuer = Backend =>
                         \E r \in Request : Accounts(r, s)
<1>1. IssuanceInit => Traced
    BY IssuanceAssumption, RegistryAssumption
       DEF IssuanceInit, RegistryInit, EmptyAttestation
<1>2. ASSUME IssuanceInv, Traced, [IssuanceNext]_vars PROVE Traced'
  <2> SUFFICES ASSUME NEW s \in Subjects, attestations'[s][Kyc].issuer = Backend
               PROVE  \E r \in Request : Accounts(r, s)'
      OBVIOUS
  <2>1. CASE \E r \in Request : Recorded(r, s)
    <3>1. PICK r \in Request : Recorded(r, s)
        BY <2>1
    <3>2. tx'[r] = "mined" /\ UNCHANGED job
        BY <1>2, <3>1 DEF Recorded, Mined, IssuanceInv, IssuanceTypeOK
    <3>3. QED
        BY <3>1, <3>2 DEF Recorded, Accounts
  <2>2. CASE /\ attestations[s][Kyc].issuer = Backend
             /\ attestations'[s][Kyc].expiresAt = attestations[s][Kyc].expiresAt
             /\ attestations'[s][Kyc].kycLevel = attestations[s][Kyc].kycLevel
    <3>1. PICK r \in Request : Accounts(r, s)
        BY <1>2, <2>2
    <3>2. tx'[r] = "mined" /\ UNCHANGED job[r]
      <4>1. tx[r] = "mined"
          BY <3>1 DEF Accounts
      <4>2. ASSUME NEW q \in Request, RequestStep(q) PROVE tx'[r] = "mined" /\ UNCHANGED job[r]
          BY <1>2, <4>1, <4>2, RequestStepFrame
      <4>3. ChainStep => tx'[r] = "mined" /\ UNCHANGED job[r]
          BY <1>2, <4>1, ChainStepFrame
      <4>4. QED
          BY <1>2, <4>2, <4>3, StepKinds
    <3>3. QED
        BY <2>2, <3>1, <3>2 DEF Accounts
  <2>3. QED
      BY <1>2, <2>1, <2>2, StepOnBackendsAttestation
<1>3. IssuanceInv /\ Traced => AttestationsTraced
  <2> SUFFICES ASSUME IssuanceInv, Traced, NEW s \in Subjects, attestations[s][Kyc].issuer = Backend
               PROVE  \E r \in Request :
                         /\ Accounts(r, s)
                         /\ \/ OfDemo(r) /\ job[r].level = DemoLevel
                            \/ /\ r \in logged
                               /\ job[r].report \in ConfirmedReport
                               /\ job[r].task \in PassedTask
                               /\ job[r].level = TaskLevel[job[r].task]
      BY DEF AttestationsTraced, Accounts
  <2>1. PICK r \in Request : Accounts(r, s)
      OBVIOUS
  <2>2. Sourced(r)
      BY <2>1 DEF Accounts, IssuanceInv, RequestOK
  <2>3. QED
      BY <2>1, <2>2 DEF Sourced
<1>4. QED
    BY <1>1, <1>2, <1>3, IssuanceInvHolds, PTL DEF IssuanceSpec

------------------------------------------------------------------------------
(* What the log may be trusted for.                                        *)

MarkTrue(r) ==
    marked[r] # NoRequest => /\ r \in logged
                             /\ InBlock(marked[r])
                             /\ job[marked[r]].report = job[r].report

AnchorTold(r) == stage[r] = "anchored" => marked[r] # NoRequest \/ OfDemo(r)

(* The hash goes into rows of the same report, the request's own included. *)
LEMMA MarkAnchoredKeepsLog ==
    ASSUME IssuanceInv, \A r \in Request : MarkTrue(r) /\ AnchorTold(r),
           NEW q \in Request, MarkAnchored(q), NEW r \in Request
    PROVE  MarkTrue(r)' /\ AnchorTold(r)'
<1>1. /\ UNCHANGED <<job, logged, tx>>
      /\ InBlock(q) /\ ~OfDemo(q) /\ stage[q] = "waiting"
      /\ marked'[r] = IF r \in UnmarkedRows(q) THEN q ELSE marked[r]
      /\ stage' = [stage EXCEPT ![q] = "anchored"]
    BY DEF MarkAnchored, Advance
<1>2. q \in logged
    BY <1>1 DEF IssuanceInv, RequestOK, Sourced
<1>3. q # NoRequest
    BY IssuanceAssumption
<1>4. MarkTrue(r)'
    BY <1>1 DEF MarkTrue, UnmarkedRows, InBlock
<1>5. marked'[q] # NoRequest
    BY <1>1, <1>2, <1>3 DEF UnmarkedRows, MarkAnchored
<1>6. AnchorTold(r)'
    BY <1>1, <1>3, <1>5 DEF AnchorTold, IssuanceInv, IssuanceTypeOK, OfDemo
<1>7. QED
    BY <1>4, <1>6

(* Any other step leaves the hashes, and what they are about.              *)
LEMMA OtherStepsKeepLog ==
    ASSUME IssuanceInv, \A r \in Request : MarkTrue(r) /\ AnchorTold(r),
           [IssuanceNext]_vars, ~\E q \in Request : MarkAnchored(q), NEW r \in Request
    PROVE  MarkTrue(r)' /\ AnchorTold(r)'
<1> USE DEF IssuanceInv, IssuanceTypeOK
<1>1. ASSUME NEW q \in Request, RequestStep(q)
      PROVE  /\ UNCHANGED marked
             /\ stage'[r] = "anchored" => stage[r] = "anchored" \/ OfDemo(r)'
             /\ stage[r] = "anchored" => UNCHANGED job[r]
  <2>1. UNCHANGED marked
      BY <1>1 DEF RequestStep, Handle, PostIssueKyc, ConfirmReport, SignAndLog, LogIssuedAttestation, AskDemo,
                  CheckAttested, ReportIssued, Submit, SubmitThrows, WaitThrows, CallThrows
  <2>2. CASE r # q
      BY <1>1, <2>1, <2>2, RequestStepFrame
  <2>3. CASE r = q
      BY <1>1, <2>1, <2>3
         DEF RequestStep, Handle, Advance, PostIssueKyc, ConfirmReport, SignAndLog, LogIssuedAttestation, AskDemo,
             CheckAttested, ReportIssued, Submit, SubmitThrows, WaitThrows, CallThrows,
             NotAnchored, OfDemo
  <2>4. QED
      BY <2>2, <2>3
<1>2. ASSUME ChainStep
      PROVE  /\ UNCHANGED <<marked, job>>
             /\ stage'[r] = "anchored" => stage[r] = "anchored"
    BY <1>2, ChainStepFrame
<1>3. AnchorTold(r)'
    BY <1>1, <1>2, StepKinds DEF AnchorTold, OfDemo
<1>4. ASSUME marked[r] # NoRequest PROVE MarkTrue(r)'
  <2>1. /\ marked[r] \in Request /\ UNCHANGED marked
        /\ r \in logged /\ InBlock(marked[r]) /\ job[marked[r]].report = job[r].report
      BY <1>1, <1>2, <1>4, StepKinds DEF MarkTrue
  <2>2. tx[marked[r]] \in {"mined", "reverted"}
      BY <2>1 DEF InBlock
  <2>3. ASSUME NEW q \in Request, RequestStep(q)
        PROVE  UNCHANGED <<job[r], job[marked[r]], tx[marked[r]]>> /\ r \in logged'
      BY <2>1, <2>2, <2>3, RequestStepFrame
  <2>4. ChainStep => UNCHANGED <<job[r], job[marked[r]], tx[marked[r]]>> /\ r \in logged'
      BY <2>1, <2>2, ChainStepFrame
  <2>5. QED
      BY <2>1, <2>2, <2>3, <2>4, StepKinds DEF MarkTrue, InBlock
<1>5. ASSUME marked[r] = NoRequest PROVE MarkTrue(r)'
    BY <1>1, <1>2, <1>5, StepKinds DEF MarkTrue
<1>6. QED
    BY <1>3, <1>4, <1>5

(* A hash in the log is one of the row's report, and in a block.           *)
THEOREM LogIsExplained == IssuanceSpec => []LogExplained
<1> DEFINE LogInv == \A r \in Request : MarkTrue(r) /\ AnchorTold(r)
<1>1. IssuanceInit => LogInv
    BY DEF IssuanceInit, MarkTrue, AnchorTold
<1>2. IssuanceInv /\ LogInv /\ [IssuanceNext]_vars => LogInv'
    BY MarkAnchoredKeepsLog, OtherStepsKeepLog
<1>3. IssuanceInv /\ LogInv => LogExplained
    BY DEF IssuanceInv, RequestOK, Sourced, LogExplained, MarkTrue, AnchorTold, InBlock
<1>4. QED
    BY <1>1, <1>2, <1>3, IssuanceInvHolds, PTL DEF IssuanceSpec

------------------------------------------------------------------------------
(* A demo yields to whatever was there when it was asked for.              *)

SinceCheck(s, t) ==
    IsValid(s, Kyc) =>
        LET a == attestations[s][Kyc]
        IN  a.issuedAt >= t \/ registeredAt[a.issuer] >= t

DemoFresh(r) ==
    OfDemo(r) /\ (stage[r] = "ready" \/ tx[r] # "none") =>
        SinceCheck(job[r].subject, job[r].checkedAt)

(* When an issuer comes in, or comes in again, is remembered.              *)
LEMMA RegistrationsAreDated ==
    ASSUME IssuanceInv, [IssuanceNext]_vars, NEW i
    PROVE  /\ i \in issuers' \ issuers => registeredAt'[i] = now
           /\ UNCHANGED registeredAt[i] \/ registeredAt'[i] = now
<1> USE DEF IssuanceInv, IssuanceTypeOK
<1>1. ASSUME NEW k \in Issuers, RegisterIssuer(k),
             registeredAt' = [registeredAt EXCEPT ![k] = now]
      PROVE  /\ i \in issuers' \ issuers => registeredAt'[i] = now
             /\ UNCHANGED registeredAt[i] \/ registeredAt'[i] = now
  <2>1. issuers' = issuers \cup {k}
      BY <1>1 DEF RegisterIssuer
  <2>2. CASE i = k
      BY <1>1, <2>2
  <2>3. CASE i # k
    <3>1. i \notin issuers' \ issuers
        BY <2>1, <2>3
    <3>2. CASE i \in Issuers
        BY <1>1, <2>3, <3>1, <3>2
    <3>3. CASE i \notin Issuers
        BY <1>1, <3>1, <3>3
    <3>4. QED
        BY <3>2, <3>3
  <2>4. QED
      BY <2>2, <2>3
<1>2. ASSUME UNCHANGED registeredAt, issuers' \subseteq issuers
      PROVE  /\ i \in issuers' \ issuers => registeredAt'[i] = now
             /\ UNCHANGED registeredAt[i] \/ registeredAt'[i] = now
    BY <1>2
<1>3. (\E r \in Request : RequestStep(r)) => UNCHANGED registeredAt /\ issuers' \subseteq issuers
    BY RequestStepFrame DEF regVars
<1>4. (\E r \in Request : Mined(r) \/ Reverted(r)) \/ Crash \/ UNCHANGED vars =>
          UNCHANGED registeredAt /\ issuers' \subseteq issuers
    BY DEF Mined, Reverted, Crash, RecordAttestation, vars, regVars, issuanceVars
<1>5. OthersOnChain =>
          \/ \E k \in Issuers : /\ RegisterIssuer(k)
                                /\ registeredAt' = [registeredAt EXCEPT ![k] = now]
          \/ UNCHANGED registeredAt /\ issuers' \subseteq issuers
    BY DEF OthersOnChain, RevokeIssuer, RecordAttestation, RevokeAttestation, PauseRegistry,
           UnpauseRegistry, Mine, registryVars, issuanceVars
<1>6. QED
    BY <1>1, <1>2, <1>3, <1>4, <1>5, StepKinds DEF ChainStep

LEMMA SinceCheckStays ==
    ASSUME IssuanceInv, [IssuanceNext]_vars, NEW s \in Subjects, NEW t \in Nat, t <= now,
           SinceCheck(s, t)
    PROVE  SinceCheck(s, t)'
<1> SUFFICES ASSUME IsValid(s, Kyc)'
             PROVE  \/ attestations'[s][Kyc].issuedAt >= t
                    \/ registeredAt'[attestations'[s][Kyc].issuer] >= t
    BY DEF SinceCheck
<1>1. RegistryTypeOK /\ [RegistryStep]_regVars /\ Kyc \in Capability
    BY StepOnRegistry, IssuanceAssumption DEF IssuanceInv, IssuanceTypeOK
<1>2. CASE Superseded(s, Kyc)
    BY <1>2 DEF Superseded
<1>3. CASE ~Superseded(s, Kyc) /\ ~IsValid(s, Kyc)
  <2>1. /\ attestations[s][Kyc] = attestations'[s][Kyc]
        /\ attestations[s][Kyc].issuer \in issuers' \ issuers
      BY <1>1, <1>3, StepGainsValidityOnlyBy DEF GainsValidityOnlyBy
  <2>2. QED
      BY <2>1, RegistrationsAreDated
<1>4. CASE ~Superseded(s, Kyc) /\ IsValid(s, Kyc)
  <2>1. ~RevokedNow(s, Kyc)
    <3>1. attestations[s][Kyc] \in Attestation
        BY <1>1 DEF RegistryTypeOK
    <3>2. QED
        BY <3>1 DEF RevokedNow, IsValid, Attestation
  <2>2. attestations'[s][Kyc] = attestations[s][Kyc]
      BY <1>1, <1>4, <2>1, StepOnAttestation DEF Kept
  <2>3. \/ attestations[s][Kyc].issuedAt >= t
        \/ registeredAt[attestations[s][Kyc].issuer] >= t
      BY <1>4 DEF SinceCheck
  <2>4. QED
      BY <2>2, <2>3, RegistrationsAreDated
<1>5. QED
    BY <1>2, <1>3, <1>4

LEMMA DemosStayFresh ==
    ASSUME IssuanceInv, [IssuanceNext]_vars, NEW r \in Request, DemoFresh(r)
    PROVE  DemoFresh(r)'
<1> USE DEF IssuanceInv, RequestOK
<1>1. ASSUME UNCHANGED job[r], OfDemo(r), stage[r] = "ready" \/ tx[r] # "none"
      PROVE  DemoFresh(r)'
  <2>1. job[r].subject \in Subjects /\ job[r].checkedAt \in Nat /\ job[r].checkedAt <= now
      BY <1>1 DEF Begun, Job, InProgress
  <2>2. SinceCheck(job[r].subject, job[r].checkedAt)'
      BY <1>1, <2>1, SinceCheckStays DEF DemoFresh
  <2>3. QED
      BY <1>1, <2>2 DEF DemoFresh
<1>2. ASSUME NEW q \in Request, RequestStep(q), q # r PROVE DemoFresh(r)'
  <2>1. UNCHANGED <<stage[r], job[r], tx[r]>>
      BY <1>2, RequestStepFrame
  <2>2. CASE OfDemo(r) /\ (stage[r] = "ready" \/ tx[r] # "none")
      BY <1>1, <2>1, <2>2
  <2>3. CASE ~(OfDemo(r) /\ (stage[r] = "ready" \/ tx[r] # "none"))
      BY <2>1, <2>3 DEF DemoFresh, OfDemo
  <2>4. QED
      BY <2>2, <2>3
<1>3. ASSUME ChainStep PROVE DemoFresh(r)'
  <2>1. /\ UNCHANGED job
        /\ stage'[r] = "ready" => stage[r] = "ready"
        /\ tx'[r] # "none" => tx[r] # "none"
      BY <1>3, ChainStepFrame DEF InBlock
  <2>2. CASE OfDemo(r) /\ (stage[r] = "ready" \/ tx[r] # "none")
      BY <1>1, <2>1, <2>2
  <2>3. CASE ~(OfDemo(r) /\ (stage[r] = "ready" \/ tx[r] # "none"))
      BY <2>1, <2>3 DEF DemoFresh, OfDemo
  <2>4. QED
      BY <2>2, <2>3
<1>4. ASSUME RequestStep(r) PROVE DemoFresh(r)'
  <2>1. UNCHANGED <<regVars, registeredAt>>
      BY <1>4, RequestStepFrame
  <2>2. CASE CheckAttested(r)
    <3>1. stage[r] = "wanted" /\ (stage'[r] = "ready" => ~IsValid(job[r].subject, Kyc))
        BY <2>2 DEF CheckAttested, Advance, Unattested, IssuanceTypeOK
    <3>2. UNCHANGED tx /\ tx[r] = "none"
        BY <2>2, <3>1 DEF CheckAttested
    <3>3. job'[r].subject = job[r].subject
        BY <2>2 DEF CheckAttested, IssuanceTypeOK
    <3>4. ~IsValid(job[r].subject, Kyc) => ~IsValid(job[r].subject, Kyc)'
        BY <2>1, <3>3 DEF IsValid, regVars
    <3>5. stage'[r] = "ready" => SinceCheck(job[r].subject, job[r].checkedAt)'
        BY <3>1, <3>4 DEF SinceCheck
    <3>6. QED
        BY <3>2, <3>5 DEF DemoFresh
  <2>3. CASE ~CheckAttested(r) /\ OfDemo(r)' /\ (stage'[r] = "ready" \/ tx'[r] # "none")
    <3>1. ~SignAndLog(r)
      <4>1. SignAndLog(r) => r \in logged'
          BY DEF SignAndLog, LogIssuedAttestation
      <4>2. RequestOK(r)'
          BY RequestsStayOK
      <4>3. QED
          BY <2>3, <4>1, <4>2
    <3>2. stage[r] = "ready" \/ tx[r] # "none"
        BY <1>4, <2>3, <3>1
           DEF RequestStep, Handle, Advance, PostIssueKyc, ConfirmReport, AskDemo,
               ReportIssued, MarkAnchored, Submit, SubmitThrows, WaitThrows, CallThrows,
               NotAnchored, OfDemo, IssuanceTypeOK
    <3>3. UNCHANGED job[r]
        BY <1>4, <2>3, <3>1, <3>2
           DEF RequestStep, Handle, Advance, PostIssueKyc, ConfirmReport, AskDemo,
               ReportIssued, MarkAnchored, Submit, SubmitThrows, WaitThrows, CallThrows,
               IssuanceTypeOK, InProgress
    <3>4. QED
        BY <1>1, <2>3, <3>2, <3>3 DEF OfDemo
  <2>4. CASE ~(OfDemo(r)' /\ (stage'[r] = "ready" \/ tx'[r] # "none"))
      BY <2>4 DEF DemoFresh
  <2>5. QED
      BY <2>2, <2>3, <2>4
<1>5. QED
    BY <1>2, <1>3, <1>4, StepKinds

(* A demo replaces no attestation that was valid before it was asked for.  *)
THEOREM DemosYieldToEarlier == IssuanceSpec => DemoYieldsToEarlier
<1> DEFINE Fresh == \A r \in Request : DemoFresh(r)
           Yields == \A r \in Request :
              OfDemo(r) /\ tx[r] = "pending" /\ tx'[r] = "mined" /\ IsValid(job[r].subject, Kyc) =>
                  LET a == attestations[job[r].subject][Kyc]
                  IN  a.issuedAt >= job[r].checkedAt \/ registeredAt[a.issuer] >= job[r].checkedAt
<1>1. IssuanceInit => Fresh
    BY DEF IssuanceInit, DemoFresh
<1>2. IssuanceInv /\ Fresh /\ [IssuanceNext]_vars => Fresh'
    BY DemosStayFresh
<1>3. Fresh => Yields
    BY DEF DemoFresh, SinceCheck
<1>4. IssuanceInv /\ Fresh /\ [IssuanceNext]_vars => [Yields]_vars
    BY <1>3
<1> HIDE DEF Fresh
<1>5. QED
    BY <1>1, <1>2, <1>4, IssuanceInvHolds, PTL DEF IssuanceSpec, DemoYieldsToEarlier
==============================================================================
