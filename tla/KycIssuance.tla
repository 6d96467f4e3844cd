----------------------------- MODULE KycIssuance -----------------------------
(***************************************************************************)
(* The two ways the backend attests KYC with its issuer key, any number of *)
(* requests at once, on top of the attestation registry: the operator's    *)
(* POST /attestations/issue-kyc, for a NexaID report, and the bot's /kyc,  *)
(* which attests a demo level to whoever asks.  One step is what a handler *)
(* does between two awaits.                                                *)
(*                                                                         *)
(* A request broadcasts at most one transaction and is its name.  NexaID   *)
(* and its reports are external: a report or a task that is good may not   *)
(* be so yet, or not be found, whenever it is asked for.                   *)
(***************************************************************************)
EXTENDS AttestationRegistry

CONSTANTS
    Request,
    Bodies,          \* bound: the bodies of the POST requests
    Wallets,         \* bound: the subjects /kyc and other issuers attest
    Report,          \* reportTxHash, as the body spells it
    Task,            \* taskId
    ConfirmedReport, \* the reports that ever get a successful receipt
    PassedTask,      \* the tasks that ever get a passing status
    TaskLevel,       \* passKycLevel of each task
    HexTask,         \* the task ids that are 32 bytes of hex
    DemoReport, NoRequest,
    Backend,         \* NEXASH_ISSUER_ADDRESS
    Kyc,             \* CAPABILITY_BYTES32.KYC
    DemoLevel,       \* 3
    ReportValidity,  \* DEFAULT_ATTESTATION_VALIDITY_SECONDS
    DemoValidity     \* 90 days

MaxUint8 == 255

Body == [subject : Subjects, report : Report, task : Task, canonicalTemplate : BOOLEAN]

ASSUME IssuanceAssumption ==
    /\ Bodies \subseteq Body
    /\ Wallets \subseteq Subjects
    /\ DemoReport \notin Report
    /\ NoRequest \notin Request
    /\ TaskLevel \in [Task -> Nat]
    /\ HexTask \subseteq Task
    /\ Backend \in Issuers
    /\ Kyc \in Capability
    /\ DemoLevel \in 0..MaxUint8
    /\ Levels \subseteq 0..MaxUint8
    /\ ReportValidity \in Nat /\ DemoValidity \in Nat

VARIABLES
    stage, job,
    logged,        \* issued_attestations_log: the requests that have a row
    marked,        \* on_chain_tx_hash of each row; NoRequest for NULL
    tx,            \* the recordAttestation transaction of each request
    registeredAt   \* history: when each issuer was last registered

requestVars == <<stage, job, logged, marked, tx>>
issuanceVars == <<requestVars, registeredAt>>
vars == <<regVars, issuanceVars>>

Job == [subject : Subjects, report : Report \cup {DemoReport}, task : Task \cup {DemoReport},
        level : Nat, expiry : Nat, checkedAt : Nat]
NoJob == [report |-> NoRequest]

InProgress == {"asked", "reported",  \* of a report: the receipt, then the task is awaited
               "wanted",             \* of a demo: isValid is awaited
               "ready",              \* the estimate and the broadcast are awaited
               "waiting"}            \* the receipt is awaited
Answered == {"anchored",   \* 201 with the hash, or KYC Attestation Issued
             "unanchored", \* 201 without
             "already",    \* Already KYC Verified
             "failed",     \* 500, or KYC issuance failed
             "lost"}       \* the process died with the request

IssuanceTypeOK ==
    /\ RegistryTypeOK
    /\ \A s \in Subjects, c \in Capability : attestations[s][c].kycLevel <= MaxUint8
    /\ stage \in [Request -> {"idle"} \cup InProgress \cup Answered]
    /\ job \in [Request -> Job \cup {NoJob}]
    /\ logged \subseteq Request
    /\ marked \in [Request -> Request \cup {NoRequest}]
    /\ tx \in [Request -> {"none", "pending", "mined", "reverted"}]
    /\ registeredAt \in [Issuers -> Nat]

IssuanceInit ==
    /\ RegistryInit
    /\ stage = [r \in Request |-> "idle"]
    /\ job = [r \in Request |-> NoJob]
    /\ logged = {}
    /\ marked = [r \in Request |-> NoRequest]
    /\ tx = [r \in Request |-> "none"]
    /\ registeredAt = [i \in Issuers |-> 0]

------------------------------------------------------------------------------
(* POST /attestations/issue-kyc.                                           *)

Advance(r, from, to) == stage[r] = from /\ stage' = [stage EXCEPT ![r] = to]

OfDemo(r) == job[r].report = DemoReport

(* verifyKycReportBeforeIssuing looks at the template before any await.    *)
WrongTemplate(body) == ~body.canonicalTemplate

PostIssueKyc(r, body) ==
    /\ \/ /\ WrongTemplate(body)
          /\ Advance(r, "idle", "failed")
          /\ UNCHANGED job
       \/ /\ ~WrongTemplate(body)
          /\ Advance(r, "idle", "asked")
          /\ job' = [job EXCEPT ![r] =
                [subject |-> body.subject, report |-> body.report, task |-> body.task,
                 level |-> 0, expiry |-> 0, checkedAt |-> 0]]
    /\ UNCHANGED <<regVars, logged, marked, tx, registeredAt>>

ConfirmReport(r) ==
    /\ Advance(r, "asked", "reported")
    /\ job[r].report \in ConfirmedReport
    /\ UNCHANGED <<regVars, job, logged, marked, tx, registeredAt>>

(* A mutant: the status is reported but not looked at.                     *)
TaskFound(r) == job[r].task \in HexTask

TaskPasses(r) == job[r].task \in PassedTask /\ job[r].task \in HexTask

LogIssuedAttestation(r) == logged' = logged \cup {r}

(* fetchNexaidTaskResult, whose level is taken for the request's subject;  *)
(* then the attestation is signed and logged, without a transaction.       *)
SignAndLog(r) ==
    /\ Advance(r, "reported", "ready")
    /\ TaskPasses(r)
    /\ job' = [job EXCEPT ![r].level = TaskLevel[job[r].task], ![r].expiry = now + ReportValidity]
    /\ LogIssuedAttestation(r)
    /\ UNCHANGED <<regVars, marked, tx, registeredAt>>

(* A mutant: the hash is set in rows of other reports, too.                *)
EveryUnmarkedRow(r) == {q \in logged : marked[q] = NoRequest}

(* markAttestationAnchored finds its rows by the report.                   *)
UnmarkedRows(r) == {q \in logged : marked[q] = NoRequest /\ job[q].report = job[r].report}

InBlock(r) == tx[r] \in {"mined", "reverted"}

(* The receipt's status is not looked at.                                  *)
MarkAnchored(r) ==
    /\ ~OfDemo(r)
    /\ InBlock(r)
    /\ Advance(r, "waiting", "anchored")
    /\ marked' = [q \in Request |-> IF q \in UnmarkedRows(r) THEN r ELSE marked[q]]
    /\ UNCHANGED <<regVars, job, logged, tx, registeredAt>>

------------------------------------------------------------------------------
(* /kyc, with issueKycForWallet.                                           *)

AskDemo(r, s) ==
    /\ Advance(r, "idle", "wanted")
    /\ job' = [job EXCEPT ![r] = [subject |-> s, report |-> DemoReport, task |-> DemoReport,
                                  level |-> DemoLevel, expiry |-> 0, checkedAt |-> 0]]
    /\ UNCHANGED <<regVars, logged, marked, tx, registeredAt>>

(* A mutant: attested whatever the registry says.                          *)
AlwaysUnattested(s) == TRUE

Unattested(s) == ~IsValid(s, Kyc)

CheckAttested(r) ==
    /\ stage[r] = "wanted"
    /\ Advance(r, "wanted", IF Unattested(job[r].subject) THEN "ready" ELSE "already")
    /\ job' = [job EXCEPT ![r].expiry = now + DemoValidity, ![r].checkedAt = now]
    /\ UNCHANGED <<regVars, logged, marked, tx, registeredAt>>

ReportIssued(r) ==
    /\ OfDemo(r)
    /\ InBlock(r)
    /\ Advance(r, "waiting", "anchored")
    /\ UNCHANGED <<regVars, job, logged, marked, tx, registeredAt>>

------------------------------------------------------------------------------
(* recordAttestationOnChain, of both.                                      *)

(* A mutant: the level is cut to eight bits.                               *)
EncodableCut(r) == job[r].level \in Nat

Encodable(r) == job[r].level \in 0..MaxUint8

Recordable(r) == Backend \in issuers /\ ~regPaused

(* viem refuses to encode another level; the estimate throws where the     *)
(* call would revert now.                                                  *)
Submit(r) ==
    /\ Advance(r, "ready", "waiting")
    /\ Encodable(r)
    /\ Recordable(r)
    /\ tx' = [tx EXCEPT ![r] = "pending"]
    /\ UNCHANGED <<regVars, job, logged, marked, registeredAt>>

NotAnchored(r) == IF OfDemo(r) THEN "failed" ELSE "unanchored"

(* The broadcast may throw although the transaction was taken.             *)
SubmitThrows(r) ==
    /\ Advance(r, "ready", NotAnchored(r))
    /\ \/ UNCHANGED tx
       \/ /\ Encodable(r)
          /\ Recordable(r)
          /\ tx' = [tx EXCEPT ![r] = "pending"]
    /\ UNCHANGED <<regVars, job, logged, marked, registeredAt>>

(* The wait times out, or the RPC node fails.                              *)
WaitThrows(r) ==
    /\ Advance(r, "waiting", NotAnchored(r))
    /\ UNCHANGED <<regVars, job, logged, marked, tx, registeredAt>>

(* The report has no successful receipt; NexaID's answer is an error or    *)
(* has no passing status, or the task id is no hex; isValid cannot be read.*)
CallThrows(r) ==
    /\ \E from \in {"asked", "reported", "wanted"} : Advance(r, from, "failed")
    /\ UNCHANGED <<regVars, job, logged, marked, tx, registeredAt>>

Handle(r) ==
    \/ ConfirmReport(r)
    \/ SignAndLog(r)
    \/ MarkAnchored(r)
    \/ CheckAttested(r)
    \/ ReportIssued(r)
    \/ Submit(r)
    \/ SubmitThrows(r)
    \/ WaitThrows(r)
    \/ CallThrows(r)

Crash ==
    /\ \E r \in Request : stage[r] \in InProgress
    /\ stage' = [r \in Request |-> IF stage[r] \in InProgress THEN "lost" ELSE stage[r]]
    /\ UNCHANGED <<regVars, job, logged, marked, tx, registeredAt>>

------------------------------------------------------------------------------
(* The chain, where a transaction outlives its request.                    *)

Mined(r) ==
    /\ tx[r] = "pending"
    /\ tx' = [tx EXCEPT ![r] = "mined"]
    /\ RecordAttestation(Backend, job[r].subject, Kyc, job[r].level, job[r].expiry)
    /\ UNCHANGED <<stage, job, logged, marked, registeredAt>>

Reverted(r) ==
    /\ tx[r] = "pending"
    /\ ~Recordable(r)
    /\ tx' = [tx EXCEPT ![r] = "reverted"]
    /\ UNCHANGED <<regVars, stage, job, logged, marked, registeredAt>>

(* The registry's owner, whoever it is, and the other issuers: only the    *)
(* backend has its key.                                                    *)
OthersOnChain ==
    \/ \E i \in Issuers : /\ RegisterIssuer(i)
                          /\ registeredAt' = [registeredAt EXCEPT ![i] = now]
                          /\ UNCHANGED <<requestVars>>
    \/ /\ \/ \E i \in Issuers : RevokeIssuer(i)
          \/ \E caller \in issuers \ {Backend}, s \in Wallets, c \in Capability :
                \/ \E level \in Levels, expiry \in Expiries :
                      RecordAttestation(caller, s, c, level, expiry)
                \/ RevokeAttestation(caller, s, c)
          \/ PauseRegistry
          \/ UnpauseRegistry
          \/ Mine
       /\ UNCHANGED issuanceVars

IssuanceNext ==
    \/ \E r \in Request :
          \/ Handle(r)
          \/ \E s \in Wallets : AskDemo(r, s)
          \/ \E body \in Bodies : PostIssueKyc(r, body)
          \/ Mined(r)
          \/ Reverted(r)
    \/ Crash
    \/ OthersOnChain

IssuanceSpec == IssuanceInit /\ [][IssuanceNext]_vars

------------------------------------------------------------------------------
(* Properties.                                                             *)

(* Every attestation on the chain that names the backend as its issuer can *)
(* be traced to a request for its subject: one of /kyc, for the demo level,*)
(* or one with a row in the log, a report in a block and a task that       *)
(* passed at this level.  Crashes, lost answers and transactions mined     *)
(* long after their request failed do not bring about any other.           *)
AttestationsTraced ==
    \A s \in Subjects : attestations[s][Kyc].issuer = Backend =>
        \E r \in Request :
            /\ tx[r] = "mined"
            /\ job[r].subject = s
            /\ job[r].expiry = attestations[s][Kyc].expiresAt
            /\ job[r].level = attestations[s][Kyc].kycLevel
            /\ \/ OfDemo(r) /\ job[r].level = DemoLevel
               \/ /\ r \in logged
                  /\ job[r].report \in ConfirmedReport
                  /\ job[r].task \in PassedTask
                  /\ job[r].level = TaskLevel[job[r].task]

(* What the log may be trusted for.  A report's attestation is logged      *)
(* before it can get into a block; a hash in a row is that of a request    *)
(* for the same report, not necessarily the row's own, and in a block;     *)
(* the client is told of an anchor only where the row has a hash; and a    *)
(* row without one, whose attestation is on the chain, belongs to a        *)
(* request that is in progress, was told of no anchor, or was cut off.     *)
LogExplained ==
    \A r \in Request :
        /\ tx[r] # "none" => r \in logged \/ OfDemo(r)
        /\ marked[r] # NoRequest =>
              /\ r \in logged
              /\ InBlock(marked[r])
              /\ job[marked[r]].report = job[r].report
        /\ stage[r] = "anchored" => marked[r] # NoRequest \/ OfDemo(r)
        /\ r \in logged /\ marked[r] = NoRequest /\ InBlock(r) =>
              stage[r] \in {"waiting", "unanchored", "lost"}

(* /kyc checks and records in two steps, with awaits and a block between:  *)
(* the demo attestation replaces a valid one only where that one was       *)
(* recorded, or its issuer registered, since the check.                    *)
DemoYieldsToEarlier ==
    [][\A r \in Request :
          OfDemo(r) /\ tx[r] = "pending" /\ tx'[r] = "mined" /\ IsValid(job[r].subject, Kyc) =>
              LET a == attestations[job[r].subject][Kyc]
              IN  a.issuedAt >= job[r].checkedAt \/ registeredAt[a.issuer] >= job[r].checkedAt
      ]_vars
==============================================================================
