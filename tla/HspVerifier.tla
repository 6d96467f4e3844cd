----------------------------- MODULE HspVerifier -----------------------------
(***************************************************************************)
(* verify() of the HSP verifier, with any number of calls in progress at   *)
(* once.  A call is cut at its awaits, as far as others can make a         *)
(* difference: what it has read of the sequence index is out of date when  *)
(* it comes back from checking proof and attestations.                     *)
(***************************************************************************)
EXTENDS HspChecks

CONSTANTS
    Call,
    Mandate,          \* records of type SignedMandate
    Receipt,          \* records of type Receipt
    AttestationList,  \* sets of records of type Attestation
    Asked             \* bound: the arguments of the calls

ASSUME VerifierAssumption ==
    /\ \A m \in Mandate : /\ m.deadline \in Nat
                          /\ \A cap \in m.requires : cap.value \in Nat
    /\ \A r \in Receipt : /\ r.seq \in Nat /\ r.settledAt \in Nat
                          /\ r.outcome \in {"ATTEMPTED", "SETTLED", "FAILED", "DISPUTED"}
    /\ Admission \in {"accept-new", "accept-historical", "accept-dispute-only"}
    /\ AllowsAttempted \in BOOLEAN
    /\ DisputeWindowMs \in Nat

VARIABLES
    stage,     \* how far a call has come
    job,       \* what it was called with
    prior,     \* the receipts of its mandate in the index when it looked
    decision,
    index,     \* the receipts in the shared sequence and observation index
    raced      \* history: the mandates of which two calls overlapped

vars == <<stage, job, prior, decision, index, raced>>

(* fresh: called without an index, so with an empty one of its own.        *)
Job == [mandate : Mandate, receipt : Receipt, attestations : AttestationList,
        now : Nat, fresh : BOOLEAN]
NoJob == [fresh |-> TRUE]

ASSUME AskedAssumption == Asked \subseteq Job

Class == {"ACCEPT", "RETRYABLE", "POLICY", "PERMANENT"}
Decision == [ok : BOOLEAN, class : Class]
Undecided == [ok |-> FALSE, class |-> "none"]

VerifierTypeOK ==
    /\ stage \in [Call -> {"idle", "presented", "read", "done", "threw"}]
    /\ job \in [Call -> Job \cup {NoJob}]
    /\ prior \in [Call -> SUBSET Receipt]
    /\ decision \in [Call -> Decision \cup {Undecided}]
    /\ \A c \in Call : decision[c] \in Decision <=> stage[c] = "done"
    /\ index \subseteq Receipt
    /\ raced \subseteq {m.hash : m \in Mandate}

VerifierInit ==
    /\ stage = [c \in Call |-> "idle"]
    /\ job = [c \in Call |-> NoJob]
    /\ prior = [c \in Call |-> {}]
    /\ decision = [c \in Call |-> Undecided]
    /\ index = {}
    /\ raced = {}

------------------------------------------------------------------------------
(* The calls.                                                              *)

KnownTo(c) == IF job[c].fresh THEN {} ELSE index

Reject(c, class) ==
    /\ stage' = [stage EXCEPT ![c] = "done"]
    /\ decision' = [decision EXCEPT ![c] = [ok |-> FALSE, class |-> class]]

Begin(c, j) ==
    LET refusal == RefusalUnread(j.mandate, j.receipt)
    IN  /\ stage[c] = "idle"
        /\ job' = [job EXCEPT ![c] = j]
        /\ \/ /\ refusal # "none"
              /\ Reject(c, refusal)
           \/ /\ refusal = "none"
              /\ stage' = [stage EXCEPT ![c] = "presented"]
              /\ UNCHANGED decision
        /\ UNCHANGED <<prior, index, raced>>

(* verify() by a caller who keeps an index.                                *)
Verify(c, j) == ~j.fresh /\ Begin(c, j)

(* fetchAndVerify(): the latest receipt of a payment at the Coordinator,   *)
(* without an index; it throws where the Coordinator does not answer or    *)
(* has no receipt.                                                         *)
FetchAndVerify(c, j) == j.fresh /\ Begin(c, j)

FetchThrows(c) ==
    /\ stage[c] = "idle"
    /\ stage' = [stage EXCEPT ![c] = "threw"]
    /\ UNCHANGED <<job, prior, decision, index, raced>>

(* Of the same mandate, between its reading of the index and its entry.    *)
Overlapping(c) ==
    {d \in Call \ {c} : /\ stage[d] = "read"
                        /\ ~job[d].fresh
                        /\ job[d].receipt.mandate = job[c].receipt.mandate}

ReadPrior(c) ==
    LET r == job[c].receipt
        refusal == RefusalAtIndex(r, KnownTo(c))
    IN  /\ stage[c] = "presented"
        /\ \/ /\ refusal # "none"
              /\ Reject(c, refusal)
              /\ UNCHANGED <<prior, raced>>
           \/ /\ refusal = "none"
              /\ stage' = [stage EXCEPT ![c] = "read"]
              /\ prior' = [prior EXCEPT ![c] = OfMandate(r, KnownTo(c))]
              /\ raced' = IF ~job[c].fresh /\ Overlapping(c) # {}
                          THEN raced \cup {r.mandate} ELSE raced
              /\ UNCHANGED decision
        /\ UNCHANGED <<job, index>>

RefusalsOf(c) ==
    LET j == job[c]
    IN  Refusals(j.mandate, j.receipt, j.attestations, j.now, prior[c], KnownTo(c))

Conclude(c) ==
    /\ stage[c] = "read"
    /\ \E refusal \in RefusalsOf(c) :
          \/ /\ refusal # "none"
             /\ Reject(c, refusal)
             /\ UNCHANGED index
          \/ /\ refusal = "none"
             /\ stage' = [stage EXCEPT ![c] = "done"]
             /\ decision' = [decision EXCEPT ![c] =
                   [ok |-> TRUE, class |-> ClassForOk(job[c].receipt.outcome)]]
             /\ index' = IF job[c].fresh THEN index ELSE index \cup {job[c].receipt}
    /\ UNCHANGED <<job, prior, raced>>

VerifierNext ==
    \E c \in Call :
        \/ \E j \in Asked : Verify(c, j) \/ FetchAndVerify(c, j)
        \/ FetchThrows(c)
        \/ ReadPrior(c)
        \/ Conclude(c)

VerifierSpec == VerifierInit /\ [][VerifierNext]_vars

------------------------------------------------------------------------------
(* Properties.                                                             *)

Decided(c) == stage[c] = "done"

(* One transfer on the chain pays for one mandate only, among all receipts *)
(* that ever entered one index, however the calls overlapped: whose it is  *)
(* is looked up and entered in one step.                                   *)
TransferPaysOneMandate ==
    \A e, f \in index : Observation(e) = Observation(f) => e.mandate = f.mandate

(* A dispute passes only where its caller had a settlement of the mandate  *)
(* with a lower number to dispute, not longer ago than the window; so a    *)
(* caller without an index, as this backend is, never lets one pass.       *)
DisputeHasSettlement ==
    \A c \in Call : decision[c].ok /\ job[c].receipt.outcome = "DISPUTED" =>
        /\ ~job[c].fresh
        /\ \E s \in SettledIn(index) :
              /\ s.mandate = job[c].receipt.mandate
              /\ s.seq < job[c].receipt.seq
              /\ job[c].receipt.settledAt - s.settledAt \in 0..(DisputeWindowMs \div 1000)

(* Asking again is no use after PERMANENT: of two calls about one receipt  *)
(* the one that has seen as much of the mandate as a call refused for good *)
(* does not pass, whatever attestations it brings and at whatever time,    *)
(* unless verifications of the mandate overlapped.                         *)
PermanentIsFinal ==
    \A c, d \in Call :
        /\ Decided(c) /\ Decided(d)
        /\ job[c].mandate = job[d].mandate /\ job[c].receipt = job[d].receipt
        /\ prior[c] \subseteq prior[d]
        /\ ~job[d].fresh
        /\ job[c].receipt.mandate \notin raced
        /\ ~decision[c].ok /\ decision[c].class = "PERMANENT"
        => ~decision[d].ok

(* What AcceptMeansPaidAndAttested asks of one call.                       *)
PaidAndAttested(m, r, atts, time) ==
    /\ r.outcome = "SETTLED" /\ r.settledAt <= m.deadline
    /\ r.proof.from = m.signedBy /\ r.proof.to = m.recipient.id
    /\ r.proof.token = m.token /\ r.proof.value = m.amount
    /\ \A cap \in m.committed : \E a \in atts :
          /\ a.subject = m.signedBy
          /\ a.signedBy \in TrustedIssuers[a.family]
          /\ a.family = cap.family
          /\ cap.family = "kyc" => cap.value <= a.value
          /\ a.issuedAt <= time
          /\ a.expiresAt = 0 \/ time <= a.expiresAt

(* ACCEPT means paid as signed: the transfer went from whoever signed the  *)
(* mandate to the recipient, in full and in time, and for each requirement *)
(* a trusted issuer attests the signer's own standing, valid then, at the  *)
(* level asked for or above.                                               *)
AcceptMeansPaidAndAttested ==
    \A c \in Call : decision[c] = [ok |-> TRUE, class |-> "ACCEPT"] =>
        PaidAndAttested(job[c].mandate, job[c].receipt, job[c].attestations, job[c].now)

(* The verifier keeps its promise about the order of a mandate's receipts. *)
Lifecycle == INSTANCE MandateLifecycle WITH Emission <- Receipt, emitted <- index

LifecycleKept == Lifecycle!Spec
==============================================================================
