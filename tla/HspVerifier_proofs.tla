-------------------------- MODULE HspVerifier_proofs --------------------------
(***************************************************************************)
(* Theorems about verify(), for any mandates, receipts and attestations    *)
(* and any number of overlapping calls.                                    *)
(***************************************************************************)
EXTENDS HspVerifier, TLAPS

Outcomes == {"ATTEMPTED", "SETTLED", "FAILED", "DISPUTED"}

(* What a call that is under way has behind it.                            *)
UnderWay(c) ==
    stage[c] \in {"presented", "read"} =>
        /\ job[c] \in Job
        /\ RefusalUnread(job[c].mandate, job[c].receipt) = "none"

(* What a call has read was in the index it reads, and still is.           *)
PriorKnown(c) == stage[c] = "read" => prior[c] \subseteq OfMandate(job[c].receipt, KnownTo(c))

Reading(c) == stage[c] = "read" /\ ~job[c].fresh

SameMandate(c, d) == job[c].receipt.mandate = job[d].receipt.mandate

(* Of an unraced mandate there is one reader, and what it read is all.     *)
ReaderAlone ==
    \A c \in Call : Reading(c) /\ job[c].receipt.mandate \notin raced =>
        /\ prior[c] = OfMandate(job[c].receipt, index)
        /\ \A d \in Call \ {c} : ~(Reading(d) /\ SameMandate(c, d))

Calls == \A c \in Call : UnderWay(c) /\ PriorKnown(c)

VerifierInv == VerifierTypeOK /\ Calls /\ ReaderAlone

------------------------------------------------------------------------------
(* The checks.                                                             *)

(* A call that is refused is refused with a class.                         *)
LEMMA RefusalUnreadHasClass ==
    ASSUME NEW m, NEW r
    PROVE  RefusalUnread(m, r) \in Class \cup {"none"}
    BY DEF RefusalUnread, PhaseA, Provenance, Class

LEMMA RefusalAtIndexHasClass ==
    ASSUME NEW r, NEW known
    PROVE  RefusalAtIndex(r, known) \in Class \cup {"none"}
    BY DEF RefusalAtIndex, Class

LEMMA SequencingHasClass ==
    ASSUME NEW r, NEW seen
    PROVE  Sequencing(r, seen) \subseteq Class \cup {"none"}
    BY DEF Sequencing, NothingToDispute, Class

LEMMA RefusalsHaveClass ==
    ASSUME NEW m, NEW r, NEW atts, NEW time, NEW seen, NEW known
    PROVE  Refusals(m, r, atts, time, seen, known) \subseteq Class \cup {"none"}
<1>1. CapabilityRefusals(m, r, atts, time) \subseteq Class \cup {"none"}
    BY DEF CapabilityRefusals, Class
<1>2. \A refusal \in Sequencing(r, seen) :
          (IF refusal = "none" /\ TakenByOther(r, known) THEN "PERMANENT" ELSE refusal)
              \in Class \cup {"none"}
    BY SequencingHasClass DEF Class
<1>3. QED
    BY <1>1, <1>2 DEF Refusals, Class

(* What it takes to pass.                                                  *)
LEMMA PassedEveryCheck ==
    ASSUME NEW m, NEW r, NEW atts, NEW time, NEW seen, NEW known,
           "none" \in Refusals(m, r, atts, time, seen, known)
    PROVE  /\ ProofHolds(m, r)
           /\ CapabilityRefusals(m, r, atts, time) = {"none"}
           /\ ~Late(m, r)
           /\ ~TakenByOther(r, known)
           /\ "none" \in Sequencing(r, seen)
<1>1. ProofHolds(m, r)
    BY DEF Refusals
<1>2. CapabilityRefusals(m, r, atts, time) = {"none"}
  <2>1. ASSUME CapabilityRefusals(m, r, atts, time) # {"none"} PROVE FALSE
    <3>1. "none" \in CapabilityRefusals(m, r, atts, time)
        BY <1>1, <2>1 DEF Refusals
    <3>2. QED
        BY <2>1, <3>1 DEF CapabilityRefusals
  <2>2. QED
      BY <2>1
<1>3. ~Late(m, r)
    BY <1>1, <1>2 DEF Refusals
<1>4. "none" \in {IF refusal = "none" /\ TakenByOther(r, known) THEN "PERMANENT" ELSE refusal :
                     refusal \in Sequencing(r, seen)}
    BY <1>1, <1>2, <1>3 DEF Refusals
<1>5. QED
    BY <1>1, <1>2, <1>3, <1>4

LEMMA CapabilitiesAttested ==
    ASSUME NEW m, NEW r, NEW atts, NEW time, CapabilityRefusals(m, r, atts, time) = {"none"},
           NEW cap \in m.requires
    PROVE  cap \in Registered /\ Attested(cap, m, r, atts, time)
<1>1. SUFFICES ASSUME ~(cap \in Registered /\ Attested(cap, m, r, atts, time)) PROVE FALSE
    OBVIOUS
<1> DEFINE unmet == {k \in m.requires : k \notin Registered \/ ~Attested(k, m, r, atts, time)}
           Of(k) == IF k \in Registered /\ TrustedIssuers[k.family] # {}
                    THEN "RETRYABLE" ELSE "POLICY"
<1>2. cap \in unmet
    BY <1>1
<1>3. Of(cap) \in CapabilityRefusals(m, r, atts, time)
    BY <1>2 DEF CapabilityRefusals
<1>4. Of(cap) # "none"
    OBVIOUS
<1>5. QED
    BY <1>3, <1>4

(* In the order of the numbers, and a dispute after a settlement only.     *)
LEMMA SequencingKeepsOrder ==
    ASSUME NEW r \in Receipt, NEW seen \in SUBSET Receipt, "none" \in Sequencing(r, seen)
    PROVE  /\ \A e \in seen : e.seq < r.seq
           /\ r.outcome = "DISPUTED" <=> \E e \in seen : e.outcome = "SETTLED"
           /\ r.outcome = "DISPUTED" =>
                  \E s \in LatestSettled(seen) : InDisputeWindow(r, s)
<1>1. ~Stale(r, seen)
    BY DEF Sequencing
<1>2. \A e \in seen : e.seq < r.seq
    BY <1>1, VerifierAssumption DEF Stale
<1>3. CASE r.outcome = "DISPUTED"
  <2>1. SettledIn(seen) # {}
      BY <1>1, <1>3 DEF Sequencing, NothingToDispute
  <2>2. \E s \in LatestSettled(seen) : InDisputeWindow(r, s)
      BY <1>1, <1>3, <2>1 DEF Sequencing
  <2>3. QED
      BY <1>2, <1>3, <2>1, <2>2 DEF SettledIn
<1>4. CASE r.outcome # "DISPUTED"
  <2>1. ~\E e \in seen : e.outcome \in {"SETTLED", "DISPUTED"}
      BY <1>1, <1>4 DEF Sequencing
  <2>2. QED
      BY <1>2, <1>4, <2>1
<1>5. QED
    BY <1>3, <1>4

------------------------------------------------------------------------------
(* The invariant.                                                          *)

LEMMA VerifierInitInv == VerifierInit => VerifierInv
<1> SUFFICES ASSUME VerifierInit PROVE VerifierInv
    OBVIOUS
<1> USE DEF VerifierInit
<1>1. VerifierTypeOK
    BY DEF VerifierTypeOK, Decision, Class, Undecided
<1>2. Calls /\ ReaderAlone
    BY DEF Calls, UnderWay, PriorKnown, ReaderAlone, Reading
<1>3. QED
    BY <1>1, <1>2 DEF VerifierInv

(* A call that is over is nobody's reader, and leaves the others theirs.   *)
LEMMA RejectKeepsInv ==
    ASSUME VerifierInv, NEW c \in Call, NEW class \in Class, Reject(c, class),
           stage[c] \in {"idle", "presented", "read"},
           job' \in [Call -> Job \cup {NoJob}], \A d \in Call \ {c} : job'[d] = job[d],
           UNCHANGED <<prior, index, raced>>
    PROVE  VerifierInv'
<1> USE DEF VerifierInv, Reject
<1>1. /\ stage'[c] = "done" /\ decision'[c] = [ok |-> FALSE, class |-> class]
      /\ \A d \in Call \ {c} : stage'[d] = stage[d] /\ decision'[d] = decision[d]
    BY DEF VerifierTypeOK
<1>2. VerifierTypeOK'
  <2>1. [ok |-> FALSE, class |-> class] \in Decision
      BY DEF Decision
  <2>2. QED
      BY <1>1, <2>1 DEF VerifierTypeOK
<1>3. Calls'
    BY <1>1 DEF Calls, UnderWay, PriorKnown, KnownTo
<1>4. ReaderAlone'
    BY <1>1 DEF ReaderAlone, Reading, SameMandate
<1>5. QED
    BY <1>2, <1>3, <1>4

LEMMA BeginKeepsInv ==
    ASSUME VerifierInv, NEW c \in Call, NEW j \in Asked, Begin(c, j)
    PROVE  VerifierInv'
<1> USE DEF VerifierInv
<1>1. j \in Job
    BY AskedAssumption
<1>2. /\ stage[c] = "idle"
      /\ job' \in [Call -> Job \cup {NoJob}] /\ job'[c] = j
      /\ \A d \in Call \ {c} : job'[d] = job[d]
      /\ UNCHANGED <<prior, index, raced>>
    BY <1>1 DEF Begin, VerifierTypeOK
<1>3. CASE RefusalUnread(j.mandate, j.receipt) # "none"
    BY <1>2, <1>3, RefusalUnreadHasClass, RejectKeepsInv DEF Begin
<1>4. CASE RefusalUnread(j.mandate, j.receipt) = "none"
  <2>1. /\ stage'[c] = "presented" /\ UNCHANGED decision
        /\ stage' \in [Call -> {"idle", "presented", "read", "done", "threw"}]
        /\ \A d \in Call \ {c} : stage'[d] = stage[d]
      BY <1>4 DEF Begin, VerifierTypeOK
  <2>2. VerifierTypeOK'
      BY <1>2, <2>1 DEF VerifierTypeOK
  <2>3. Calls'
      BY <1>1, <1>2, <1>4, <2>1 DEF Calls, UnderWay, PriorKnown, KnownTo
  <2>4. ReaderAlone'
      BY <1>2, <2>1 DEF ReaderAlone, Reading, SameMandate
  <2>5. QED
      BY <2>2, <2>3, <2>4
<1>5. QED
    BY <1>3, <1>4

LEMMA FetchThrowsKeepsInv ==
    ASSUME VerifierInv, NEW c \in Call, FetchThrows(c)
    PROVE  VerifierInv'
    BY DEF VerifierInv, FetchThrows, VerifierTypeOK, Calls, UnderWay, PriorKnown, KnownTo,
           ReaderAlone, Reading, SameMandate

(* Whoever begins to read while another does marks the mandate.            *)
LEMMA ReadPriorKeepsInv ==
    ASSUME VerifierInv, NEW c \in Call, ReadPrior(c)
    PROVE  VerifierInv'
<1> USE DEF VerifierInv
<1> DEFINE r == job[c].receipt
           refusal == RefusalAtIndex(r, KnownTo(c))
<1>1. /\ stage[c] = "presented" /\ UNCHANGED <<job, index>>
      /\ job[c] \in Job /\ RefusalUnread(job[c].mandate, r) = "none"
    BY DEF ReadPrior, Calls, UnderWay
<1>2. CASE refusal # "none"
    BY <1>1, <1>2, RefusalAtIndexHasClass, RejectKeepsInv DEF ReadPrior, VerifierTypeOK
<1>3. CASE refusal = "none"
  <2>1. /\ stage'[c] = "read" /\ UNCHANGED decision
        /\ stage' \in [Call -> {"idle", "presented", "read", "done", "threw"}]
        /\ prior'[c] = OfMandate(r, KnownTo(c))
        /\ \A d \in Call \ {c} : stage'[d] = stage[d] /\ prior'[d] = prior[d]
        /\ raced' = IF ~job[c].fresh /\ Overlapping(c) # {}
                    THEN raced \cup {r.mandate} ELSE raced
      BY <1>3 DEF ReadPrior, VerifierTypeOK
  <2>2. r.mandate \in {m.hash : m \in Mandate}
    <3>1. job[c].mandate \in Mandate
        BY <1>1 DEF Job
    <3>2. r.mandate = job[c].mandate.hash
        BY <1>1 DEF RefusalUnread, Provenance
    <3>3. QED
        BY <3>1, <3>2
  <2>3. prior' \in [Call -> SUBSET Receipt]
    <3>1. OfMandate(r, KnownTo(c)) \in SUBSET Receipt
        BY DEF OfMandate, KnownTo, VerifierTypeOK
    <3>2. QED
        BY <1>3, <3>1 DEF ReadPrior, VerifierTypeOK
  <2>4. VerifierTypeOK'
      BY <1>1, <2>1, <2>2, <2>3 DEF VerifierTypeOK
  <2>5. Calls'
      BY <1>1, <2>1 DEF Calls, UnderWay, PriorKnown, KnownTo
  <2>6. ReaderAlone'
    <3> SUFFICES ASSUME NEW d \in Call, Reading(d)', job[d].receipt.mandate \notin raced'
                 PROVE  /\ prior'[d] = OfMandate(job[d].receipt, index)
                        /\ \A e \in Call \ {d} : ~(Reading(e)' /\ SameMandate(d, e))
        BY <1>1 DEF ReaderAlone, SameMandate
    <3>1. raced \subseteq raced'
        BY <2>1
    <3>2. CASE d = c
      <4>1. ~job[c].fresh
          BY <1>1, <3>2 DEF Reading
      <4>2. Overlapping(c) = {}
          BY <2>1, <3>2, <4>1
      <4>3. \A e \in Call \ {c} : ~(Reading(e) /\ SameMandate(c, e))
          BY <4>2 DEF Overlapping, Reading, SameMandate
      <4>4. QED
          BY <1>1, <2>1, <3>2, <4>1, <4>3 DEF Reading, KnownTo
    <3>3. CASE d # c
      <4>1. Reading(d)
          BY <1>1, <2>1, <3>3 DEF Reading
      <4>2. /\ prior[d] = OfMandate(job[d].receipt, index)
            /\ \A e \in Call \ {d} : ~(Reading(e) /\ SameMandate(d, e))
          BY <3>1, <4>1 DEF ReaderAlone
      <4>3. ~(Reading(c)' /\ SameMandate(d, c))
        <5>1. SUFFICES ASSUME Reading(c)', SameMandate(d, c) PROVE FALSE
            OBVIOUS
        <5>2. d \in Overlapping(c)
            BY <3>3, <4>1, <5>1 DEF Overlapping, Reading, SameMandate
        <5>3. r.mandate \in raced'
            BY <1>1, <2>1, <5>1, <5>2 DEF Reading
        <5>4. QED
            BY <5>1, <5>3 DEF SameMandate
      <4>4. QED
          BY <1>1, <2>1, <3>3, <4>2, <4>3 DEF Reading
    <3>4. QED
        BY <3>2, <3>3
  <2>7. QED
      BY <2>4, <2>5, <2>6
<1>4. QED
    BY <1>2, <1>3

(* A call that passes enters its receipt: its readers of the same mandate, *)
(* if there are any, are marked.                                           *)
LEMMA ConcludeKeepsInv ==
    ASSUME VerifierInv, NEW c \in Call, Conclude(c)
    PROVE  VerifierInv'
<1> USE DEF VerifierInv
<1> DEFINE r == job[c].receipt
<1>1. /\ stage[c] = "read" /\ UNCHANGED <<job, prior, raced>>
      /\ job[c] \in Job /\ r \in Receipt
    BY DEF Conclude, Calls, UnderWay, Job
<1>2. PICK refusal \in RefusalsOf(c) :
          \/ /\ refusal # "none"
             /\ Reject(c, refusal)
             /\ UNCHANGED index
          \/ /\ refusal = "none"
             /\ stage' = [stage EXCEPT ![c] = "done"]
             /\ decision' = [decision EXCEPT ![c] = [ok |-> TRUE, class |-> ClassForOk(r.outcome)]]
             /\ index' = IF job[c].fresh THEN index ELSE index \cup {r}
    BY DEF Conclude
<1>3. CASE refusal # "none"
  <2>1. refusal \in Class
      BY <1>3, RefusalsHaveClass DEF RefusalsOf
  <2>2. QED
      BY <1>1, <1>2, <1>3, <2>1, RejectKeepsInv DEF VerifierTypeOK
<1>4. CASE refusal = "none"
  <2>1. /\ stage'[c] = "done"
        /\ stage' \in [Call -> {"idle", "presented", "read", "done", "threw"}]
        /\ decision'[c] = [ok |-> TRUE, class |-> ClassForOk(r.outcome)]
        /\ \A d \in Call \ {c} : stage'[d] = stage[d] /\ decision'[d] = decision[d]
        /\ index' = IF job[c].fresh THEN index ELSE index \cup {r}
      BY <1>2, <1>4 DEF VerifierTypeOK
  <2>2. VerifierTypeOK'
    <3>1. [ok |-> TRUE, class |-> ClassForOk(r.outcome)] \in Decision
        BY DEF Decision, Class, ClassForOk
    <3>2. QED
        BY <1>1, <1>2, <1>4, <2>1, <3>1 DEF VerifierTypeOK
  <2>3. Calls'
      BY <1>1, <2>1 DEF Calls, UnderWay, PriorKnown, KnownTo, OfMandate
  <2>4. ReaderAlone'
    <3> SUFFICES ASSUME NEW d \in Call, Reading(d)', job[d].receipt.mandate \notin raced
                 PROVE  /\ prior[d] = OfMandate(job[d].receipt, index')
                        /\ \A e \in Call \ {d} : ~(Reading(e)' /\ SameMandate(d, e))
        BY <1>1 DEF ReaderAlone, SameMandate
    <3>1. d # c /\ Reading(d)
        BY <1>1, <2>1 DEF Reading
    <3>2. /\ prior[d] = OfMandate(job[d].receipt, index)
          /\ \A e \in Call \ {d} : ~(Reading(e) /\ SameMandate(d, e))
        BY <3>1 DEF ReaderAlone
    <3>3. ~job[c].fresh => r.mandate # job[d].receipt.mandate
        BY <1>1, <3>1, <3>2 DEF Reading, SameMandate
    <3>4. OfMandate(job[d].receipt, index') = OfMandate(job[d].receipt, index)
        BY <2>1, <3>3 DEF OfMandate
    <3>5. \A e \in Call \ {d} : Reading(e)' => Reading(e)
        BY <1>1, <2>1 DEF Reading
    <3>6. QED
        BY <3>2, <3>4, <3>5
  <2>5. QED
      BY <2>2, <2>3, <2>4
<1>5. QED
    BY <1>3, <1>4

LEMMA VerifierInvInductive == VerifierInv /\ [VerifierNext]_vars => VerifierInv'
<1> SUFFICES ASSUME VerifierInv, [VerifierNext]_vars PROVE VerifierInv'
    OBVIOUS
<1>1. ASSUME NEW c \in Call, NEW j \in Asked, Verify(c, j) \/ FetchAndVerify(c, j)
      PROVE  VerifierInv'
    BY <1>1, BeginKeepsInv DEF Verify, FetchAndVerify
<1>2. CASE UNCHANGED vars
    BY <1>2 DEF VerifierInv, VerifierTypeOK, Calls, UnderWay, PriorKnown, KnownTo, ReaderAlone,
                Reading, SameMandate, vars
<1>3. QED
    BY <1>1, <1>2, FetchThrowsKeepsInv, ReadPriorKeepsInv, ConcludeKeepsInv DEF VerifierNext

LEMMA VerifierInvHolds == VerifierSpec => []VerifierInv
<1>1. VerifierInit => VerifierInv
    BY VerifierInitInv
<1>2. VerifierInv /\ [VerifierNext]_vars => VerifierInv'
    BY VerifierInvInductive
<1>3. QED
    BY <1>1, <1>2, PTL DEF VerifierSpec

(* Calls, decisions and the index are typed: every decision has a class.   *)
THEOREM VerifierTypeCorrect == VerifierSpec => []VerifierTypeOK
<1>1. VerifierInv => VerifierTypeOK
    BY DEF VerifierInv
<1>2. QED
    BY <1>1, VerifierInvHolds, PTL

------------------------------------------------------------------------------
(* One transfer for one mandate.                                           *)

(* Only a call that passes enters a receipt, having looked the transfer up *)
(* in the index as it is.                                                  *)
LEMMA IndexGrowsByPassing ==
    ASSUME VerifierInv, [VerifierNext]_vars
    PROVE  \/ UNCHANGED index
           \/ \E c \in Call : /\ Reading(c)
                              /\ "none" \in RefusalsOf(c)
                              /\ index' = index \cup {job[c].receipt}
                              /\ UNCHANGED raced
<1>1. ASSUME NEW c \in Call, Conclude(c)
      PROVE  \/ UNCHANGED index
             \/ /\ Reading(c) /\ "none" \in RefusalsOf(c)
                /\ index' = index \cup {job[c].receipt} /\ UNCHANGED raced
  <2>1. CASE job[c].fresh
      BY <1>1, <2>1 DEF Conclude
  <2>2. CASE ~job[c].fresh
      BY <1>1, <2>2 DEF Conclude, Reading
  <2>3. QED
      BY <2>1, <2>2
<1>2. QED
    BY <1>1 DEF VerifierNext, Verify, FetchAndVerify, Begin, FetchThrows, ReadPrior, vars

(* One transfer on the chain pays one mandate only.                        *)
THEOREM TransfersPayOneMandate == VerifierSpec => []TransferPaysOneMandate
<1>1. VerifierInit => TransferPaysOneMandate
    BY DEF VerifierInit, TransferPaysOneMandate
<1>2. ASSUME VerifierInv, TransferPaysOneMandate, [VerifierNext]_vars
      PROVE  TransferPaysOneMandate'
  <2>1. CASE UNCHANGED index
      BY <1>2, <2>1 DEF TransferPaysOneMandate
  <2>2. ASSUME NEW c \in Call, Reading(c), "none" \in RefusalsOf(c),
               index' = index \cup {job[c].receipt}
        PROVE  TransferPaysOneMandate'
    <3>1. ~TakenByOther(job[c].receipt, index)
        BY <2>2, PassedEveryCheck DEF RefusalsOf, Reading, KnownTo
    <3>2. QED
        BY <1>2, <2>2, <3>1 DEF TransferPaysOneMandate, TakenByOther
  <2>3. QED
      BY <1>2, <2>1, <2>2, IndexGrowsByPassing
<1>3. QED
    BY <1>1, <1>2, VerifierInvHolds, PTL DEF VerifierSpec

------------------------------------------------------------------------------
(* The order of a mandate's receipts.                                      *)

LEMMA StepKeepsLifecycle ==
    ASSUME VerifierInv, VerifierInv', [VerifierNext]_vars
    PROVE  [Lifecycle!Next]_Lifecycle!vars
<1>1. CASE UNCHANGED <<index, raced>>
    BY <1>1 DEF Lifecycle!vars
<1>2. ASSUME NEW c \in Call, Reading(c), "none" \in RefusalsOf(c),
             index' = index \cup {job[c].receipt}, UNCHANGED raced
      PROVE  Lifecycle!Next
  <2> DEFINE r == job[c].receipt
  <2>1. r \in Receipt
      BY <1>2 DEF VerifierInv, Calls, UnderWay, Reading, Job
  <2>2. CASE r.mandate \in raced
      BY <1>2, <2>1, <2>2 DEF Lifecycle!Next, Lifecycle!Emit
  <2>3. CASE r.mandate \notin raced
    <3>1. prior[c] = OfMandate(r, index) /\ prior[c] \in SUBSET Receipt
        BY <1>2, <2>3 DEF VerifierInv, ReaderAlone, VerifierTypeOK
    <3>2. "none" \in Sequencing(r, prior[c])
        BY <1>2, PassedEveryCheck DEF RefusalsOf
    <3>3. /\ \A e \in prior[c] : e.seq < r.seq
          /\ r.outcome = "DISPUTED" <=> \E e \in prior[c] : e.outcome = "SETTLED"
        BY <2>1, <3>1, <3>2, SequencingKeepsOrder
    <3>4. Lifecycle!Before(r) = prior[c]
        BY <3>1 DEF Lifecycle!Before, OfMandate
    <3>5. Lifecycle!InOrder(r)
        BY <3>3, <3>4 DEF Lifecycle!InOrder, Lifecycle!Settled
    <3>6. QED
        BY <1>2, <2>1, <3>5 DEF Lifecycle!Next, Lifecycle!Emit
  <2>4. QED
      BY <2>2, <2>3
<1>3. ASSUME NEW c \in Call, ReadPrior(c)
      PROVE  UNCHANGED <<index, raced>> \/ Lifecycle!Next
  <2>1. job[c].receipt \in Receipt
      BY <1>3 DEF VerifierInv, Calls, UnderWay, ReadPrior, Job
  <2>2. UNCHANGED index /\ (UNCHANGED raced \/ raced' = raced \cup {job[c].receipt.mandate})
      BY <1>3 DEF ReadPrior
  <2>3. QED
      BY <2>1, <2>2 DEF Lifecycle!Next, Lifecycle!Race
<1>4. UNCHANGED raced \/ \E c \in Call : ReadPrior(c)
    BY DEF VerifierNext, Verify, FetchAndVerify, Begin, FetchThrows, Conclude, vars
<1>5. QED
    BY <1>1, <1>2, <1>3, <1>4, IndexGrowsByPassing

(* The verifier implements the promise about a mandate's lifecycle.        *)
THEOREM VerifierKeepsLifecycle == VerifierSpec => LifecycleKept
<1>1. VerifierInit => Lifecycle!Init
    BY DEF VerifierInit, Lifecycle!Init
<1>2. VerifierInv /\ VerifierInv' /\ [VerifierNext]_vars => [Lifecycle!Next]_Lifecycle!vars
    BY StepKeepsLifecycle
<1>3. QED
    BY <1>1, <1>2, VerifierInvHolds, PTL DEF VerifierSpec, LifecycleKept, Lifecycle!Spec

------------------------------------------------------------------------------
(* What a decision rests on.                                               *)

Passes(c) ==
    /\ stage[c] = "read"
    /\ "none" \in RefusalsOf(c)
    /\ decision'[c] = [ok |-> TRUE, class |-> ClassForOk(job[c].receipt.outcome)]

(* A decision stays, and one that lets a receipt pass is a call's that     *)
(* passed every check.                                                     *)
LEMMA OkIsPassed ==
    ASSUME VerifierInv, [VerifierNext]_vars, NEW c \in Call, decision'[c].ok
    PROVE  /\ UNCHANGED job[c]
           /\ decision'[c] = decision[c] \/ Passes(c)
           /\ index \subseteq index'
<1> USE DEF VerifierInv, VerifierTypeOK
<1>1. CASE UNCHANGED vars
    BY <1>1 DEF vars
<1>2. index \subseteq index'
    BY IndexGrowsByPassing
<1>3. ASSUME NEW d \in Call, NEW j \in Asked, Begin(d, j)
      PROVE  UNCHANGED job[c] /\ decision'[c] = decision[c]
  <2>1. CASE d # c
      BY <1>3, <2>1 DEF Begin, Reject
  <2>2. CASE d = c
    <3>1. decision[c] = Undecided
        BY <1>3, <2>2 DEF Begin
    <3>2. decision'[c].ok = FALSE
        BY <1>3, <2>2, <3>1 DEF Begin, Reject, Undecided
    <3>3. QED
        BY <3>2
  <2>3. QED
      BY <2>1, <2>2
<1>4. ASSUME NEW d \in Call, FetchThrows(d)
      PROVE  UNCHANGED job[c] /\ decision'[c] = decision[c]
    BY <1>4 DEF FetchThrows
<1>5. ASSUME NEW d \in Call, ReadPrior(d)
      PROVE  UNCHANGED job[c] /\ decision'[c] = decision[c]
    BY <1>5 DEF ReadPrior, Reject
<1>6. ASSUME NEW d \in Call, Conclude(d)
      PROVE  UNCHANGED job[c] /\ (decision'[c] = decision[c] \/ Passes(c))
  <2>1. PICK refusal \in RefusalsOf(d) :
            \/ refusal # "none" /\ Reject(d, refusal)
            \/ /\ refusal = "none"
               /\ decision' = [decision EXCEPT ![d] =
                     [ok |-> TRUE, class |-> ClassForOk(job[d].receipt.outcome)]]
      BY <1>6 DEF Conclude
  <2>2. stage[d] = "read" /\ UNCHANGED job
      BY <1>6 DEF Conclude
  <2>3. CASE d # c
      BY <2>1, <2>2, <2>3 DEF Reject
  <2>4. CASE d = c /\ refusal # "none"
    <3>1. decision'[c].ok = FALSE
        BY <2>1, <2>4 DEF Reject
    <3>2. QED
        BY <3>1
  <2>5. CASE d = c /\ refusal = "none"
      BY <2>1, <2>2, <2>5 DEF Passes
  <2>6. QED
      BY <2>3, <2>4, <2>5
<1>7. QED
    BY <1>1, <1>2, <1>3, <1>4, <1>5, <1>6 DEF VerifierNext, Verify, FetchAndVerify

(* A dispute that passes had something to dispute, and in time.            *)
LEMMA PassedDisputeHasSettlement ==
    ASSUME VerifierInv, NEW c \in Call, Passes(c), job[c].receipt.outcome = "DISPUTED"
    PROVE  /\ ~job[c].fresh
           /\ \E s \in SettledIn(index) :
                 /\ s.mandate = job[c].receipt.mandate
                 /\ s.seq < job[c].receipt.seq
                 /\ job[c].receipt.settledAt - s.settledAt \in 0..(DisputeWindowMs \div 1000)
<1> DEFINE r == job[c].receipt
<1>1. r \in Receipt /\ prior[c] \in SUBSET Receipt
    BY DEF Passes, VerifierInv, VerifierTypeOK, Calls, UnderWay, Job
<1>2. "none" \in Sequencing(r, prior[c])
    BY PassedEveryCheck DEF Passes, RefusalsOf
<1>3. PICK s \in LatestSettled(prior[c]) : InDisputeWindow(r, s)
    BY <1>1, <1>2, SequencingKeepsOrder
<1>4. s \in prior[c] /\ s \in SettledIn(prior[c])
    BY DEF LatestSettled, SettledIn
<1>5. s \in OfMandate(r, KnownTo(c))
    BY <1>4 DEF Passes, VerifierInv, Calls, PriorKnown
<1>6. ~job[c].fresh /\ s \in index /\ s.mandate = r.mandate
    BY <1>5 DEF OfMandate, KnownTo
<1>7. s.seq < r.seq
    BY <1>1, <1>2, <1>4, SequencingKeepsOrder
<1>8. r.settledAt - s.settledAt \in 0..(DisputeWindowMs \div 1000)
  <2>1. s.settledAt \in Nat /\ r.settledAt \in Nat /\ DisputeWindowMs \in Nat
      BY <1>1, <1>4, VerifierAssumption
  <2>2. s.settledAt <= r.settledAt /\ (r.settledAt - s.settledAt) * 1000 <= DisputeWindowMs
      BY <1>3 DEF InDisputeWindow
  <2>3. QED
      BY <2>1, <2>2
<1>9. QED
    BY <1>4, <1>6, <1>7, <1>8 DEF SettledIn

(* A dispute passes only where there was a settlement to dispute.          *)
THEOREM DisputesHaveSettlements == VerifierSpec => []DisputeHasSettlement
<1>1. VerifierInit => DisputeHasSettlement
    BY DEF VerifierInit, DisputeHasSettlement, Undecided
<1>2. ASSUME VerifierInv, DisputeHasSettlement, [VerifierNext]_vars
      PROVE  DisputeHasSettlement'
  <2> SUFFICES ASSUME NEW c \in Call, decision'[c].ok, job'[c].receipt.outcome = "DISPUTED"
               PROVE  /\ ~job'[c].fresh
                      /\ \E s \in SettledIn(index') :
                            /\ s.mandate = job'[c].receipt.mandate
                            /\ s.seq < job'[c].receipt.seq
                            /\ job'[c].receipt.settledAt - s.settledAt
                                   \in 0..(DisputeWindowMs \div 1000)
      BY DEF DisputeHasSettlement, SettledIn
  <2>1. UNCHANGED job[c] /\ index \subseteq index' /\ (decision'[c] = decision[c] \/ Passes(c))
      BY <1>2, OkIsPassed
  <2>2. \A s \in SettledIn(index) : s \in SettledIn(index')
      BY <2>1 DEF SettledIn
  <2>3. CASE decision'[c] = decision[c]
      BY <1>2, <2>1, <2>2, <2>3 DEF DisputeHasSettlement
  <2>4. CASE Passes(c)
      BY <1>2, <2>1, <2>2, <2>4, PassedDisputeHasSettlement
  <2>5. QED
      BY <2>1, <2>3, <2>4
<1>3. QED
    BY <1>1, <1>2, VerifierInvHolds, PTL DEF VerifierSpec

(* Whoever attests a requirement attests the signer's own standing.        *)
LEMMA AttestedIsTheSigners ==
    ASSUME NEW cap, NEW m, NEW r, NEW atts, NEW time, cap.value \in Nat, m.signedBy = m.signer,
           Attested(cap, m, r, atts, time)
    PROVE  \E a \in atts : /\ a.subject = m.signedBy
                           /\ a.signedBy \in TrustedIssuers[a.family]
                           /\ a.family = cap.family
                           /\ cap.family = "kyc" => cap.value <= a.value
                           /\ a.issuedAt <= time
                           /\ a.expiresAt = 0 \/ time <= a.expiresAt
<1>1. PICK a \in atts : Satisfies(cap, Granted(a)) /\ ValidCR2(a, m, r, time)
    BY DEF Attested
<1>2. a.family = cap.family /\ (cap.family = "kyc" => cap.value <= a.value)
  <2>1. CASE cap = Granted(a)
      BY <2>1 DEF Granted
  <2>2. CASE Dominates(cap, Granted(a))
      BY <2>2 DEF Dominates, Granted, AscendingEnum
  <2>3. QED
      BY <1>1, <2>1, <2>2 DEF Satisfies
<1>3. QED
    BY <1>1, <1>2 DEF ValidCR2, IssuedByTrusted, ExpectedSubject

LEMMA PassedIsPaidAndAttested ==
    ASSUME VerifierInv, NEW c \in Call, Passes(c), decision'[c].class = "ACCEPT"
    PROVE  PaidAndAttested(job[c].mandate, job[c].receipt, job[c].attestations, job[c].now)
<1> DEFINE m == job[c].mandate
           r == job[c].receipt
           atts == job[c].attestations
           time == job[c].now
<1>1. m \in Mandate /\ r \in Receipt /\ RefusalUnread(m, r) = "none"
    BY DEF Passes, VerifierInv, Calls, UnderWay, Job
<1>2. /\ ProofHolds(m, r) /\ ~Late(m, r)
      /\ CapabilityRefusals(m, r, atts, time) = {"none"}
    BY PassedEveryCheck DEF Passes, RefusalsOf
<1>3. SignerGranted(m) /\ m.requires = m.committed
    BY <1>1 DEF RefusalUnread, PhaseA
<1>4. r.outcome = "SETTLED"
    BY DEF Passes, ClassForOk
<1>5. r.settledAt <= m.deadline
    BY <1>1, <1>2, <1>4, VerifierAssumption DEF Late
<1>6. ASSUME NEW cap \in m.committed
      PROVE  cap.value \in Nat /\ Attested(cap, m, r, atts, time)
    BY <1>1, <1>2, <1>3, CapabilitiesAttested, VerifierAssumption
<1>7. QED
    BY <1>2, <1>3, <1>4, <1>5, <1>6, AttestedIsTheSigners
       DEF ProofHolds, SignerGranted, PaidAndAttested

(* ACCEPT means paid as signed, and attested for whoever signed.           *)
THEOREM AcceptsArePaidAndAttested == VerifierSpec => []AcceptMeansPaidAndAttested
<1>1. VerifierInit => AcceptMeansPaidAndAttested
    BY DEF VerifierInit, AcceptMeansPaidAndAttested, Undecided
<1>2. ASSUME VerifierInv, AcceptMeansPaidAndAttested, [VerifierNext]_vars
      PROVE  AcceptMeansPaidAndAttested'
  <2> SUFFICES ASSUME NEW c \in Call, decision'[c] = [ok |-> TRUE, class |-> "ACCEPT"]
               PROVE  PaidAndAttested(job'[c].mandate, job'[c].receipt, job'[c].attestations,
                                      job'[c].now)
      BY DEF AcceptMeansPaidAndAttested
  <2>1. decision'[c].ok /\ decision'[c].class = "ACCEPT"
      OBVIOUS
  <2>2. UNCHANGED job[c] /\ (decision'[c] = decision[c] \/ Passes(c))
      BY <1>2, <2>1, OkIsPassed
  <2>3. CASE decision'[c] = decision[c]
    <3>1. decision[c] = [ok |-> TRUE, class |-> "ACCEPT"]
        BY <2>3
    <3>2. PaidAndAttested(job[c].mandate, job[c].receipt, job[c].attestations, job[c].now)
        BY <1>2, <3>1 DEF AcceptMeansPaidAndAttested
    <3>3. QED
        BY <2>2, <3>2
  <2>4. CASE Passes(c)
      BY <1>2, <2>1, <2>2, <2>4, PassedIsPaidAndAttested
  <2>5. QED
      BY <2>2, <2>3, <2>4
<1>3. QED
    BY <1>1, <1>2, VerifierInvHolds, PTL DEF VerifierSpec

------------------------------------------------------------------------------
(* PERMANENT is for good.  Whatever a call was refused for good for can    *)
(* still be seen in its arguments, in what it had read, or in the index.   *)

(* An unraced mandate's receipts have their own numbers, and one settles.  *)
Ordered ==
    \A e, f \in index : e.mandate = f.mandate /\ e.mandate \notin raced /\ e # f =>
        e.seq # f.seq /\ ~(e.outcome = "SETTLED" /\ f.outcome = "SETTLED")

Doomed(c) ==
    LET m == job[c].mandate
        r == job[c].receipt
    IN  \/ RefusalUnread(m, r) # "none"
        \/ Equivocates(r, index)
        \/ ~ProofHolds(m, r) \/ Late(m, r)
        \/ "PERMANENT" \in Sequencing(r, prior[c])
        \/ TakenByOther(r, index)

Sound(c) ==
    LET m == job[c].mandate
        r == job[c].receipt
    IN  /\ m \in Mandate /\ r \in Receipt
        /\ RefusalUnread(m, r) = "none"
        /\ ProofHolds(m, r) /\ ~Late(m, r)
        /\ "none" \in Sequencing(r, prior[c])
        /\ prior[c] \subseteq OfMandate(r, KnownTo(c))
        /\ ~job[c].fresh => r \in index

DecisionExplained(c) ==
    stage[c] = "done" =>
        /\ decision[c].ok => Sound(c)
        /\ ~decision[c].ok /\ decision[c].class = "PERMANENT" => Doomed(c)

FinalInv == Ordered /\ \A c \in Call : DecisionExplained(c)

LEMMA OrderedInductive ==
    ASSUME VerifierInv, Ordered, [VerifierNext]_vars
    PROVE  Ordered'
<1>1. raced \subseteq raced'
    BY DEF VerifierNext, Verify, FetchAndVerify, Begin, FetchThrows, ReadPrior, Conclude, vars
<1>2. CASE UNCHANGED index
    BY <1>1, <1>2 DEF Ordered
<1>3. ASSUME NEW c \in Call, Reading(c), "none" \in RefusalsOf(c),
             index' = index \cup {job[c].receipt}, UNCHANGED raced
      PROVE  Ordered'
  <2> DEFINE r == job[c].receipt
  <2>1. r \in Receipt
      BY <1>3 DEF VerifierInv, Calls, UnderWay, Reading, Job
  <2>2. ASSUME r.mandate \notin raced, NEW e \in index, e.mandate = r.mandate
        PROVE  e.seq # r.seq /\ ~(e.outcome = "SETTLED" /\ r.outcome = "SETTLED")
    <3>1. prior[c] = OfMandate(r, index) /\ prior[c] \in SUBSET Receipt
        BY <1>3, <2>2 DEF VerifierInv, ReaderAlone, VerifierTypeOK
    <3>2. "none" \in Sequencing(r, prior[c])
        BY <1>3, PassedEveryCheck DEF RefusalsOf
    <3>3. e \in prior[c] /\ e \in Receipt
        BY <2>2, <3>1 DEF OfMandate
    <3>4. e.seq < r.seq /\ (r.outcome = "DISPUTED" <=> \E f \in prior[c] : f.outcome = "SETTLED")
        BY <2>1, <3>1, <3>2, <3>3, SequencingKeepsOrder
    <3>5. QED
        BY <2>1, <3>3, <3>4, VerifierAssumption
  <2>3. QED
      BY <1>3, <2>2 DEF Ordered
<1>4. QED
    BY <1>2, <1>3, IndexGrowsByPassing

(* A decision's reasons last.                                              *)
LEMMA DecisionLasts ==
    ASSUME VerifierInv, [VerifierNext]_vars, NEW c \in Call, stage[c] = "done", DecisionExplained(c)
    PROVE  DecisionExplained(c)'
<1>1. UNCHANGED <<stage[c], job[c], prior[c], decision[c]>>
    BY DEF VerifierNext, Verify, FetchAndVerify, Begin, FetchThrows, ReadPrior, Conclude, Reject,
           VerifierInv, VerifierTypeOK, vars
<1>2. index \subseteq index'
    BY IndexGrowsByPassing
<1>3. Sound(c) => Sound(c)'
    BY <1>1, <1>2 DEF Sound, OfMandate, KnownTo
<1>4. Doomed(c) => Doomed(c)'
    BY <1>1, <1>2 DEF Doomed, Equivocates, OfMandate, TakenByOther
<1>5. QED
    BY <1>1, <1>3, <1>4 DEF DecisionExplained

(* Where a call is refused for good between its reading and its entry.     *)
LEMMA RefusedForGood ==
    ASSUME NEW m, NEW r, NEW atts, NEW time, NEW seen, NEW known,
           "PERMANENT" \in Refusals(m, r, atts, time, seen, known)
    PROVE  \/ ~ProofHolds(m, r)
           \/ Late(m, r)
           \/ "PERMANENT" \in Sequencing(r, seen)
           \/ TakenByOther(r, known)
<1>1. SUFFICES ASSUME ProofHolds(m, r), ~Late(m, r), ~TakenByOther(r, known)
               PROVE  "PERMANENT" \in Sequencing(r, seen)
    OBVIOUS
<1>2. "PERMANENT" \notin CapabilityRefusals(m, r, atts, time)
    BY DEF CapabilityRefusals
<1>3. "PERMANENT" \in {IF refusal = "none" /\ TakenByOther(r, known) THEN "PERMANENT" ELSE refusal :
                          refusal \in Sequencing(r, seen)}
    BY <1>1, <1>2 DEF Refusals
<1>4. QED
    BY <1>1, <1>3

(* A call decides when it is refused its arguments, when it reads the      *)
(* index, or at its end.                                                   *)
LEMMA DecidingIsExplained ==
    ASSUME VerifierInv, [VerifierNext]_vars, NEW c \in Call, stage[c] # "done"
    PROVE  DecisionExplained(c)'
<1> USE DEF VerifierInv, VerifierTypeOK
<1> SUFFICES ASSUME stage'[c] = "done"
             PROVE  /\ decision'[c].ok => Sound(c)'
                    /\ ~decision'[c].ok /\ decision'[c].class = "PERMANENT" => Doomed(c)'
    BY DEF DecisionExplained
<1>1. ASSUME NEW j \in Asked, Begin(c, j)
      PROVE  /\ decision'[c].ok => Sound(c)'
             /\ ~decision'[c].ok /\ decision'[c].class = "PERMANENT" => Doomed(c)'
  <2>1. RefusalUnread(j.mandate, j.receipt) # "none" /\ job'[c] = j
      BY <1>1, AskedAssumption DEF Begin
  <2>2. decision'[c].ok = FALSE
      BY <1>1, <2>1 DEF Begin, Reject
  <2>3. Doomed(c)'
      BY <2>1 DEF Doomed
  <2>4. QED
      BY <2>2, <2>3
<1>2. ASSUME ReadPrior(c)
      PROVE  /\ decision'[c].ok => Sound(c)'
             /\ ~decision'[c].ok /\ decision'[c].class = "PERMANENT" => Doomed(c)'
  <2> DEFINE refusal == RefusalAtIndex(job[c].receipt, KnownTo(c))
  <2>1. Reject(c, refusal) /\ UNCHANGED <<job, index>>
      BY <1>2 DEF ReadPrior
  <2>2. decision'[c] = [ok |-> FALSE, class |-> refusal]
      BY <2>1 DEF Reject
  <2>3. ASSUME refusal = "PERMANENT" PROVE Doomed(c)'
    <3>1. Equivocates(job[c].receipt, KnownTo(c))
        BY <2>3 DEF RefusalAtIndex
    <3>2. Equivocates(job'[c].receipt, index')
        BY <2>1, <3>1 DEF Equivocates, OfMandate, KnownTo
    <3>3. QED
        BY <3>2 DEF Doomed
  <2>4. QED
      BY <2>2, <2>3
<1>3. ASSUME Conclude(c)
      PROVE  /\ decision'[c].ok => Sound(c)'
             /\ ~decision'[c].ok /\ decision'[c].class = "PERMANENT" => Doomed(c)'
  <2> DEFINE r == job[c].receipt
  <2>1. PICK refusal \in RefusalsOf(c) :
            \/ /\ refusal # "none"
               /\ Reject(c, refusal)
               /\ UNCHANGED index
            \/ /\ refusal = "none"
               /\ decision' = [decision EXCEPT ![c] = [ok |-> TRUE, class |-> ClassForOk(r.outcome)]]
               /\ index' = IF job[c].fresh THEN index ELSE index \cup {r}
      BY <1>3 DEF Conclude
  <2>2. /\ stage[c] = "read" /\ UNCHANGED <<job, prior>>
        /\ job[c] \in Job /\ RefusalUnread(job[c].mandate, r) = "none"
        /\ prior[c] \subseteq OfMandate(r, KnownTo(c))
      BY <1>3 DEF Conclude, Calls, UnderWay, PriorKnown
  <2>3. CASE refusal # "none"
    <3>1. decision'[c] = [ok |-> FALSE, class |-> refusal] /\ UNCHANGED index
        BY <2>1, <2>3 DEF Reject
    <3>2. ASSUME refusal = "PERMANENT" PROVE Doomed(c)'
      <4>1. \/ ~ProofHolds(job[c].mandate, r) \/ Late(job[c].mandate, r)
            \/ "PERMANENT" \in Sequencing(r, prior[c])
            \/ TakenByOther(r, KnownTo(c))
          BY <2>1, <3>2, RefusedForGood DEF RefusalsOf
      <4>2. TakenByOther(r, KnownTo(c)) => TakenByOther(r, index)
          BY DEF TakenByOther, KnownTo
      <4>3. QED
          BY <2>2, <3>1, <4>1, <4>2 DEF Doomed
    <3>3. QED
        BY <3>1, <3>2
  <2>4. CASE refusal = "none"
    <3>1. /\ decision'[c] = [ok |-> TRUE, class |-> ClassForOk(r.outcome)]
          /\ index' = IF job[c].fresh THEN index ELSE index \cup {r}
        BY <2>1, <2>4
    <3>2. /\ ProofHolds(job[c].mandate, r) /\ ~Late(job[c].mandate, r)
          /\ "none" \in Sequencing(r, prior[c])
        BY <2>1, <2>4, PassedEveryCheck DEF RefusalsOf
    <3>3. job[c].mandate \in Mandate /\ r \in Receipt
        BY <2>2 DEF Job
    <3>4. prior[c] \subseteq OfMandate(r, KnownTo(c))' /\ (~job[c].fresh => r \in index')
        BY <2>2, <3>1 DEF OfMandate, KnownTo
    <3>5. Sound(c)'
        BY <2>2, <3>2, <3>3, <3>4 DEF Sound, OfMandate, KnownTo
    <3>6. QED
        BY <3>1, <3>5
  <2>5. QED
      BY <2>3, <2>4
<1>4. \/ \E j \in Asked : Begin(c, j)
      \/ ReadPrior(c)
      \/ Conclude(c)
  <2>1. ~UNCHANGED stage[c]
      OBVIOUS
  <2>2. \A d \in Call \ {c} : /\ \A j \in Asked : Begin(d, j) => UNCHANGED stage[c]
                              /\ FetchThrows(d) => UNCHANGED stage[c]
                              /\ ReadPrior(d) => UNCHANGED stage[c]
                              /\ Conclude(d) => UNCHANGED stage[c]
      BY DEF Begin, FetchThrows, ReadPrior, Conclude, Reject
  <2>3. ~FetchThrows(c)
      BY DEF FetchThrows
  <2>4. QED
      BY <2>1, <2>2, <2>3 DEF VerifierNext, Verify, FetchAndVerify, vars
<1>5. QED
    BY <1>1, <1>2, <1>3, <1>4

(* Whatever sequencing refused for good, it refuses to whoever knows more. *)
LEMMA SequencingIsFinal ==
    ASSUME NEW r \in Receipt, NEW seen \in SUBSET Receipt, NEW more \in SUBSET Receipt,
           seen \subseteq more,
           \A s, t \in SettledIn(more) : s = t,
           "PERMANENT" \in Sequencing(r, seen)
    PROVE  "none" \notin Sequencing(r, more)
<1>1. SUFFICES ASSUME "none" \in Sequencing(r, more) PROVE FALSE
    OBVIOUS
<1>2. \A e \in more : e.seq < r.seq
    BY <1>1, SequencingKeepsOrder
<1>3. ~Stale(r, seen)
    BY <1>2, VerifierAssumption DEF Stale
<1>4. CASE r.outcome = "DISPUTED"
  <2>1. PICK t \in LatestSettled(more) : InDisputeWindow(r, t)
      BY <1>1, <1>4, SequencingKeepsOrder
  <2>2. t \in SettledIn(more) /\ t.seq < r.seq
      BY <1>2, <2>1 DEF LatestSettled, SettledIn
  <2>3. r.seq > 0
      BY <2>2, VerifierAssumption DEF SettledIn
  <2>4. SettledIn(seen) # {}
      BY <1>3, <1>4, <2>3 DEF Sequencing, NothingToDispute
  <2>5. PICK s \in LatestSettled(seen) : ~InDisputeWindow(r, s)
      BY <1>3, <1>4, <2>4 DEF Sequencing
  <2>6. s \in SettledIn(more)
      BY <2>5 DEF LatestSettled, SettledIn
  <2>7. QED
      BY <2>1, <2>2, <2>5, <2>6
<1>5. CASE r.outcome # "DISPUTED"
  <2>1. \E e \in seen : e.outcome \in {"SETTLED", "DISPUTED"}
      BY <1>3, <1>5 DEF Sequencing
  <2>2. QED
      BY <1>1, <1>5, <2>1 DEF Sequencing
<1>6. QED
    BY <1>4, <1>5

LEMMA ExplainedIsFinal ==
    ASSUME VerifierInv, FinalInv, TransferPaysOneMandate
    PROVE  PermanentIsFinal
<1> SUFFICES ASSUME NEW c \in Call, NEW d \in Call, Decided(c), Decided(d),
                    job[c].mandate = job[d].mandate, job[c].receipt = job[d].receipt,
                    prior[c] \subseteq prior[d], ~job[d].fresh,
                    job[c].receipt.mandate \notin raced,
                    ~decision[c].ok, decision[c].class = "PERMANENT", decision[d].ok
             PROVE  FALSE
    BY DEF PermanentIsFinal
<1> DEFINE r == job[c].receipt
<1>1. Doomed(c) /\ Sound(d)
    BY DEF FinalInv, DecisionExplained, Decided
<1>2. r \in Receipt /\ r \in index /\ prior[d] \subseteq OfMandate(r, index)
    BY <1>1 DEF Sound, KnownTo
<1>3. prior[c] \in SUBSET Receipt /\ prior[d] \in SUBSET Receipt
    BY DEF VerifierInv, VerifierTypeOK
<1>4. ~Equivocates(r, index)
    BY <1>2 DEF Equivocates, OfMandate, FinalInv, Ordered
<1>5. ~TakenByOther(r, index)
    BY <1>2 DEF TakenByOther, TransferPaysOneMandate
<1>6. \A s, t \in SettledIn(prior[d]) : s = t
    BY <1>2 DEF SettledIn, OfMandate, FinalInv, Ordered
<1>7. "PERMANENT" \notin Sequencing(r, prior[c])
    BY <1>1, <1>2, <1>3, <1>6, SequencingIsFinal DEF Sound
<1>8. QED
    BY <1>1, <1>4, <1>5, <1>7 DEF Doomed, Sound

(* A refusal for good is for good, for whoever has seen as much.           *)
THEOREM RefusalsAreFinal == VerifierSpec => []PermanentIsFinal
<1>1. VerifierInit => FinalInv
    BY DEF VerifierInit, FinalInv, Ordered, DecisionExplained
<1>2. ASSUME VerifierInv, FinalInv, [VerifierNext]_vars
      PROVE  FinalInv'
  <2>1. Ordered'
      BY <1>2, OrderedInductive DEF FinalInv
  <2>2. \A c \in Call : DecisionExplained(c)'
      BY <1>2, DecisionLasts, DecidingIsExplained DEF FinalInv
  <2>3. QED
      BY <2>1, <2>2 DEF FinalInv
<1>3. VerifierInv /\ FinalInv /\ TransferPaysOneMandate => PermanentIsFinal
    BY ExplainedIsFinal
<1>4. QED
    BY <1>1, <1>2, <1>3, VerifierInvHolds, TransfersPayOneMandate, PTL DEF VerifierSpec
==============================================================================
