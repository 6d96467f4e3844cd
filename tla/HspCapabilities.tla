--------------------------- MODULE HspCapabilities ---------------------------
(***************************************************************************)
(* The capabilities a mandate requires and an attestation grants, and when *)
(* one will do for the other.  A capability is a family and the value of   *)
(* the family's parameter: for kyc the place of the level in its           *)
(* enumeration (basic, full), for risk-score the score, otherwise 0.  The  *)
(* role is left out: in the families that are registered it is the payer.  *)
(***************************************************************************)
EXTENDS Naturals

(* KYC_SCHEMA_ID, SANCTIONS_SCHEMA_ID and RISK_SCORE_SCHEMA_ID name the    *)
(* family their claims are of.                                             *)
AttestedFamily == {"kyc", "sanctions", "risk-score"}

AscendingEnum     == {"kyc"}         \* monotone-asc-enum
DescendingNumeric == {"risk-score"}  \* monotone-desc-numeric

KycBasic   == [family |-> "kyc", value |-> 0]
KycFull    == [family |-> "kyc", value |-> 1]
Sanctions  == [family |-> "sanctions", value |-> 0]
HidesAmount == [family |-> "hides-amount", value |-> 0]

(* A mutant: the enumeration read from the wrong end.                      *)
DominatesFromBelow(required, candidate) ==
    /\ required.family = candidate.family
    /\ required.family \in AscendingEnum => candidate.value <= required.value
    /\ required.family \in DescendingNumeric => candidate.value <= required.value
    /\ required.family \notin AscendingEnum \cup DescendingNumeric =>
           candidate.value = required.value

(* dominates: a higher level, or a lower maximal score, is the stronger.   *)
Dominates(required, candidate) ==
    /\ required.family = candidate.family
    /\ required.family \in AscendingEnum => required.value <= candidate.value
    /\ required.family \in DescendingNumeric => candidate.value <= required.value
    /\ required.family \notin AscendingEnum \cup DescendingNumeric =>
           candidate.value = required.value

Satisfies(required, candidate) ==
    \/ required = candidate
    \/ /\ required.family \in AscendingEnum \cup DescendingNumeric
       /\ Dominates(required, candidate)
==============================================================================
