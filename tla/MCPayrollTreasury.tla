-------------------------- MODULE MCPayrollTreasury --------------------------
(***************************************************************************)
(* The treasury and the registry on one chain.  adm deploys both, op is    *)
(* the treasury's operator, iss the registry's issuer; each run's cfg says *)
(* which inputs and hand-overs are considered.                             *)
(***************************************************************************)
EXTENDS PayrollTreasuryAudit, TLC

CONSTANTS adm, op, iss, alice, zero, noHash, m1, m2, m3

MCAddress     == {adm, op, iss, alice}
MCIssuers     == {iss}
MCSubjects    == {alice}
Nobody        == {}
Renounced     == {zero}
NextOperators == {iss}

(* Mandates are only ever compared with each other. *)
MandateSymmetry == Permutations(Mandate)
==============================================================================
