---------------------------- MODULE MCKycIssuance ----------------------------
(***************************************************************************)
(* Two requests, which may be alike.  Of those for a report one is sound,  *)
(* two, of which one is for the same report, have a level that is no       *)
(* uint8, one names a task that did not pass, one another template.  The   *)
(* owner is an issuer too.                                                 *)
(***************************************************************************)
EXTENDS KycIssuance, TLC

CONSTANTS owner, backend, ann, bob, zero, q1, q2, rep1, rep2, good, odd, failed, demo, none

MCAddress == {owner, backend, ann, bob}
MCIssuers == {owner, backend}
MCTaskLevel == [t \in Task |-> IF t = odd THEN 256 ELSE 1]

First == [subject |-> ann, report |-> rep1, task |-> good, canonicalTemplate |-> TRUE]
MCBodies ==
    {First, [First EXCEPT !.subject = bob, !.task = odd],
     [First EXCEPT !.subject = bob, !.task = odd, !.report = rep2],
     [First EXCEPT !.task = failed], [First EXCEPT !.canonicalTemplate = FALSE]}

MCSymmetry == Permutations(Request)
==============================================================================
