---------------------------- MODULE MCHspVerifier ----------------------------
(***************************************************************************)
(* Two sound mandates of one payer, one of which requires full KYC, and    *)
(* four that fail a check of their own; receipts that settle, attempt,     *)
(* dispute, contradict and reuse one another; three calls.                 *)
(***************************************************************************)
EXTENDS HspVerifier, TLC

CONSTANTS c1, c2, c3

M1 == [hash |-> "m1", chainId |-> 133, requires |-> {KycFull}, committed |-> {KycFull},
       profile |-> "eip712-eoa", signer |-> "payer", signedBy |-> "payer",
       recipient |-> [kind |-> "ADDRESS", id |-> "payee"], token |-> "usdc",
       amount |-> 2, deadline |-> 40]
M2 == [M1 EXCEPT !.hash = "m2", !.requires = {KycBasic}, !.committed = {KycBasic}]
Forged     == [M1 EXCEPT !.signedBy = "other"]
Stripped   == [M1 EXCEPT !.requires = {}]
OtherChain == [M1 EXCEPT !.hash = "m3", !.chainId = 0]
Hiding     == [M2 EXCEPT !.hash = "m4", !.requires = {HidesAmount}, !.committed = {HidesAmount}]
MCMandate == {M1, M2, Forged, Stripped, OtherChain, Hiding}

Settled1 == [hash |-> "s1", mandate |-> "m1", adapter |-> "evm-transfer", signedBy |-> "adapter",
             seq |-> 1, outcome |-> "SETTLED", settledAt |-> 0, proofSchema |-> "evm-transfer",
             proof |-> [from |-> "payer", to |-> "payee", token |-> "usdc", chainId |-> 133,
                        value |-> 2, txHash |-> "t1"]]
Attempted1 == [Settled1 EXCEPT !.hash = "a1", !.seq = 0, !.outcome = "ATTEMPTED"]
Settled1b  == [Settled1 EXCEPT !.hash = "s1b", !.settledAt = 30, !.proof.txHash = "t2"]
Disputed1  == [Settled1 EXCEPT !.hash = "d1", !.seq = 2, !.outcome = "DISPUTED", !.settledAt = 30]
TooLate1   == [Disputed1 EXCEPT !.hash = "d1b", !.seq = 3, !.settledAt = 31]
Disputed0  == [Disputed1 EXCEPT !.hash = "d0", !.seq = 0]
Settled2   == [Settled1 EXCEPT !.hash = "s2", !.mandate = "m2"]
Failed2    == [Settled2 EXCEPT !.hash = "f2", !.seq = 2, !.outcome = "FAILED", !.proof.txHash = "t3"]
Overdue2   == [Settled2 EXCEPT !.hash = "o2", !.settledAt = 41]
Partial2   == [Settled2 EXCEPT !.hash = "p2", !.proof.value = 1]
Stranger2  == [Settled2 EXCEPT !.hash = "x2", !.signedBy = "other"]
OldSchema2 == [Settled2 EXCEPT !.hash = "y2", !.proofSchema = "other"]
Hiding4    == [Settled2 EXCEPT !.hash = "h4", !.mandate = "m4"]
MCReceipt == {Settled1, Attempted1, Settled1b, Disputed1, TooLate1, Disputed0, Settled2, Failed2,
              Overdue2, Partial2, Stranger2, OldSchema2, Hiding4}

Full  == [capability |-> KycFull, family |-> "kyc", value |-> 1, issuer |-> "issuer",
          signedBy |-> "issuer", subject |-> "payer", issuedAt |-> 1, expiresAt |-> 2, context |-> "none"]
Basic == [Full EXCEPT !.capability = KycBasic, !.value = 0, !.expiresAt = 0]
Misnamed == [Full EXCEPT !.value = 0]
SelfMade == [Full EXCEPT !.issuer = "payer", !.signedBy = "payer"]
Pretended == [Full EXCEPT !.signedBy = "payer"]
OfOther == [Full EXCEPT !.subject = "payee", !.expiresAt = 0]
OtherContext == [Full EXCEPT !.context = "m9"]
MCAttestationList == {{Full}, {Basic}, {Misnamed, SelfMade, Pretended, OfOther, OtherContext}}

MCTrustedIssuers == [f \in AttestedFamily |-> IF f = "risk-score" THEN {} ELSE {"issuer"}]

Ask(ms, rs, lists, times, fresh) ==
    [mandate : ms, receipt : rs, attestations : lists, now : times, fresh : fresh]

MCAsked ==
    Ask({M1}, {Settled1, Attempted1, Settled1b, Disputed1, TooLate1, Disputed0}, {{Full}}, {2}, BOOLEAN)
    \cup Ask({M1, M2}, {Settled1, Settled2}, MCAttestationList, {0, 2, 3}, {FALSE})
    \cup Ask({M2}, {Failed2, Overdue2, Partial2, Stranger2, OldSchema2}, {{Basic}}, {2}, {FALSE})
    \cup Ask(MCMandate, {Settled1, Hiding4}, {{Full}}, {2}, {TRUE})
MCSymmetry == Permutations(Call)
==============================================================================
