CONSTANTS
    c1 = c1
    c2 = c2
    c3 = c3
    Call = {c1, c2, c3}
    Mandate <- MCMandate
    Receipt <- MCReceipt
    AttestationList <- MCAttestationList
    Asked <- MCAsked
    Nobody = "nobody"
    Adapter = "adapter"
    TrustedIssuers <- MCTrustedIssuers
    PolicyRequires = {}
    Admission = "accept-new"
    AllowsAttempted = TRUE
    DisputeWindowMs = 30000
SYMMETRY MCSymmetry
SPECIFICATION VerifierSpec
INVARIANT VerifierTypeOK
INVARIANT TransferPaysOneMandate
INVARIANT DisputeHasSettlement
INVARIANT PermanentIsFinal
INVARIANT AcceptMeansPaidAndAttested
PROPERTY LifecycleKept
CHECK_DEADLOCK FALSE
