------------------------- MODULE AttestationRegistry -------------------------
(***************************************************************************)
(* contracts/src/AttestationRegistry.sol: who may attest, what is attested *)
(* about whom, and when an attestation counts as valid.                    *)
(*                                                                         *)
(* One action is one successful transaction; a revert changes nothing.     *)
(* Block time is a counter that any number of transactions may share.      *)
(* Report and task hashes are left out: the contract stores them and never *)
(* reads them back.                                                        *)
(***************************************************************************)
EXTENDS Naturals

CONSTANTS
    Address, ZeroAddress,
    RegistryOwner, \* the constructor's initialOwner
    NewOwners,     \* bound: the accounts ownership is offered to
    Subjects,      \* bound: the accounts attestations are recorded about
    Issuers,       \* bound: the accounts the owner registers as issuers
    Capability,    \* capability ids (bytes32)
    Levels,        \* kycLevel inputs (uint8)
    Expiries,      \* expiresAt inputs; 0 means "never expires"
    Genesis,       \* block time of the deployment
    MaxTime        \* bound: the last block time considered

ASSUME RegistryAssumption ==
    /\ ZeroAddress \notin Address
    /\ RegistryOwner \in Address
    /\ NewOwners \subseteq Address \cup {ZeroAddress}
    /\ Subjects \subseteq Address
    /\ Issuers \subseteq Address
    /\ Levels \subseteq Nat
    /\ Expiries \subseteq Nat
    /\ Genesis \in Nat
    /\ MaxTime \in Nat

VARIABLES
    now,              \* block.timestamp
    issuers,          \* _issuers: the registered ones
    attestations,     \* _attestations[subject][capability]
    regOwner, regPendingOwner, regPaused

Admin == INSTANCE OwnablePausable WITH
            InitialOwner <- RegistryOwner, owner <- regOwner, pendingOwner <- regPendingOwner, paused <- regPaused

adminVars == <<regOwner, regPendingOwner, regPaused>>
registryVars == <<issuers, attestations, regOwner, regPendingOwner, regPaused>>
regVars == <<now, issuers, attestations, regOwner, regPendingOwner, regPaused>>

(* A mapping reads as the all-zero record where nothing was stored.        *)
(* revokedBy is history, the sender of the last revocation.                *)
EmptyAttestation ==
    [subject |-> ZeroAddress, issuer |-> ZeroAddress, kycLevel |-> 0,
     issuedAt |-> 0, expiresAt |-> 0, revoked |-> FALSE, revokedBy |-> ZeroAddress]

Attestation ==
    [subject : Address \cup {ZeroAddress}, issuer : Address \cup {ZeroAddress},
     kycLevel : Nat, issuedAt : Nat, expiresAt : Nat,
     revoked : BOOLEAN, revokedBy : Address \cup {ZeroAddress}]

RegistryTypeOK ==
    /\ now \in Nat
    /\ issuers \subseteq Address
    /\ attestations \in [Subjects -> [Capability -> Attestation]]
    /\ Admin!TypeOK

------------------------------------------------------------------------------
(* The views.                                                              *)

Exists(a) == a.subject # ZeroAddress

IsValidUnlessPaused(s, c) ==
    LET a == attestations[s][c] IN
    /\ ~regPaused
    /\ Exists(a)
    /\ ~a.revoked
    /\ a.expiresAt = 0 \/ a.expiresAt >= now
    /\ a.issuer \in issuers

IsValidIgnoringRevocation(s, c) ==
    LET a == attestations[s][c] IN
    /\ Exists(a)
    /\ a.revoked => now < a.expiresAt
    /\ a.expiresAt = 0 \/ a.expiresAt >= now
    /\ a.issuer \in issuers

IsValid(s, c) ==
    LET a == attestations[s][c] IN
    /\ Exists(a)
    /\ ~a.revoked
    /\ a.expiresAt = 0 \/ a.expiresAt >= now
    /\ a.issuer \in issuers

IsValidWithMinLevel(s, c, minLevel) ==
    IsValid(s, c) /\ attestations[s][c].kycLevel >= minLevel

------------------------------------------------------------------------------
(* The transactions.                                                       *)

RegistryInit ==
    /\ now = Genesis
    /\ issuers = {}
    /\ attestations = [s \in Subjects |-> [c \in Capability |-> EmptyAttestation]]
    /\ Admin!Init

RegisterIssuer(i) ==
    /\ Admin!OwnerCalls
    /\ i \notin issuers
    /\ issuers' = issuers \cup {i}
    /\ UNCHANGED <<now, attestations, adminVars>>

RevokeIssuer(i) ==
    /\ Admin!OwnerCalls
    /\ i \in issuers
    /\ issuers' = issuers \ {i}
    /\ UNCHANGED <<now, attestations, adminVars>>

(* Overwrites whatever was recorded before: another issuer's attestation,  *)
(* and the revoked flag with it.                                           *)
RecordAttestation(caller, s, c, level, expiry) ==
    /\ caller \in issuers
    /\ ~regPaused
    /\ attestations' = [attestations EXCEPT ![s][c] =
           [subject |-> s, issuer |-> caller, kycLevel |-> level,
            issuedAt |-> now, expiresAt |-> expiry, revoked |-> FALSE, revokedBy |-> ZeroAddress]]
    /\ UNCHANGED <<now, issuers, adminVars>>

RevokeByDeleting(caller, s, c) ==
    /\ caller \in issuers
    /\ Exists(attestations[s][c])
    /\ attestations' = [attestations EXCEPT ![s] = [k \in Capability \ {c} |-> @[k]]]
    /\ UNCHANGED <<now, issuers, adminVars>>

(* A mutant: any registered issuer may revoke.                             *)
AnyIssuerRevokes(caller, a) == caller \in issuers

MayRevoke(caller, a) == caller = a.issuer \/ Admin!IsOwner(caller)

(* The owner may revoke too, but only while it is a registered issuer; the *)
(* pause does not stop a revocation.                                       *)
RevokeAttestation(caller, s, c) ==
    /\ caller \in issuers
    /\ Exists(attestations[s][c])
    /\ MayRevoke(caller, attestations[s][c])
    /\ attestations' =
           [attestations EXCEPT ![s][c] = [@ EXCEPT !.revoked = TRUE, !.revokedBy = caller]]
    /\ UNCHANGED <<now, issuers, adminVars>>

PauseRegistry ==
    /\ Admin!Pause
    /\ UNCHANGED <<now, issuers, attestations>>

UnpauseRegistry ==
    /\ Admin!Unpause
    /\ UNCHANGED <<now, issuers, attestations>>

RegistryOwnership ==
    /\ Admin!OwnershipStep
    /\ UNCHANGED <<now, issuers, attestations>>

RegistryNext ==
    \/ \E i \in Issuers : RegisterIssuer(i) \/ RevokeIssuer(i)
    \/ \E caller \in issuers, s \in Subjects, c \in Capability :
          \/ \E level \in Levels, expiry \in Expiries :
                RecordAttestation(caller, s, c, level, expiry)
          \/ RevokeAttestation(caller, s, c)
    \/ PauseRegistry
    \/ UnpauseRegistry
    \/ RegistryOwnership

(* The chain's clock. *)
Mine ==
    /\ now < MaxTime
    /\ now' = now + 1
    /\ UNCHANGED registryVars

------------------------------------------------------------------------------
(* Properties.                                                             *)

Superseded(s, c) ==
    /\ attestations'[s][c] # attestations[s][c]
    /\ attestations'[s][c].issuedAt = now
    /\ attestations'[s][c].issuer \in issuers
    /\ ~attestations'[s][c].revoked
    /\ ~regPaused

(* isValid turns from false to true in two ways only: a registered issuer  *)
(* records the attestation anew while the registry is not paused, or the   *)
(* owner registers again the issuer of one that was neither revoked nor    *)
(* expired.  Time, pausing and the handover of ownership never do it.      *)
GainsValidityOnlyBy(s, c) ==
    ~IsValid(s, c) /\ IsValid(s, c)' =>
        \/ Superseded(s, c)
        \/ LET a == attestations[s][c] IN
           /\ a = attestations'[s][c]
           /\ ~a.revoked
           /\ a.issuer \in issuers' \ issuers
           /\ Admin!OwnerCalls

ValidityGainIsAccounted ==
    [][\A s \in Subjects, c \in Capability : GainsValidityOnlyBy(s, c)]_regVars

(* isValid turns from true to false only because its time has passed,      *)
(* which it never has where no time was set; because the owner removed its *)
(* issuer; because it was revoked, by a registered issuer that made it or  *)
(* that owns the registry; or because a registered issuer replaced it.  A  *)
(* pause never does it, nor what becomes of another issuer.                *)
LosesValidityOnlyBy(s, c) ==
    IsValid(s, c) /\ ~IsValid(s, c)' =>
        LET a == attestations[s][c] IN
        \/ Superseded(s, c)
        \/ /\ a = attestations'[s][c]
           /\ \/ a.expiresAt # 0 /\ now' > a.expiresAt
              \/ a.issuer \in issuers \ issuers' /\ Admin!OwnerCalls
        \/ \E sender \in issuers :
              /\ attestations'[s][c] = [a EXCEPT !.revoked = TRUE, !.revokedBy = sender]
              /\ sender \in {a.issuer, regOwner}
              /\ UNCHANGED issuers

ValidityLossIsAccounted ==
    [][\A s \in Subjects, c \in Capability : LosesValidityOnlyBy(s, c)]_regVars

(* contracts/test/fuzz/AttestationRegistry.fuzz.t.sol, lines 22-24: "valid *)
(* strictly before expiresAt, invalid at-or-after".                        *)
InvalidFromExpiryOn ==
    \A s \in Subjects, c \in Capability :
        LET a == attestations[s][c] IN
        a.expiresAt # 0 /\ now >= a.expiresAt => ~IsValid(s, c)

------------------------------------------------------------------------------
RegistrySpec == RegistryInit /\ [][RegistryNext \/ Mine]_regVars
==============================================================================
