--------------------------- MODULE OwnablePausable ---------------------------
(***************************************************************************)
(* The two OpenZeppelin mixins both contracts inherit, Ownable2Step and    *)
(* Pausable, as the contracts under contracts/src use them.  The library   *)
(* is not part of the repository: this module is its external interface.   *)
(*                                                                         *)
(* A call that reverts leaves no trace on chain, so a guard that fails is  *)
(* an action that is not enabled.                                          *)
(***************************************************************************)
CONSTANTS
    Address,       \* externally owned and contract accounts, never the zero address
    ZeroAddress,   \* address(0)
    InitialOwner,  \* the constructor's argument
    NewOwners      \* bound: the accounts ownership is offered to; it is cancelled
                   \* or renounced only when ZeroAddress is one of them

VARIABLES
    owner,         \* ZeroAddress once renounced
    pendingOwner,  \* ZeroAddress when no transfer is under way
    paused

TypeOK ==
    /\ owner \in Address \cup {ZeroAddress}
    /\ pendingOwner \in Address \cup {ZeroAddress}
    /\ paused \in BOOLEAN

Init ==
    /\ owner = InitialOwner
    /\ pendingOwner = ZeroAddress
    /\ paused = FALSE

IsOwner(caller) == caller = owner /\ caller # ZeroAddress

OwnerCalls == owner # ZeroAddress

(* Offering ownership to ZeroAddress cancels an earlier offer. *)
TransferOwnership ==
    /\ OwnerCalls
    /\ pendingOwner' \in NewOwners
    /\ UNCHANGED <<owner, paused>>

AcceptOwnership ==
    /\ pendingOwner # ZeroAddress
    /\ owner' = pendingOwner
    /\ pendingOwner' = ZeroAddress
    /\ UNCHANGED paused

RenounceOwnership ==
    /\ OwnerCalls
    /\ ZeroAddress \in NewOwners
    /\ owner' = ZeroAddress
    /\ pendingOwner' = ZeroAddress
    /\ UNCHANGED paused

OwnershipStep == TransferOwnership \/ AcceptOwnership \/ RenounceOwnership

(* _pause() reverts when already paused, _unpause() when not paused. *)
Pause ==
    /\ OwnerCalls
    /\ ~paused
    /\ paused' = TRUE
    /\ UNCHANGED <<owner, pendingOwner>>

Unpause ==
    /\ OwnerCalls
    /\ paused
    /\ paused' = FALSE
    /\ UNCHANGED <<owner, pendingOwner>>
==============================================================================
