------------------------ MODULE MCAttestationRegistry ------------------------
(***************************************************************************)
(* The registry alone.  ada owns it, bob may take it over or be given it   *)
(* back; both can be issuers, so an attestation may be replaced by the     *)
(* other issuer's, and the owner may be an issuer itself.                  *)
(***************************************************************************)
EXTENDS AttestationRegistry

CONSTANTS ada, bob, payee, zero

MCAddress   == {ada, bob, payee}
MCNewOwners == {bob, zero}
MCIssuers   == {ada, bob}
MCSubjects  == {payee}
==============================================================================
