--------------------------- MODULE MCPaymentRelease ---------------------------
(***************************************************************************)
(* Two requests for one payee identifier, which may be listed under either *)
(* of two addresses, or under none.                                        *)
(***************************************************************************)
EXTENDS PaymentRelease

CONSTANTS r1, r2, alice, a1, a2, none
==============================================================================
