---------------------------- MODULE MCTelegramPay ----------------------------
(***************************************************************************)
(* Two users, one of whom may generate a second wallet after linking, and  *)
(* two payments.                                                           *)
(***************************************************************************)
EXTENDS TelegramPay, TLC

CONSTANTS u1, u2, x1, w1, w2, t1, p1, p2, none

MCSymmetry == Permutations(User) \cup Permutations(Wallet) \cup Permutations(Payment)
==============================================================================
