---------------------------- MODULE MCPaperTrading ----------------------------
(***************************************************************************)
(* One user's portfolio and three requests, enough for two positions of    *)
(* one pair, one of them sold at a profit or a loss, and for an answer of  *)
(* the agent that overtakes two trades.                                    *)
(***************************************************************************)
EXTENDS PaperTrading, TLC

CONSTANTS r1, r2, r3, user, btc, sol

MCSymmetry == Permutations(Request) \cup Permutations(Pair)
==============================================================================
