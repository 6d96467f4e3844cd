--------------------------- MODULE MandateLifecycle ---------------------------
(***************************************************************************)
(* What the HSP verifier promises a caller who keeps one sequence index:   *)
(* the receipts it lets pass for a mandate come in the order of their      *)
(* numbers, and what follows a settlement, and nothing else, is a dispute. *)
(* Of a mandate whose receipts are verified two at a time the caller is    *)
(* promised only that none that passed is forgotten.                       *)
(***************************************************************************)
EXTENDS Naturals

CONSTANT Emission   \* records with a mandate, a seq and an outcome

VARIABLES
    emitted,   \* the receipts that passed
    raced      \* the mandates verified two at a time

vars == <<emitted, raced>>

Init ==
    /\ emitted = {}
    /\ raced = {}

Before(e) == {f \in emitted : f.mandate = e.mandate}

Settled(e) == \E f \in Before(e) : f.outcome = "SETTLED"

InOrder(e) ==
    /\ \A f \in Before(e) : f.seq < e.seq
    /\ e.outcome = "DISPUTED" <=> Settled(e)

Emit(e) ==
    /\ e.mandate \in raced \/ InOrder(e)
    /\ emitted' = emitted \cup {e}
    /\ UNCHANGED raced

Race(e) ==
    /\ raced' = raced \cup {e.mandate}
    /\ UNCHANGED emitted

Next == \E e \in Emission : Emit(e) \/ Race(e)

Spec == Init /\ [][Next]_vars
==============================================================================
