---------------------------- MODULE PayrollPromise ----------------------------
(***************************************************************************)
(* What the payroll treasury promises, whatever contracts implement it: a  *)
(* mandate is disbursed at most once, out of the funds at hand, to a payee *)
(* who is eligible at that moment, and within what that payee may still be *)
(* paid, which shrinks by exactly what is paid.  Who is eligible and what  *)
(* may be paid can change at any time, but never in the act of paying.     *)
(***************************************************************************)
EXTENDS Naturals

CONSTANTS Payee, Token, Mandate

VARIABLES
    funds,       \* per token, what the treasury holds
    disbursed,   \* the mandates paid
    eligible,    \* the payees who may be paid now
    allowance    \* per payee, what may still be paid now

vars == <<funds, disbursed, eligible, allowance>>

Init ==
    /\ funds = [t \in Token |-> 0]
    /\ disbursed = {}
    /\ eligible = {}
    /\ allowance = [p \in Payee |-> 0]

Fund(t) ==
    /\ funds'[t] > funds[t]
    /\ funds' = [funds EXCEPT ![t] = funds'[t]]
    /\ UNCHANGED <<disbursed, eligible, allowance>>

Regulate ==
    /\ eligible' \subseteq Payee
    /\ allowance' \in [Payee -> Nat]
    /\ UNCHANGED <<funds, disbursed>>

Disburse(m, p, t, amount) ==
    /\ m \notin disbursed
    /\ p \in eligible
    /\ amount > 0
    /\ amount <= funds[t]
    /\ amount <= allowance[p]
    /\ funds' = [funds EXCEPT ![t] = @ - amount]
    /\ disbursed' = disbursed \cup {m}
    /\ allowance' = [allowance EXCEPT ![p] = @ - amount]
    /\ UNCHANGED eligible

Next ==
    \/ \E t \in Token : Fund(t)
    \/ Regulate
    \/ \E m \in Mandate, p \in Payee, t \in Token :
          \E amount \in 1..funds[t] : Disburse(m, p, t, amount)

Spec == Init /\ [][Next]_vars
==============================================================================
