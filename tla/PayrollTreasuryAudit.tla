------------------------- MODULE PayrollTreasuryAudit -------------------------
(***************************************************************************)
(* The treasury's books audited against the history of its payments: every *)
(* property here relates a counter the contract keeps to the sum it is     *)
(* meant to stand for.                                                     *)
(***************************************************************************)
EXTENDS PayrollTreasury, FiniteSetsExt

Index == 1..Len(payments)

Total(indices) == SumFunctionOnSet([i \in Index |-> payments[i].amount], indices)

PaidTo(p) == {i \in Index : payments[i].payee = p}

(* Per token, the treasury holds what was deposited less what was paid,    *)
(* and is never overdrawn.                                                 *)
FundsConserved ==
    \A t \in Token :
        /\ balance[t] + Total({i \in Index : payments[i].token = t}) = funded[t]
        /\ balance[t] >= 0

(* spentToday counts exactly the payments, in any token, that the payee    *)
(* received since its window opened.                                       *)
SpentTodayIsWindowTotal ==
    \A p \in Subjects :
        spentToday[p] = Total({i \in PaidTo(p) : payments[i].at >= windowStart[p]})

(* Windows of a payee never overlap: each payment falls into the day of    *)
(* the window it was counted in, and two payments share a window or their  *)
(* windows are a day apart, the one that is open now included.             *)
WindowsADayApart ==
    \A i \in Index :
        LET start == payments[i].window
            ADayLater(later) == later = start \/ later >= start + DAY
        IN  /\ payments[i].at \in start..(start + DAY - 1)
            /\ payments[i].at <= now
            /\ \A j \in PaidTo(payments[i].payee) : i < j => ADayLater(payments[j].window)
            /\ ADayLater(windowStart[payments[i].payee])

(* Within one window the payments up to each one stay within the daily     *)
(* limit that was in force at that payment, however often the limit was    *)
(* changed in between.                                                     *)
WindowWithinLimit ==
    \A i \in Index :
        Total({j \in PaidTo(payments[i].payee) :
                  j <= i /\ payments[j].window = payments[i].window})
            <= payments[i].limit

(* The worst a fixed window allows: in any stretch of a day a payee gets   *)
(* at most twice the highest limit in force at the payments made in it.    *)
WithinADay(i) ==
    {j \in PaidTo(payments[i].payee) :
        payments[j].at \in payments[i].at..(payments[i].at + DAY - 1)}

AnyDayWithinTwiceTheLimit ==
    \A i \in Index :
        Total(WithinADay(i)) <= 2 * Max({payments[j].limit : j \in WithinADay(i)})

(* contracts/test/fuzz/PayrollTreasury.fuzz.t.sol, lines 82-83: "across a  *)
(* single day, cumulative spend for a payee must never exceed dailyLimit". *)
AnyDayWithinTheLimit ==
    \A i \in Index :
        Total(WithinADay(i)) <= Max({payments[j].limit : j \in WithinADay(i)})
==============================================================================
