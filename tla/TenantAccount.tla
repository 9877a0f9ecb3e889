---------------------------- MODULE TenantAccount -----------------------------
(***************************************************************************)
(* What a tenant's balance promises beside the payments that fill it: to   *)
(* the charges of CreditLedger come grants of credits, one for each        *)
(* fulfilment of a payment, and renewals, which forget what was consumed.  *)
(* A step is one of these as a whole, and a charge never exceeds the       *)
(* credits.  Payments implements it.                                       *)
(***************************************************************************)
EXTENDS CreditLedger

CONSTANT Amounts    \* the credits one payment may be worth

\* CreditService.add_credits.
Grant(amount) ==
  /\ total' = total + amount
  /\ UNCHANGED <<used, charged>>

\* CreditService.reset_monthly_usage.
Renew ==
  /\ used' = 0
  /\ UNCHANGED <<total, charged>>

AccountNext ==
  \/ Renew
  \/ \E amount \in Amounts : Grant(amount)
  \/ \E m \in Msg : Charge(m)

AccountSpec == Init /\ [][AccountNext]_vars
===============================================================================
