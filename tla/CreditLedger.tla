----------------------------- MODULE CreditLedger -----------------------------
(***************************************************************************)
(* What the credit balance of a tenant promises, whatever happens to the   *)
(* workers that bill it: a message is charged at most once, at its price,  *)
(* in one step together with the balance, and never beyond the credits.    *)
(* CreditMetering implements it.                                           *)
(***************************************************************************)
EXTENDS Integers

CONSTANTS Msg,             \* assistant messages of one tenant
          Cost,            \* credits for one message: base cost plus markup
          TopUpAmount,     \* credits added by one top-up
          InitialCredits   \* CreditBalance.total_credits at the start

VARIABLES total,     \* credits the tenant was given
          used,      \* credits it consumed
          charged    \* the messages it was charged for

vars == <<total, used, charged>>

Init == total = InitialCredits /\ used = 0 /\ charged = {}

Charge(m) ==
  /\ m \notin charged
  /\ used + Cost <= total
  /\ charged' = charged \cup {m}
  /\ used' = used + Cost
  /\ UNCHANGED total

TopUp ==
  /\ total' = total + TopUpAmount
  /\ UNCHANGED <<used, charged>>

Next == TopUp \/ \E m \in Msg : Charge(m)

Spec == Init /\ [][Next]_vars
===============================================================================
