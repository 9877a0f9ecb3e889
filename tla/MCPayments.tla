------------------------------ MODULE MCPayments ------------------------------
(***************************************************************************)
(* Small instances of Payments: two calls at a time, and two or three of   *)
(* the providers' events for one tenant.                                   *)
(***************************************************************************)
EXTENDS Payments

CONSTANTS c1, c2, m1, checkout, topup_paid, access, invoice, topup_failed,
          paddle_checkout, paddle_topup

Kinds ==
  [e \in Event |-> CASE e = checkout        -> "checkout"
                     [] e = topup_paid      -> "topup"
                     [] e = access          -> "access"
                     [] e = invoice         -> "invoice"
                     [] e = topup_failed    -> "failure"
                     [] e = paddle_checkout -> "paddle_checkout"
                     [] e = paddle_topup    -> "paddle_topup"]

\* A subscription is worth 2 credits, a top-up 1, access for a guest none.
Worth ==
  [e \in Event |-> CASE Kinds[e] \in {"checkout", "invoice", "paddle_checkout"} -> 2
                     [] Kinds[e] \in {"topup", "paddle_topup"} -> 1
                     [] OTHER -> 0]

\* What the providers have to tell: one of these sets.
StripeAndPaddle == {{checkout, invoice}, {topup_paid, topup_failed},
                    {access, paddle_topup}, {topup_paid, paddle_checkout}}
===============================================================================
