------------------------------- MODULE Payments -------------------------------
(***************************************************************************)
(* How the payments of one tenant become credits: the webhooks of Stripe   *)
(* (services/billing/stripe_service.py) and Paddle (paddle_service.py),    *)
(* the verification of a checkout when the user comes back from it, and    *)
(* the renewal of the subscription (subscription_service.py), beside the   *)
(* deductions that CreditMetering models in detail.                        *)
(*                                                                         *)
(* A call is one HTTP request with a database session of its own.  Its     *)
(* actions are the code from one transaction to the next; a transaction on *)
(* the balance takes two, since it holds the row FOR UPDATE in between.    *)
(***************************************************************************)
EXTENDS Integers, FiniteSetsExt

CONSTANTS
  Event,            \* events of the payment providers
  Kind,             \* [Event -> EventKind]
  Credits,          \* [Event -> Nat], what the payment is worth
  Call,             \* concurrent requests to the API
  NoCall, NoEvent,  \* nobody holds the row lock; the call has no event
  Msg,              \* messages the tenant is charged for meanwhile
  Cost,             \* credits for one of them
  InitialCredits,
  LinkedAtStart,    \* the tenant's row names its Stripe subscription already
  Batches,          \* bound: the events emitted, one of these sets
  MaxErrors,        \* bound: failed handlings, API processes lost
  MaxOutages,       \* bound: webhooks received while Redis is unavailable
  MaxVerifications  \* bound: users who come back from a checkout

\* "checkout", "topup" and "access" are checkout.session.completed with the type
\* of their metadata (payment_intent.succeeded is handled as "topup" is),
\* "invoice" is invoice.payment_succeeded, "failure" a payment_failed of a
\* top-up, "paddle_*" are transaction.completed.
StripeKind == {"checkout", "topup", "access", "invoice", "failure"}
PaddleKind == {"paddle_checkout", "paddle_topup"}
EventKind  == StripeKind \cup PaddleKind

\* A guest's access is a row of its own and adds nothing to the balance.
ASSUME PaymentsAssumption ==
  /\ IsFiniteSet(Event)
  /\ Kind \in [Event -> EventKind]
  /\ Credits \in [Event -> Nat]
  /\ \A e \in Event : Kind[e] = "access" => Credits[e] = 0
  /\ NoCall \notin Call /\ NoEvent \notin Event
  /\ Cost \in Nat /\ InitialCredits \in Nat
  /\ LinkedAtStart \in BOOLEAN
  /\ Batches \subseteq SUBSET Event
  /\ MaxErrors \in Nat /\ MaxOutages \in Nat /\ MaxVerifications \in Nat

VARIABLES
  \* the providers
  paid,        \* the events that happened
  pending,     \* those not acknowledged: to be delivered (again)
  \* Redis and the database
  dedupKeys,   \* the events with a key stripe_webhook_event:<id>
  linked,      \* TenantSubscription.stripe_subscription_id is set
  topup,       \* CreditTopup.status
  balance,     \* the CreditBalance row
  rowLock,     \* the call whose transaction holds that row FOR UPDATE
  granted,     \* how many times each event's credits or access were granted
  charged,     \* messages with a USAGE transaction
  \* one call
  pc, event,   \* what it is doing, and about which event
  webhook,     \* the calls that answer a provider, not a user
  seen,        \* the balance it has read under the lock
  \* history and bounds
  unguarded,   \* Stripe events handled without a key of their own
  spoiled,     \* events a handling of which failed with the key stored
  budget       \* how many more errors, outages, ... may happen

providerVars == <<paid, pending>>
rowVars      == <<linked, topup>>
accountVars  == <<balance, rowLock, granted, charged>>
callVars     == <<pc, event, webhook, seen>>
historyVars  == <<unguarded, spoiled>>
vars == <<providerVars, dedupKeys, rowVars, accountVars, callVars, historyVars,
          budget>>

Label   == {"idle", "received", "handling", "renewing", "resetting",
            "adding", "crediting", "fulfilled"}
Balance == [total : Nat, used : Nat, available : Int]
Budget  == [errors : Nat, outages : Nat, verifications : Nat]

TypeOK ==
  /\ paid \in SUBSET Event
  /\ pending \in SUBSET paid
  /\ dedupKeys \in SUBSET Event
  /\ linked \in BOOLEAN
  /\ topup \in {"PENDING", "COMPLETED", "FAILED"}
  /\ balance \in Balance
  /\ rowLock \in Call \cup {NoCall}
  /\ granted \in [Event -> Nat]
  /\ charged \in SUBSET Msg
  /\ pc \in [Call -> Label]
  /\ event \in [Call -> Event \cup {NoEvent}]
  /\ \A c \in Call : pc[c] # "idle" => event[c] \in Event
  /\ webhook \in SUBSET Call
  /\ seen \in [Call -> Balance]
  /\ unguarded \in SUBSET Event
  /\ spoiled \in SUBSET Event
  /\ budget \in Budget

NothingSeen == [total |-> 0, used |-> 0, available |-> 0]

Init ==
  /\ paid \in Batches
  /\ pending = paid
  /\ dedupKeys = {}
  /\ linked = LinkedAtStart
  /\ topup = "PENDING"
  /\ balance = [total |-> InitialCredits, used |-> 0, available |-> InitialCredits]
  /\ rowLock = NoCall
  /\ granted = [e \in Event |-> 0]
  /\ charged = {}
  /\ pc = [c \in Call |-> "idle"]
  /\ event = [c \in Call |-> NoEvent]
  /\ webhook = {}
  /\ seen = [c \in Call |-> NothingSeen]
  /\ unguarded = {}
  /\ spoiled = {}
  /\ budget = [errors |-> MaxErrors, outages |-> MaxOutages,
               verifications |-> MaxVerifications]

-------------------------------------------------------------------------------
\* Helpers.

Spend(kind) == /\ budget[kind] > 0
               /\ budget' = [budget EXCEPT ![kind] = @ - 1]

Goto(c, l) == pc' = [pc EXCEPT ![c] = l]

\* Call c takes up event e at label l.
Begin(c, e, l) == /\ Goto(c, l)
                  /\ event' = [event EXCEPT ![c] = e]

\* The call is answered: its session is closed and forgets what it has read.
End(c) == /\ Begin(c, NoEvent, "idle")
          /\ webhook' = webhook \ {c}
          /\ seen' = [seen EXCEPT ![c] = NothingSeen]

KindOf(c) == Kind[event[c]]

\* A provider that gets status 200 does not deliver the event again.
Acknowledge(c) ==
  pending' = IF c \in webhook THEN pending \ {event[c]} ELSE pending

\* Mutant: every webhook is answered with status 200.
RefuseNothing(c) ==
  pending' = IF c \in webhook THEN pending \ {event[c]} ELSE pending

\* The status 400 or 500 that an exception becomes.
Refuse(c) == pending' = pending

-------------------------------------------------------------------------------
\* A request arrives

\* stripe_webhook and paddle_webhook.  A provider that waits too long delivers
\* once more while the first call is still at work.
Deliver(c, e) ==
  /\ pc[c] = "idle"
  /\ e \in pending
  /\ Begin(c, e, IF Kind[e] \in StripeKind THEN "received" ELSE "handling")
  /\ webhook' = webhook \cup {c}
  /\ UNCHANGED <<providerVars, dedupKeys, rowVars, accountVars, seen,
                 historyVars, budget>>

\* verify_checkout_session: the handler of the webhook, without its key.
VerifyCheckoutSession(c, e) ==
  /\ pc[c] = "idle"
  /\ e \in paid
  /\ Kind[e] \in {"checkout", "topup", "access"}
  /\ Spend("verifications")
  /\ Begin(c, e, "handling")
  /\ unguarded' = unguarded \cup {e}
  /\ UNCHANGED <<providerVars, dedupKeys, rowVars, accountVars, webhook, seen,
                 spoiled>>

\* Mutant: a duplicate is acknowledged, but the handler goes on.
AcknowledgeAndGoOn(c) ==
  /\ pc[c] = "received"
  /\ \/ /\ event[c] \in dedupKeys
        /\ Acknowledge(c)
        /\ Begin(c, NoEvent, "handling")
        /\ UNCHANGED <<dedupKeys, webhook, seen>>
     \/ /\ event[c] \notin dedupKeys
        /\ dedupKeys' = dedupKeys \cup {event[c]}
        /\ Goto(c, "handling")
        /\ UNCHANGED <<pending, event, webhook, seen>>
  /\ UNCHANGED <<paid, rowVars, accountVars, historyVars, budget>>

\* _check_webhook_idempotency: SETNX.  An event whose key exists is acknowledged.
CheckWebhookIdempotency(c) ==
  /\ pc[c] = "received"
  /\ \/ /\ event[c] \in dedupKeys
        /\ Acknowledge(c)
        /\ End(c)
        /\ UNCHANGED dedupKeys
     \/ /\ event[c] \notin dedupKeys
        /\ dedupKeys' = dedupKeys \cup {event[c]}
        /\ Goto(c, "handling")
        /\ UNCHANGED <<pending, event, webhook, seen>>
  /\ UNCHANGED <<paid, rowVars, accountVars, historyVars, budget>>

\* The same without Redis: every event passes for a new one.
RedisUnavailable(c) ==
  /\ pc[c] = "received"
  /\ Spend("outages")
  /\ unguarded' = unguarded \cup {event[c]}
  /\ Goto(c, "handling")
  /\ UNCHANGED <<providerVars, dedupKeys, rowVars, accountVars, event, webhook,
                 seen, spoiled>>

-------------------------------------------------------------------------------
\* The handlers

\* A top-up is marked as completed, whatever it was, in a transaction of its own.
CompleteTopup(c) ==
  /\ pc[c] = "handling"
  /\ KindOf(c) \in {"topup", "paddle_topup"}
  /\ topup' = "COMPLETED"
  /\ Goto(c, "adding")
  /\ UNCHANGED <<providerVars, dedupKeys, linked, accountVars, event, webhook,
                 seen, historyVars, budget>>

\* _handle_payment_intent_failed and _handle_transaction_payment_failed.
FailTopup(c) ==
  /\ pc[c] = "handling"
  /\ KindOf(c) = "failure"
  /\ topup' = "FAILED"
  /\ Goto(c, "fulfilled")
  /\ UNCHANGED <<providerVars, dedupKeys, linked, accountVars, event, webhook,
                 seen, historyVars, budget>>

\* The tenant's subscription row gets the plan and the provider's identifiers.
UpdateSubscription(c) ==
  /\ pc[c] = "handling"
  /\ KindOf(c) \in {"checkout", "paddle_checkout"}
  /\ linked' = (linked \/ KindOf(c) = "checkout")
  /\ Goto(c, "renewing")
  /\ UNCHANGED <<providerVars, dedupKeys, topup, accountVars, event, webhook,
                 seen, historyVars, budget>>

\* fulfill_guest_subscription: a new row with a new token, one transaction.
FulfillGuestSubscription(c) ==
  /\ pc[c] = "handling"
  /\ KindOf(c) = "access"
  /\ granted' = [granted EXCEPT ![event[c]] = @ + 1]
  /\ Goto(c, "fulfilled")
  /\ UNCHANGED <<providerVars, dedupKeys, rowVars, balance, rowLock, charged,
                 event, webhook, seen, historyVars, budget>>

\* _handle_invoice_payment_succeeded looks for the row by the provider's
\* identifier.  Without a row there is nothing to do; with one the renewal is
\* asked for by the tenant's identifier, and fails (HandlerFails).
SkipInvoice(c) ==
  /\ pc[c] = "handling"
  /\ KindOf(c) = "invoice"
  /\ ~linked
  /\ Goto(c, "fulfilled")
  /\ UNCHANGED <<providerVars, dedupKeys, rowVars, accountVars, event, webhook,
                 seen, historyVars, budget>>

-------------------------------------------------------------------------------
\* renew_subscription and the credit service

\* Mutant: the balance is read without FOR UPDATE.
ReadBalance(c) ==
  /\ pc[c] \in {"renewing", "adding"}
  /\ seen' = [seen EXCEPT ![c] = balance]
  /\ Goto(c, IF pc[c] = "renewing" THEN "resetting" ELSE "crediting")
  /\ UNCHANGED <<providerVars, dedupKeys, rowVars, accountVars, event, webhook,
                 historyVars, budget>>

\* SELECT ... FOR UPDATE, in reset_monthly_usage and in add_credits.
LockBalance(c) ==
  /\ pc[c] \in {"renewing", "adding"}
  /\ rowLock = NoCall
  /\ rowLock' = c
  /\ seen' = [seen EXCEPT ![c] = balance]
  /\ Goto(c, IF pc[c] = "renewing" THEN "resetting" ELSE "crediting")
  /\ UNCHANGED <<providerVars, dedupKeys, rowVars, balance, granted, charged,
                 event, webhook, historyVars, budget>>

\* reset_monthly_usage commits, and with it the new period.
ResetMonthlyUsage(c) ==
  /\ pc[c] = "resetting"
  /\ balance' = [balance EXCEPT !.used = 0, !.available = seen[c].total]
  /\ rowLock' = NoCall
  /\ Goto(c, "adding")
  /\ UNCHANGED <<providerVars, dedupKeys, rowVars, granted, charged, event,
                 webhook, seen, historyVars, budget>>

\* add_credits commits the balance and the transaction row.
AddCredits(c) ==
  LET total == seen[c].total + Credits[event[c]] IN
  /\ pc[c] = "crediting"
  /\ balance' = [balance EXCEPT !.total = total, !.available = total - seen[c].used]
  /\ rowLock' = NoCall
  /\ granted' = [granted EXCEPT ![event[c]] = @ + 1]
  /\ Goto(c, "fulfilled")
  /\ UNCHANGED <<providerVars, dedupKeys, rowVars, charged, event, webhook, seen,
                 historyVars, budget>>

\* deduct_credits_idempotent, which holds the row for the whole transaction.
Charge(m) ==
  /\ m \notin charged
  /\ rowLock = NoCall
  /\ balance.available >= Cost
  /\ charged' = charged \cup {m}
  /\ balance' = [balance EXCEPT !.used = @ + Cost,
                                !.available = balance.total - (balance.used + Cost)]
  /\ UNCHANGED <<providerVars, dedupKeys, rowVars, rowLock, granted, callVars,
                 historyVars, budget>>

-------------------------------------------------------------------------------
\* The end of a call

\* The handler returns True: status 200.
Reply(c) ==
  /\ pc[c] = "fulfilled"
  /\ Acknowledge(c)
  /\ End(c)
  /\ UNCHANGED <<paid, dedupKeys, rowVars, accountVars, historyVars, budget>>

\* Mutant: a failed handling gives its key back, though it may have granted.
FailAndForget(c) ==
  /\ pc[c] # "idle"
  /\ Spend("errors")
  /\ Refuse(c)
  /\ rowLock' = IF rowLock = c THEN NoCall ELSE rowLock
  /\ dedupKeys' = dedupKeys \ {event[c]}
  /\ End(c)
  /\ UNCHANGED <<paid, rowVars, balance, granted, charged, historyVars>>

\* A database call raises, the process dies, or the handler is the one for
\* invoices: the transaction is rolled back and the event is not acknowledged.
HandlerFails(c) ==
  /\ pc[c] # "idle"
  /\ \/ Spend("errors")
     \/ /\ pc[c] = "handling" /\ KindOf(c) = "invoice" /\ linked
        /\ UNCHANGED budget
  /\ Refuse(c)
  /\ rowLock' = IF rowLock = c THEN NoCall ELSE rowLock
  /\ spoiled' = IF c \in webhook /\ pc[c] # "received"
                THEN spoiled \cup ({event[c]} \cap dedupKeys) ELSE spoiled
  /\ End(c)
  /\ UNCHANGED <<paid, dedupKeys, rowVars, balance, granted, charged, unguarded>>

-------------------------------------------------------------------------------
CallStep(c) ==
  \/ CheckWebhookIdempotency(c) \/ CompleteTopup(c) \/ FailTopup(c)
  \/ UpdateSubscription(c) \/ FulfillGuestSubscription(c) \/ SkipInvoice(c)
  \/ LockBalance(c) \/ ResetMonthlyUsage(c) \/ AddCredits(c) \/ Reply(c)

Next ==
  \/ \E c \in Call : \/ CallStep(c) \/ RedisUnavailable(c) \/ HandlerFails(c)
                     \/ \E e \in Event : Deliver(c, e) \/ VerifyCheckoutSession(c, e)
  \/ \E m \in Msg : Charge(m)

Spec == Init /\ [][Next]_vars

\* The server runs its calls, the handler of invoices included, and a provider
\* delivers an event until it is acknowledged.  Users need not come back, no
\* message needs to be charged, and nothing needs to fail.
Fairness ==
  /\ \A c \in Call :
       WF_vars(\/ CallStep(c)
               \/ /\ pc[c] = "handling" /\ KindOf(c) = "invoice"
                  /\ HandlerFails(c))
  /\ \A e \in Event : WF_vars(\E c \in Call : Deliver(c, e))

FairSpec == Spec /\ Fairness

-------------------------------------------------------------------------------
\* Properties

\* The key of _check_webhook_idempotency does what it is for: a Stripe event
\* whose handlings all went through it is never granted twice, however often,
\* and however much at once, it is delivered, and wherever a handling fails.
\* Outages of Redis and verify_checkout_session go around it.
HandledOnce ==
  \A e \in Event \ unguarded : Kind[e] \in StripeKind => granted[e] <= 1

\* No addition and no charge is lost, although calls and deductions change the one
\* row, whose three columns each of them writes from what it read: the total is what
\* the fulfilled payments are worth, and what is available is the total less what
\* was consumed since the last renewal.
CreditsAccounted ==
  /\ balance.total = InitialCredits
                       + MapThenSumSet(LAMBDA e : granted[e] * Credits[e], Event)
  /\ balance.available = balance.total - balance.used

\* The transactions of renewals, payments and deductions on the balance row are
\* those of TenantAccount, one at a time: no renewal undoes an addition, and no
\* charge exceeds the credits.
Account == INSTANCE TenantAccount
  WITH total <- balance.total, used <- balance.used,
       Amounts <- {Credits[e] : e \in Event}, TopUpAmount <- 0
AccountSpec == Account!AccountSpec

\* What the tenant paid for: a "failure" is about nothing, and an invoice never
\* renews, since renew_subscription is given the tenant's id for its own.
Payable == {e \in Event : Kind[e] \notin {"invoice", "failure"}}

\* The call has yet to grant.
Granting(c) ==
  pc[c] \in {"handling", "renewing", "resetting", "adding", "crediting"}

\* A payment is granted, or will be by a webhook that is at work on it, or a
\* handling of it failed after its key was stored.
OnItsWay(e) == \/ granted[e] > 0
               \/ e \in spoiled
               \/ \E c \in webhook : event[c] = e /\ Granting(c)

\* No payment is acknowledged and forgotten: once the provider is told not to
\* deliver an event again, as a duplicate or as handled, it is on its way, although
\* the first delivery may be slow and the duplicate is answered before it.
NoPaymentForgotten == \A e \in Payable \cap (paid \ pending) : OnItsWay(e)

\* What makes it inductive: a key stands for a payment on its way, without a key
\* only a granted payment is acknowledged, a call replies when it has granted, and
\* only a webhook is at the check of the key.
PaymentInvariant ==
  /\ \A e \in Payable \cap dedupKeys : OnItsWay(e)
  /\ \A e \in Payable \cap (paid \ pending) : e \in dedupKeys \/ granted[e] > 0
  /\ \A c \in Call : pc[c] = "fulfilled" /\ event[c] \in Payable
                     => granted[event[c]] > 0
  /\ \A c \in Call : pc[c] = "received" => c \in webhook

\* Every payment is fulfilled in the end, unless a handling of it failed after
\* its key was stored: then the retries are acknowledged as duplicates.  Paddle
\* events have no key, and are handled until they succeed.
FulfilledUnlessSpoiled ==
  \A e \in Payable : e \in pending ~> granted[e] > 0 \/ e \in spoiled
===============================================================================
