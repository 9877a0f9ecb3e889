---------------------------- MODULE PaymentsProofs ----------------------------
(***************************************************************************)
(* Theorems about Payments for any events, calls and bounds: its types,    *)
(* that the key of a Stripe event makes its handling happen at most once,  *)
(* that the transactions on the balance row implement TenantAccount and    *)
(* lose no credits, and that no acknowledged payment is forgotten.         *)
(*                                                                         *)
(* The first needs to know who is at work: of the calls past the check at  *)
(* most one has a given event, and before that call grants nothing was     *)
(* granted.  The others need that what a call has read under FOR UPDATE    *)
(* is still the row, how a sum grows with one of its terms, and that a     *)
(* stored key stands for a payment on its way.                             *)
(***************************************************************************)
EXTENDS Payments, FiniteSums

LEMMA InitTypeOK == Init => TypeOK
  BY PaymentsAssumption
     DEF Init, TypeOK, Balance, Budget, Label, NothingSeen

\* Spending keeps the budget in its type.
LEMMA SpendType ==
  ASSUME NEW kind \in {"errors", "outages", "verifications"},
         budget \in Budget, Spend(kind)
  PROVE  budget' \in Budget
  BY DEF Spend, Budget

LEMMA StepTypeOK == TypeOK /\ [Next]_vars => TypeOK'
<1> SUFFICES ASSUME TypeOK, [Next]_vars PROVE TypeOK'
  OBVIOUS
<1> USE PaymentsAssumption
<1>1. ASSUME NEW c \in Call, NEW e \in Event, Deliver(c, e) PROVE TypeOK'
  BY <1>1 DEF Deliver, TypeOK, Begin, Goto, Label, accountVars, rowVars,
              historyVars, providerVars
<1>2. ASSUME NEW c \in Call, NEW e \in Event, VerifyCheckoutSession(c, e)
      PROVE TypeOK'
  <2>1. budget' \in Budget
    BY <1>2, SpendType DEF VerifyCheckoutSession, TypeOK
  <2> QED
    BY <1>2, <2>1 DEF VerifyCheckoutSession, TypeOK, Begin, Goto, Label,
                      accountVars, rowVars, providerVars
<1>3. ASSUME NEW c \in Call, CheckWebhookIdempotency(c) PROVE TypeOK'
  <2>1. CASE event[c] \in dedupKeys
    <3>1. Acknowledge(c) /\ End(c)
          /\ UNCHANGED <<paid, dedupKeys, rowVars, accountVars, historyVars, budget>>
      BY <1>3, <2>1 DEF CheckWebhookIdempotency
    <3> QED
      BY <3>1 DEF TypeOK, Begin, End, Goto, Acknowledge, Label, NothingSeen, Balance,
                  accountVars, rowVars, historyVars
  <2>2. CASE event[c] \notin dedupKeys
    BY <1>3, <2>2 DEF CheckWebhookIdempotency, TypeOK, Goto, Label, accountVars,
                      rowVars, historyVars
  <2> QED
    BY <2>1, <2>2
<1>4. ASSUME NEW c \in Call, RedisUnavailable(c) PROVE TypeOK'
  <2>1. budget' \in Budget
    BY <1>4, SpendType DEF RedisUnavailable, TypeOK
  <2> QED
    BY <1>4, <2>1 DEF RedisUnavailable, TypeOK, Goto, Label, accountVars,
                      rowVars, providerVars
<1>5. ASSUME NEW c \in Call, CompleteTopup(c) \/ FailTopup(c) PROVE TypeOK'
  BY <1>5 DEF CompleteTopup, FailTopup, TypeOK, Goto, Label, accountVars,
              historyVars, providerVars
<1>6. ASSUME NEW c \in Call, UpdateSubscription(c) \/ SkipInvoice(c) PROVE TypeOK'
  BY <1>6 DEF UpdateSubscription, SkipInvoice, TypeOK, Goto, Label, accountVars,
              historyVars, providerVars, rowVars
<1>7. ASSUME NEW c \in Call, FulfillGuestSubscription(c) PROVE TypeOK'
  BY <1>7 DEF FulfillGuestSubscription, TypeOK, Goto, Label, historyVars,
              providerVars, rowVars
<1>8. ASSUME NEW c \in Call, LockBalance(c) PROVE TypeOK'
  BY <1>8 DEF LockBalance, TypeOK, Goto, Label, historyVars, providerVars, rowVars
<1>9. ASSUME NEW c \in Call, ResetMonthlyUsage(c) PROVE TypeOK'
  <2>1. balance' \in Balance
    <3>1. balance' = [total |-> balance.total, used |-> 0,
                      available |-> seen[c].total]
      BY <1>9 DEF ResetMonthlyUsage, TypeOK, Balance
    <3>2. seen[c].total \in Nat /\ balance.total \in Nat
      BY DEF TypeOK, Balance
    <3> QED
      BY <3>1, <3>2 DEF Balance
  <2> QED
    BY <1>9, <2>1 DEF ResetMonthlyUsage, TypeOK, Goto, Label, historyVars,
                      providerVars, rowVars
<1>10. ASSUME NEW c \in Call, AddCredits(c) PROVE TypeOK'
  <2>1. event[c] \in Event /\ Credits[event[c]] \in Nat
    BY <1>10 DEF AddCredits, TypeOK
  <2>2. balance' \in Balance
    <3> DEFINE sum == seen[c].total + Credits[event[c]]
    <3>1. balance' = [total |-> sum, used |-> balance.used,
                      available |-> sum - seen[c].used]
      BY <1>10 DEF AddCredits, TypeOK, Balance
    <3>2. seen[c].total \in Nat /\ seen[c].used \in Nat /\ balance.used \in Nat
      BY DEF TypeOK, Balance
    <3>3. sum \in Nat /\ sum - seen[c].used \in Int
      BY <2>1, <3>2
    <3> QED
      BY <3>1, <3>2, <3>3 DEF Balance
  <2>3. granted' \in [Event -> Nat]
    BY <1>10, <2>1 DEF AddCredits, TypeOK
  <2> QED
    BY <1>10, <2>2, <2>3 DEF AddCredits, TypeOK, Goto, Label, historyVars,
                             providerVars, rowVars
<1>11. ASSUME NEW c \in Call, Reply(c) PROVE TypeOK'
  BY <1>11 DEF Reply, TypeOK, Begin, End, Goto, Acknowledge, Label, NothingSeen,
               Balance, accountVars, rowVars, historyVars
<1>12. ASSUME NEW c \in Call, HandlerFails(c) PROVE TypeOK'
  <2>1. budget' \in Budget
    BY <1>12, SpendType DEF HandlerFails, TypeOK
  <2> QED
    BY <1>12, <2>1 DEF HandlerFails, TypeOK, Begin, End, Goto, Refuse, Label,
                       NothingSeen, Balance, rowVars
<1>13. ASSUME NEW m \in Msg, Charge(m) PROVE TypeOK'
  <2>1. balance' \in Balance
    <3>1. balance' = [total |-> balance.total, used |-> balance.used + Cost,
                      available |-> balance.total - (balance.used + Cost)]
      BY <1>13 DEF Charge, TypeOK, Balance
    <3>2. balance.total \in Nat /\ balance.used \in Nat
      BY DEF TypeOK, Balance
    <3> QED
      BY <3>1, <3>2 DEF Balance
  <2> QED
    BY <1>13, <2>1 DEF Charge, TypeOK, callVars, historyVars, providerVars, rowVars
<1>14. CASE UNCHANGED vars
  BY <1>14 DEF TypeOK, vars, accountVars, callVars, historyVars, providerVars,
               rowVars
<1> QED
  BY <1>1, <1>2, <1>3, <1>4, <1>5, <1>6, <1>7, <1>8, <1>9, <1>10, <1>11, <1>12,
     <1>13, <1>14 DEF Next, CallStep

\* The type invariant of the payments.
THEOREM TypeCorrect == Spec => []TypeOK
  BY InitTypeOK, StepTypeOK, PTL DEF Spec

-------------------------------------------------------------------------------
\* Call c is past the check, with event e.
Working(c, e) == pc[c] \notin {"idle", "received"} /\ event[c] = e

\* What the key guarantees of an event all handlings of which went through it.
OncePerKey(e) ==
  /\ e \notin dedupKeys => granted[e] = 0
  /\ granted[e] <= 1
  /\ \A c \in Call : Working(c, e) => e \in dedupKeys
  /\ \A c, d \in Call : Working(c, e) /\ Working(d, e) => c = d
  /\ \A c \in Call : Working(c, e) /\ Granting(c) => granted[e] = 0

OnceInvariant ==
  \A e \in Event \ unguarded : Kind[e] \in StripeKind => OncePerKey(e)

LEMMA InitOnce == Init => OnceInvariant
  BY DEF Init, OnceInvariant, OncePerKey, Working

\* A step that grants nothing, stores no key and brings no call past the check
\* keeps it: a call goes on with its event or ends.
GoesOn(c) ==
  /\ granted' = granted
  /\ dedupKeys' = dedupKeys
  /\ unguarded \subseteq unguarded'
  /\ pc[c] # "received" /\ Granting(c)' => Granting(c)
  /\ \A d \in Call \ {c} : pc'[d] = pc[d] /\ event'[d] = event[d]
  /\ \/ event'[c] = event[c] /\ pc[c] \notin {"idle", "received"}
     \/ pc'[c] \in {"idle", "received"}

LEMMA GoingOnKeepsOnce ==
  ASSUME OnceInvariant, NEW c \in Call, GoesOn(c)
  PROVE  OnceInvariant'
  BY DEF OnceInvariant, OncePerKey, Working, Granting, GoesOn

LEMMA StepOnce == TypeOK /\ OnceInvariant /\ [Next]_vars => OnceInvariant'
<1> SUFFICES ASSUME TypeOK, OnceInvariant, [Next]_vars PROVE OnceInvariant'
  OBVIOUS
<1> USE PaymentsAssumption
<1>1. ASSUME NEW c \in Call, NEW e \in Event, Deliver(c, e) PROVE OnceInvariant'
  <2>1. CASE Kind[e] \in StripeKind
    <3>1. GoesOn(c)
      BY <1>1, <2>1 DEF Deliver, GoesOn, Begin, Goto, Granting, TypeOK, accountVars,
                        historyVars
    <3> QED
      BY <3>1, GoingOnKeepsOnce
  <2>2. CASE Kind[e] \notin StripeKind
    BY <1>1, <2>2 DEF Deliver, OnceInvariant, OncePerKey, Working, Granting, Begin,
                      Goto, TypeOK, accountVars, historyVars
  <2> QED
    BY <2>1, <2>2
<1>2. ASSUME NEW c \in Call, NEW e \in Event, VerifyCheckoutSession(c, e)
      PROVE OnceInvariant'
  BY <1>2 DEF VerifyCheckoutSession, OnceInvariant, OncePerKey, Working, Granting,
              Begin, Goto, TypeOK, accountVars
<1>3. ASSUME NEW c \in Call, CheckWebhookIdempotency(c) PROVE OnceInvariant'
  <2>1. CASE event[c] \in dedupKeys
    <3>1. GoesOn(c)
      BY <1>3, <2>1 DEF CheckWebhookIdempotency, GoesOn, Begin, End, Goto, TypeOK,
                        Granting, accountVars, historyVars
    <3> QED
      BY <3>1, GoingOnKeepsOnce
  <2>2. CASE event[c] \notin dedupKeys
    <3>1. /\ dedupKeys' = dedupKeys \cup {event[c]}
          /\ pc' = [pc EXCEPT ![c] = "handling"]
          /\ UNCHANGED <<event, granted, unguarded>>
      BY <1>3, <2>2 DEF CheckWebhookIdempotency, Goto, accountVars, historyVars
    <3>2. pc[c] = "received" /\ event[c] \in Event
      BY <1>3 DEF CheckWebhookIdempotency, TypeOK
    <3>3. ASSUME NEW e \in Event \ unguarded, Kind[e] \in StripeKind
          PROVE  OncePerKey(e)'
      <4>1. OncePerKey(e)
        BY <3>3 DEF OnceInvariant
      <4>2. \A d \in Call : Working(d, e)' <=> Working(d, e) \/ (d = c /\ event[c] = e)
        BY <3>1, <3>2 DEF Working, TypeOK
      <4>3. \A d \in Call \ {c} : Granting(d)' <=> Granting(d)
        BY <3>1 DEF Granting, TypeOK
      <4>4. ~ Working(c, e)
        BY <3>2 DEF Working
      <4>5. CASE e = event[c]
        <5>1. granted[e] = 0 /\ \A d \in Call : ~ Working(d, e)
          BY <2>2, <4>1, <4>5 DEF OncePerKey
        <5> QED
          BY <3>1, <4>2, <4>5, <5>1 DEF OncePerKey
      <4>6. CASE e # event[c]
        BY <3>1, <4>1, <4>2, <4>3, <4>4, <4>6 DEF OncePerKey
      <4> QED
        BY <4>5, <4>6
    <3> QED
      BY <3>1, <3>3 DEF OnceInvariant
  <2> QED
    BY <2>1, <2>2
<1>4. ASSUME NEW c \in Call, RedisUnavailable(c) PROVE OnceInvariant'
  BY <1>4 DEF RedisUnavailable, OnceInvariant, OncePerKey, Working, Granting, Goto,
              TypeOK, accountVars
<1>5. ASSUME NEW c \in Call,
             \/ CompleteTopup(c) \/ FailTopup(c) \/ UpdateSubscription(c)
             \/ SkipInvoice(c) \/ LockBalance(c) \/ ResetMonthlyUsage(c)
             \/ Reply(c) \/ HandlerFails(c)
      PROVE OnceInvariant'
  <2>1. GoesOn(c)
    BY <1>5 DEF CompleteTopup, FailTopup, UpdateSubscription, SkipInvoice,
                LockBalance, ResetMonthlyUsage, Reply, HandlerFails, GoesOn, Begin,
                End, Goto, Granting, TypeOK, accountVars, historyVars
  <2> QED
    BY <2>1, GoingOnKeepsOnce
<1>6. ASSUME NEW c \in Call, FulfillGuestSubscription(c) \/ AddCredits(c)
      PROVE OnceInvariant'
  <2>1. /\ granted' = [granted EXCEPT ![event[c]] = @ + 1]
        /\ pc' = [pc EXCEPT ![c] = "fulfilled"]
        /\ UNCHANGED <<event, dedupKeys, unguarded>>
    BY <1>6 DEF FulfillGuestSubscription, AddCredits, Goto, historyVars
  <2>2. Granting(c) /\ event[c] \in Event /\ pc[c] \notin {"idle", "received"}
    BY <1>6 DEF FulfillGuestSubscription, AddCredits, Granting, TypeOK
  <2>3. ASSUME NEW e \in Event \ unguarded, Kind[e] \in StripeKind
        PROVE  OncePerKey(e)'
    <3>1. OncePerKey(e)
      BY <2>3 DEF OnceInvariant
    <3>2. \A d \in Call : Working(d, e)' <=> Working(d, e)
      BY <2>1, <2>2 DEF Working, TypeOK
    <3>3. \A d \in Call : Granting(d)' <=> Granting(d) /\ d # c
      BY <2>1 DEF Granting, TypeOK
    <3>4. CASE e = event[c]
      <4>1. Working(c, e)
        BY <2>2, <3>4 DEF Working
      <4>2. granted[e] = 0 /\ granted'[e] = 1
        BY <2>1, <2>2, <3>1, <3>4, <4>1 DEF OncePerKey, TypeOK
      <4> QED
        BY <2>1, <3>1, <3>2, <3>3, <4>1, <4>2 DEF OncePerKey
    <3>5. CASE e # event[c]
      <4>1. granted'[e] = granted[e]
        BY <2>1, <2>2, <3>5 DEF TypeOK
      <4> QED
        BY <2>1, <3>1, <3>2, <3>3, <4>1 DEF OncePerKey
    <3> QED
      BY <3>4, <3>5
  <2> QED
    BY <2>1, <2>3 DEF OnceInvariant
<1>7. CASE (\E m \in Msg : Charge(m)) \/ UNCHANGED vars
  BY <1>7 DEF Charge, vars, OnceInvariant, OncePerKey, Working, Granting, callVars,
              accountVars, historyVars
<1> QED
  BY <1>1, <1>2, <1>3, <1>4, <1>5, <1>6, <1>7 DEF Next, CallStep

\* A Stripe event whose handlings all went through its key is granted at most
\* once, for any number of deliveries, concurrent calls and failures.
THEOREM GrantedOnce == Spec => []HandledOnce
<1>1. TypeOK /\ OnceInvariant => HandledOnce
  BY DEF OnceInvariant, OncePerKey, HandledOnce
<1> QED
  BY <1>1, InitOnce, StepOnce, TypeCorrect, PTL DEF Spec

-------------------------------------------------------------------------------
LEMMA InitForgotten == Init => PaymentInvariant
  BY DEF Init, PaymentInvariant

\* Every payment that was on its way still is, and what is acknowledged newly was
\* granted, or has a key.
Keeps ==
  /\ \A e \in Payable : OnItsWay(e) => OnItsWay(e)'
  /\ \A e \in Event : granted[e] > 0 => granted'[e] > 0
  /\ \A e \in Payable \cap (dedupKeys' \ dedupKeys) : OnItsWay(e)'
  /\ \A e \in Payable \cap (paid' \ pending') :
       e \in paid \ pending \/ e \in dedupKeys \/ granted[e] > 0
  /\ dedupKeys \subseteq dedupKeys'
  /\ \A c \in Call : /\ pc'[c] = "fulfilled" /\ event'[c] \in Payable
                     /\ pc[c] # "fulfilled" \/ event'[c] # event[c]
                     => granted'[event'[c]] > 0
  /\ \A c \in Call : pc'[c] = "received" => c \in webhook'

LEMMA KeepingInvariant ==
  ASSUME PaymentInvariant, Keeps PROVE PaymentInvariant'
<1>1. \A e \in Payable \cap dedupKeys' : OnItsWay(e)'
  BY DEF PaymentInvariant, Keeps
<1>2. \A e \in Payable \cap (paid' \ pending') : e \in dedupKeys' \/ granted'[e] > 0
  BY DEF PaymentInvariant, Keeps, Payable
<1>3. \A c \in Call : pc'[c] = "fulfilled" /\ event'[c] \in Payable
                      => granted'[event'[c]] > 0
  BY DEF PaymentInvariant, Keeps, Payable
<1>4. \A c \in Call : pc'[c] = "received" => c \in webhook'
  BY DEF Keeps
<1> QED
  BY <1>1, <1>2, <1>3, <1>4 DEF PaymentInvariant, Payable

\* A call that goes on with its event, grants nothing and answers nobody.
Proceeds(c) ==
  /\ \A d \in Call \ {c} : pc'[d] = pc[d] /\ event'[d] = event[d]
  /\ webhook \subseteq webhook'
  /\ Granting(c) => Granting(c)' /\ event'[c] = event[c]
  /\ pc'[c] = "fulfilled" => event'[c] \notin Payable
  /\ pc'[c] = "received" => c \in webhook'
  /\ UNCHANGED <<paid, pending, dedupKeys, granted, spoiled>>

LEMMA ProceedingKeeps ==
  ASSUME TypeOK, PaymentInvariant, NEW c \in Call, Proceeds(c) PROVE Keeps
<1>1. ASSUME NEW e \in Payable, OnItsWay(e) PROVE OnItsWay(e)'
  <2>1. ASSUME NEW d \in webhook, event[d] = e, Granting(d) PROVE OnItsWay(e)'
    <3>1. d \in webhook' /\ event'[d] = e /\ Granting(d)'
      BY <2>1 DEF Proceeds, TypeOK, Granting
    <3> QED
      BY <3>1 DEF OnItsWay
  <2> QED
    BY <1>1, <2>1 DEF OnItsWay, Proceeds
<1>2. \A d \in Call : /\ pc'[d] = "fulfilled" /\ event'[d] \in Payable
                      /\ pc[d] # "fulfilled" \/ event'[d] # event[d]
                      => granted'[event'[d]] > 0
  BY DEF Proceeds
<1>3. \A d \in Call : pc'[d] = "received" => d \in webhook'
  BY DEF Proceeds, PaymentInvariant
<1> QED
  BY <1>1, <1>2, <1>3 DEF Proceeds, Keeps

LEMMA StepForgotten ==
  TypeOK /\ PaymentInvariant /\ [Next]_vars => PaymentInvariant'
<1> SUFFICES ASSUME TypeOK, PaymentInvariant, [Next]_vars PROVE PaymentInvariant'
  OBVIOUS
<1> USE PaymentsAssumption
<1>1. ASSUME NEW c \in Call,
             \/ RedisUnavailable(c) \/ CompleteTopup(c) \/ FailTopup(c)
             \/ UpdateSubscription(c) \/ SkipInvoice(c) \/ LockBalance(c)
             \/ ResetMonthlyUsage(c)
             \/ \E e \in Event : Deliver(c, e) \/ VerifyCheckoutSession(c, e)
      PROVE PaymentInvariant'
  <2>1. CASE \E e \in Event : Deliver(c, e) \/ VerifyCheckoutSession(c, e)
    <3>1. Proceeds(c)
      BY <2>1 DEF Deliver, VerifyCheckoutSession, Proceeds, Granting, Begin, Goto,
                  TypeOK, accountVars, providerVars, historyVars
    <3> QED
      BY <3>1, ProceedingKeeps, KeepingInvariant
  <2>2. ASSUME pc[c] \notin {"idle", "fulfilled"},
               NEW l \in Label \ {"idle", "received", "fulfilled"}, Goto(c, l),
               UNCHANGED <<event, webhook, paid, pending, dedupKeys, granted, spoiled>>
        PROVE Proceeds(c)
    BY <2>2 DEF Proceeds, Granting, Goto, Label, TypeOK
  <2>3. CASE \/ RedisUnavailable(c) \/ CompleteTopup(c) \/ UpdateSubscription(c)
             \/ LockBalance(c) \/ ResetMonthlyUsage(c)
    <3>1. Proceeds(c)
      BY <2>2, <2>3 DEF RedisUnavailable, CompleteTopup, UpdateSubscription,
         LockBalance, ResetMonthlyUsage, accountVars, providerVars, historyVars, Label
    <3> QED
      BY <3>1, ProceedingKeeps, KeepingInvariant
  <2>4. CASE FailTopup(c) \/ SkipInvoice(c)
    <3>1. /\ pc[c] = "handling" /\ Goto(c, "fulfilled")
          /\ UNCHANGED <<event, webhook, paid, pending, dedupKeys, granted, spoiled>>
      BY <2>4 DEF FailTopup, SkipInvoice, accountVars, providerVars, historyVars
    <3>2. event[c] \notin Payable
      BY <2>4 DEF FailTopup, SkipInvoice, KindOf, Payable
    <3>3. Keeps
      <4>1. \A d \in Call : event[d] \in Payable => Granting(d)' = Granting(d)
        BY <3>1, <3>2 DEF Granting, Goto, TypeOK
      <4>2. \A e \in Payable : OnItsWay(e) => OnItsWay(e)'
        BY <3>1, <4>1 DEF OnItsWay, TypeOK
      <4>3. \A d \in Call : pc'[d] = "received" => d \in webhook'
        BY <3>1 DEF Goto, PaymentInvariant, TypeOK
      <4>4. \A d \in Call : /\ pc'[d] = "fulfilled" /\ event'[d] \in Payable
                            => pc[d] = "fulfilled" /\ event'[d] = event[d]
        BY <3>1, <3>2 DEF Goto, TypeOK
      <4> QED
        BY <3>1, <4>2, <4>3, <4>4 DEF Keeps
    <3> QED
      BY <3>3, KeepingInvariant
  <2> QED
    BY <1>1, <2>1, <2>3, <2>4
<1>2. ASSUME NEW c \in Call, CheckWebhookIdempotency(c) PROVE PaymentInvariant'
  <2>1. CASE event[c] \in dedupKeys
    <3>1. /\ pc' = [pc EXCEPT ![c] = "idle"]
          /\ event' = [event EXCEPT ![c] = NoEvent]
          /\ webhook' = webhook \ {c}
          /\ pending' = pending \/ pending' = pending \ {event[c]}
          /\ UNCHANGED <<paid, dedupKeys, granted, spoiled>>
      BY <1>2, <2>1 DEF CheckWebhookIdempotency, Acknowledge, End, Begin, Goto,
                        accountVars, historyVars
    <3>2. ~ Granting(c)
      BY <1>2 DEF CheckWebhookIdempotency, Granting
    <3>3. Keeps
      <4>1. \A d \in webhook : Granting(d) => /\ d \in webhook' /\ Granting(d)'
                                              /\ event'[d] = event[d]
        BY <3>1, <3>2 DEF Granting, TypeOK
      <4>2. \A e \in Payable : OnItsWay(e) => OnItsWay(e)'
        BY <3>1, <4>1 DEF OnItsWay
      <4>3. \A d \in Call : pc'[d] = "received" => d \in webhook'
        BY <3>1 DEF PaymentInvariant, TypeOK
      <4> QED
        BY <2>1, <3>1, <4>2, <4>3 DEF Keeps, TypeOK
    <3> QED
      BY <3>3, KeepingInvariant
  <2>2. CASE event[c] \notin dedupKeys
    <3>1. /\ dedupKeys' = dedupKeys \cup {event[c]}
          /\ pc' = [pc EXCEPT ![c] = "handling"]
          /\ UNCHANGED <<event, webhook, paid, pending, granted, spoiled>>
      BY <1>2, <2>2 DEF CheckWebhookIdempotency, Goto, accountVars, historyVars
    <3>2. c \in webhook
      BY <1>2 DEF CheckWebhookIdempotency, PaymentInvariant
    <3>3. \A e \in Payable : OnItsWay(e) => OnItsWay(e)'
      BY <3>1 DEF OnItsWay, Granting, TypeOK
    <3>4. OnItsWay(event[c])'
      BY <3>1, <3>2 DEF OnItsWay, Granting, TypeOK
    <3>5. \A d \in Call : pc'[d] = "received" => d \in webhook'
      BY <3>1 DEF PaymentInvariant, TypeOK
    <3> QED
      BY <3>1, <3>3, <3>4, <3>5, KeepingInvariant DEF Keeps, TypeOK
  <2> QED
    BY <2>1, <2>2
<1>3. ASSUME NEW c \in Call, FulfillGuestSubscription(c) \/ AddCredits(c)
      PROVE PaymentInvariant'
  <2>1. /\ granted' = [granted EXCEPT ![event[c]] = @ + 1]
        /\ pc' = [pc EXCEPT ![c] = "fulfilled"]
        /\ UNCHANGED <<event, webhook, paid, pending, dedupKeys, spoiled>>
    BY <1>3 DEF FulfillGuestSubscription, AddCredits, Goto, providerVars, historyVars
  <2>2. event[c] \in Event /\ granted'[event[c]] > 0
    BY <1>3, <2>1 DEF FulfillGuestSubscription, AddCredits, TypeOK
  <2>3. \A e \in Event : granted[e] > 0 => granted'[e] > 0
    BY <2>1, <2>2 DEF TypeOK
  <2>4. \A e \in Payable : OnItsWay(e) => OnItsWay(e)'
    BY <2>1, <2>2, <2>3 DEF OnItsWay, Granting, TypeOK, Payable
  <2>5. \A d \in Call : pc'[d] = "received" => d \in webhook'
    BY <2>1 DEF PaymentInvariant, TypeOK
  <2> QED
    BY <2>1, <2>2, <2>3, <2>4, <2>5, KeepingInvariant DEF Keeps, TypeOK
<1>4. ASSUME NEW c \in Call, Reply(c) PROVE PaymentInvariant'
  <2>1. /\ pc' = [pc EXCEPT ![c] = "idle"]
        /\ event' = [event EXCEPT ![c] = NoEvent]
        /\ webhook' = webhook \ {c}
        /\ pending' = pending \/ pending' = pending \ {event[c]}
        /\ UNCHANGED <<paid, dedupKeys, granted, spoiled>>
    BY <1>4 DEF Reply, Acknowledge, End, Begin, Goto, accountVars, historyVars
  <2>2. ~ Granting(c) /\ (event[c] \in Payable => granted[event[c]] > 0)
    BY <1>4 DEF Reply, Granting, PaymentInvariant
  <2>3. \A e \in Payable : OnItsWay(e) => OnItsWay(e)'
    BY <2>1, <2>2 DEF OnItsWay, Granting, TypeOK
  <2>4. \A d \in Call : pc'[d] = "received" => d \in webhook'
    BY <2>1 DEF PaymentInvariant, TypeOK
  <2> QED
    BY <2>1, <2>2, <2>3, <2>4, KeepingInvariant DEF Keeps, TypeOK
<1>5. ASSUME NEW c \in Call, HandlerFails(c) PROVE PaymentInvariant'
  <2>1. /\ pc' = [pc EXCEPT ![c] = "idle"]
        /\ event' = [event EXCEPT ![c] = NoEvent]
        /\ webhook' = webhook \ {c}
        /\ UNCHANGED <<paid, pending, dedupKeys, granted>>
    BY <1>5 DEF HandlerFails, Refuse, End, Begin, Goto
  <2>2. spoiled \subseteq spoiled'
    BY <1>5 DEF HandlerFails
  <2>3. ASSUME NEW e \in Payable \cap dedupKeys PROVE OnItsWay(e)'
    <3>1. CASE c \in webhook /\ event[c] = e /\ Granting(c)
      <4>1. e \in spoiled'
        BY <1>5, <2>3, <3>1 DEF HandlerFails, Granting
      <4> QED
        BY <4>1 DEF OnItsWay
    <3>2. CASE ~ (c \in webhook /\ event[c] = e /\ Granting(c))
      <4>1. OnItsWay(e)
        BY <2>3 DEF PaymentInvariant
      <4> QED
        BY <2>1, <2>2, <3>2, <4>1 DEF OnItsWay, Granting, TypeOK
    <3> QED
      BY <3>1, <3>2
  <2>4. \A d \in Call : pc'[d] = "fulfilled" => pc[d] = "fulfilled" /\ event'[d] = event[d]
    BY <2>1 DEF TypeOK
  <2>5. \A d \in Call : pc'[d] = "received" => d \in webhook'
    BY <2>1 DEF PaymentInvariant, TypeOK
  <2> QED
    BY <2>1, <2>3, <2>4, <2>5 DEF PaymentInvariant, Payable
<1>6. CASE (\E m \in Msg : Charge(m)) \/ UNCHANGED vars
  BY <1>6 DEF Charge, vars, PaymentInvariant, OnItsWay, Granting, Payable, callVars,
              accountVars, historyVars, providerVars
<1> QED
  BY <1>1, <1>2, <1>3, <1>4, <1>5, <1>6 DEF Next, CallStep

\* A payment that is not delivered any more is granted, spoiled, or in the hands of
\* a webhook: whichever of its deliveries overlap, fail or are answered first.
THEOREM NoneForgotten == Spec => []NoPaymentForgotten
<1>1. PaymentInvariant => NoPaymentForgotten
  BY DEF PaymentInvariant, NoPaymentForgotten, OnItsWay
<1> QED
  BY <1>1, InitForgotten, StepForgotten, TypeCorrect, PTL DEF Spec

-------------------------------------------------------------------------------
\* What a call has read under FOR UPDATE is still the row, and the column
\* available is what the other two say.
LockInvariant ==
  /\ balance.available = balance.total - balance.used
  /\ \A c \in Call : pc[c] \in {"resetting", "crediting"}
                     => rowLock = c /\ seen[c] = balance

LEMMA InitLock == Init => LockInvariant
  BY PaymentsAssumption DEF Init, LockInvariant

\* A step that leaves the row and the lock alone, or gives its own lock back,
\* and does not take a call into the critical part.
Outside(c) ==
  /\ balance' = balance
  /\ rowLock' = rowLock \/ rowLock = c
  /\ pc'[c] \notin {"resetting", "crediting"}
  /\ \A d \in Call \ {c} : pc'[d] = pc[d] /\ seen'[d] = seen[d]

LEMMA OutsideKeepsLock ==
  ASSUME LockInvariant, NEW c \in Call, Outside(c)
  PROVE  LockInvariant'
  BY DEF LockInvariant, Outside

\* All steps of a call but the three that are about the row.
LEMMA StepOutside ==
  ASSUME TypeOK, NEW c \in Call,
         \/ CheckWebhookIdempotency(c) \/ RedisUnavailable(c) \/ CompleteTopup(c)
         \/ FailTopup(c) \/ UpdateSubscription(c) \/ FulfillGuestSubscription(c)
         \/ SkipInvoice(c) \/ Reply(c) \/ HandlerFails(c)
         \/ \E e \in Event : Deliver(c, e) \/ VerifyCheckoutSession(c, e)
  PROVE  Outside(c) /\ charged' = charged
<1>1. ASSUME NEW e \in Event, Deliver(c, e) \/ VerifyCheckoutSession(c, e)
      PROVE Outside(c) /\ charged' = charged
  BY <1>1 DEF Deliver, VerifyCheckoutSession, Outside, Begin, Goto, TypeOK, accountVars
<1>2. ASSUME CheckWebhookIdempotency(c) PROVE Outside(c) /\ charged' = charged
  BY <1>2 DEF CheckWebhookIdempotency, Outside, Begin, End, Goto, TypeOK, accountVars
<1>3. ASSUME \/ RedisUnavailable(c) \/ CompleteTopup(c) \/ FailTopup(c)
             \/ UpdateSubscription(c) \/ FulfillGuestSubscription(c) \/ SkipInvoice(c)
      PROVE Outside(c) /\ charged' = charged
  BY <1>3 DEF RedisUnavailable, CompleteTopup, FailTopup, UpdateSubscription,
              FulfillGuestSubscription, SkipInvoice, Outside, Goto, TypeOK, accountVars
<1>4. ASSUME Reply(c) \/ HandlerFails(c) PROVE Outside(c) /\ charged' = charged
  BY <1>4 DEF Reply, HandlerFails, Outside, Begin, End, Goto, TypeOK, accountVars
<1> QED
  BY <1>1, <1>2, <1>3, <1>4

LEMMA StepLock == TypeOK /\ LockInvariant /\ [Next]_vars => LockInvariant'
<1> SUFFICES ASSUME TypeOK, LockInvariant, [Next]_vars PROVE LockInvariant'
  OBVIOUS
<1> USE PaymentsAssumption
<1>1. ASSUME NEW c \in Call, LockBalance(c) PROVE LockInvariant'
  BY <1>1 DEF LockBalance, LockInvariant, Goto, TypeOK
<1>2. ASSUME NEW c \in Call, ResetMonthlyUsage(c) \/ AddCredits(c)
      PROVE LockInvariant'
  <2>1. rowLock = c /\ seen[c] = balance
    BY <1>2 DEF ResetMonthlyUsage, AddCredits, LockInvariant
  <2>2. \A d \in Call : pc'[d] \notin {"resetting", "crediting"}
    BY <1>2, <2>1 DEF ResetMonthlyUsage, AddCredits, LockInvariant, Goto, TypeOK
  <2>3. balance'.available = balance'.total - balance'.used
    <3>1. event[c] \in Event /\ Credits[event[c]] \in Nat
      BY <1>2 DEF ResetMonthlyUsage, AddCredits, TypeOK
    <3>2. CASE ResetMonthlyUsage(c)
      BY <2>1, <3>2 DEF ResetMonthlyUsage, TypeOK, Balance
    <3>3. CASE AddCredits(c)
      <4> DEFINE n == balance.total + Credits[event[c]]
      <4>1. n \in Nat /\ balance.used \in Nat
        BY <3>1 DEF TypeOK, Balance
      <4>2. balance'.total = n /\ balance'.used = balance.used
        BY <2>1, <3>1, <3>3 DEF AddCredits, TypeOK, Balance
      <4>3. balance'.available = n - balance.used
        BY <2>1, <3>1, <3>3 DEF AddCredits, TypeOK, Balance
      <4> HIDE DEF n
      <4> QED
        BY <4>1, <4>2, <4>3
    <3> QED
      BY <1>2, <3>2, <3>3
  <2> QED
    BY <2>2, <2>3 DEF LockInvariant
<1>3. ASSUME NEW m \in Msg, Charge(m) PROVE LockInvariant'
  <2>1. \A c \in Call : pc[c] \notin {"resetting", "crediting"}
    BY <1>3 DEF Charge, LockInvariant
  <2>2. balance'.available = balance'.total - balance'.used
    BY <1>3 DEF Charge, TypeOK, Balance
  <2> QED
    BY <1>3, <2>1, <2>2 DEF Charge, LockInvariant, callVars
<1>4. CASE UNCHANGED vars
  BY <1>4 DEF vars, accountVars, callVars, LockInvariant
<1> QED
  BY <1>1, <1>2, <1>3, <1>4, StepOutside, OutsideKeepsLock DEF Next, CallStep

LEMMA InvariantHolds == Spec => [](TypeOK /\ LockInvariant)
  BY InitTypeOK, StepTypeOK, InitLock, StepLock, PTL DEF Spec

-------------------------------------------------------------------------------
\* The total as the lemmas about sums see it.
Accounted == balance.total = InitialCredits + WeightedSum(granted, Credits, Event)

LEMMA CreditsAreIntegers == Credits \in [Event -> Int] /\ IsFiniteSet(Event)
  BY PaymentsAssumption

LEMMA InitAccounted == Init => Accounted
<1> SUFFICES ASSUME Init PROVE Accounted
  OBVIOUS
<1>1. granted \in [Event -> Int] /\ \A e \in Event : granted[e] = 0
  BY DEF Init
<1>2. WeightedSum(granted, Credits, Event) = 0
  BY <1>1, CreditsAreIntegers, SumIsZero
<1>3. balance.total = InitialCredits /\ InitialCredits \in Nat
  BY PaymentsAssumption DEF Init
<1> QED
  BY <1>2, <1>3 DEF Accounted

\* The sum in the next state is the sum of what was granted by then.
LEMMA SumOfNext ==
  WeightedSum(granted, Credits, Event)' = WeightedSum(granted', Credits, Event)
BY Zenon DEF WeightedSum, MapThenSumSet, MapThenFoldSet

\* One more grant of event e adds its credits to the sum.
LEMMA GrantAddsCredits ==
  ASSUME TypeOK, NEW e \in Event, granted' = [granted EXCEPT ![e] = @ + 1]
  PROVE  WeightedSum(granted, Credits, Event)'
           = WeightedSum(granted, Credits, Event) + Credits[e]
<1> DEFINE h == granted'
           d == Credits[e]
<1>1. granted \in [Event -> Int] /\ h \in [Event -> Int]
  BY DEF TypeOK
<1>2. granted[e] \in Nat /\ h[e] = granted[e] + 1 /\ Credits[e] \in Nat
  BY PaymentsAssumption DEF TypeOK
<1>3. \A x \in Event \ {e} : h[x] * Credits[x] = granted[x] * Credits[x]
  BY DEF TypeOK
<1>4. h[e] * Credits[e] = granted[e] * Credits[e] + d
  <2>1. \A n, k \in Nat : (n + 1) * k = n * k + k
    OBVIOUS
  <2> QED
    BY <1>2, <2>1
<1>5. d \in Int
  BY <1>2
<1> HIDE DEF h, d
<1>6. WeightedSum(h, Credits, Event) = WeightedSum(granted, Credits, Event) + d
  BY <1>1, <1>3, <1>4, <1>5, CreditsAreIntegers, SumGrows
<1> QED
  BY <1>6, SumOfNext DEF h, d

LEMMA StepAccounted ==
  TypeOK /\ LockInvariant /\ Accounted /\ [Next]_vars => Accounted'
<1> SUFFICES ASSUME TypeOK, LockInvariant, Accounted, [Next]_vars PROVE Accounted'
  OBVIOUS
<1> USE PaymentsAssumption
<1>0. WeightedSum(granted, Credits, Event) \in Int
  <2>1. granted \in [Event -> Int]
    BY DEF TypeOK
  <2> QED
    BY <2>1, CreditsAreIntegers, SumIsInteger
<1>1. ASSUME NEW c \in Call, AddCredits(c) PROVE Accounted'
  <2>1. seen[c] = balance /\ event[c] \in Event
    BY <1>1 DEF AddCredits, LockInvariant, TypeOK
  <2>2. balance'.total = balance.total + Credits[event[c]]
    BY <1>1, <2>1 DEF AddCredits, TypeOK, Balance
  <2>3. granted' = [granted EXCEPT ![event[c]] = @ + 1]
    BY <1>1 DEF AddCredits
  <2>4. Credits[event[c]] \in Nat
    BY <2>1
  <2>5. WeightedSum(granted, Credits, Event)'
          = WeightedSum(granted, Credits, Event) + Credits[event[c]]
    BY <2>1, <2>3, GrantAddsCredits
  <2> QED
    BY <1>0, <2>2, <2>4, <2>5 DEF Accounted
<1>2. ASSUME NEW c \in Call, FulfillGuestSubscription(c) PROVE Accounted'
  <2>1. event[c] \in Event /\ Credits[event[c]] = 0
    BY <1>2 DEF FulfillGuestSubscription, KindOf, TypeOK
  <2>2. balance' = balance /\ granted' = [granted EXCEPT ![event[c]] = @ + 1]
    BY <1>2 DEF FulfillGuestSubscription
  <2>3. WeightedSum(granted, Credits, Event)'
          = WeightedSum(granted, Credits, Event) + 0
    BY <2>1, <2>2, GrantAddsCredits
  <2> QED
    BY <1>0, <2>2, <2>3 DEF Accounted
<1>3. ASSUME granted' = granted, balance'.total = balance.total PROVE Accounted'
  BY <1>3, SumOfNext DEF Accounted
<1>4. ASSUME NEW c \in Call,
             \/ CheckWebhookIdempotency(c) \/ RedisUnavailable(c) \/ CompleteTopup(c)
             \/ FailTopup(c) \/ UpdateSubscription(c) \/ SkipInvoice(c)
             \/ LockBalance(c) \/ ResetMonthlyUsage(c) \/ Reply(c) \/ HandlerFails(c)
             \/ \E e \in Event : Deliver(c, e) \/ VerifyCheckoutSession(c, e)
      PROVE granted' = granted /\ balance'.total = balance.total
  BY <1>4 DEF CheckWebhookIdempotency, RedisUnavailable, CompleteTopup, FailTopup,
              UpdateSubscription, SkipInvoice, LockBalance, ResetMonthlyUsage,
              Reply, HandlerFails, Deliver, VerifyCheckoutSession, accountVars,
              TypeOK, Balance
<1>5. ASSUME NEW m \in Msg, Charge(m)
      PROVE  granted' = granted /\ balance'.total = balance.total
  BY <1>5 DEF Charge, TypeOK, Balance
<1>6. CASE UNCHANGED vars
  BY <1>3, <1>6 DEF vars, accountVars
<1> QED
  BY <1>1, <1>2, <1>3, <1>4, <1>5, <1>6 DEF Next, CallStep

\* The total on the row is what the tenant started with and what every grant was
\* worth, and the available credits are that total less what is consumed: of
\* concurrent webhooks, renewals and deductions on the one row none loses what
\* another has written, for any number of events and calls.
THEOREM TotalAccounted == Spec => []CreditsAccounted
<1>1. Accounted /\ LockInvariant => CreditsAccounted
  BY DEF Accounted, LockInvariant, CreditsAccounted, WeightedSum
<1> QED
  BY <1>1, InvariantHolds, InitAccounted, StepAccounted, PTL DEF Spec

-------------------------------------------------------------------------------
\* Every step is a charge, a grant or a renewal of the abstract account as a
\* whole, or leaves it alone.
LEMMA StepRefines ==
  TypeOK /\ LockInvariant /\ [Next]_vars => [Account!AccountNext]_(Account!vars)
<1> SUFFICES ASSUME TypeOK, LockInvariant, [Next]_vars
             PROVE  [Account!AccountNext]_(Account!vars)
  OBVIOUS
<1> USE PaymentsAssumption
<1>1. ASSUME NEW c \in Call, ResetMonthlyUsage(c) PROVE Account!Renew
  BY <1>1 DEF ResetMonthlyUsage, LockInvariant, Account!Renew, TypeOK, Balance
<1>2. ASSUME NEW c \in Call, AddCredits(c) PROVE Account!Grant(Credits[event[c]])
  <2>1. seen[c] = balance
    BY <1>2 DEF AddCredits, LockInvariant
  <2> QED
    BY <1>2, <2>1 DEF AddCredits, Account!Grant, TypeOK, Balance
<1>3. ASSUME NEW c \in Call, AddCredits(c) PROVE Account!AccountNext
  <2>1. event[c] \in Event
    BY <1>3 DEF AddCredits, TypeOK
  <2> QED
    BY <1>2, <1>3, <2>1 DEF Account!AccountNext
<1>4. ASSUME NEW m \in Msg, Charge(m) PROVE Account!Charge(m)
  <2>1. balance.used + Cost <= balance.total
    BY <1>4 DEF Charge, LockInvariant, TypeOK, Balance
  <2> QED
    BY <1>4, <2>1 DEF Charge, Account!Charge, TypeOK, Balance
<1>5. ASSUME NEW c \in Call, LockBalance(c) PROVE UNCHANGED Account!vars
  BY <1>5 DEF LockBalance, Account!vars
<1>6. ASSUME NEW c \in Call, Outside(c), charged' = charged
      PROVE UNCHANGED Account!vars
  BY <1>6 DEF Outside, Account!vars
<1>7. CASE UNCHANGED vars
  BY <1>7 DEF vars, accountVars, Account!vars
<1> QED
  BY <1>1, <1>3, <1>4, <1>5, <1>6, <1>7, StepOutside
     DEF Next, CallStep, Account!AccountNext

LEMMA InitRefines == Init => Account!Init
  BY DEF Init, Account!Init

\* Webhooks, verified checkouts, renewals and deductions on one balance row
\* implement the abstract account: no addition is lost, no renewal is undone, no
\* charge exceeds the credits.
THEOREM ImplementsAccount == Spec => AccountSpec
  BY InitRefines, StepRefines, InvariantHolds, PTL
     DEF Spec, AccountSpec, Account!AccountSpec
===============================================================================
