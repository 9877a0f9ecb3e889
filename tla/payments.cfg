SPECIFICATION FairSpec
CONSTANTS
  c1 = c1
  c2 = c2
  m1 = m1
  checkout = checkout
  topup_paid = topup_paid
  access = access
  invoice = invoice
  topup_failed = topup_failed
  paddle_checkout = paddle_checkout
  paddle_topup = paddle_topup
  Event = {checkout, topup_paid, access, invoice, topup_failed, paddle_checkout, paddle_topup}
  Kind <- Kinds
  Credits <- Worth
  Call = {c1, c2}
  NoCall = NoCall
  NoEvent = NoEvent
  Msg = {m1}
  Cost = 1
  InitialCredits = 1
  LinkedAtStart = FALSE
  Batches <- StripeAndPaddle
  MaxErrors = 1
  MaxOutages = 1
  MaxVerifications = 1
CHECK_DEADLOCK FALSE
INVARIANTS TypeOK HandledOnce CreditsAccounted NoPaymentForgotten
PROPERTIES AccountSpec FulfilledUnlessSpoiled
