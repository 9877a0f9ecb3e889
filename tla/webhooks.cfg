SPECIFICATION FairSpec
CONSTANTS
  r1 = r1
  r2 = r2
  r3 = r3
  d1 = d1
  d2 = d2
  d3 = d3
  d4 = d4
  p = p
  Request = {r1, r2, r3}
  Delivery = {d1, d2, d3, d4}
  Identified = {d1, d2, d3}
  PrEvents = {d1, d2, d3}
  Pr = {p}
  PrOf <- PullRequests
  NoPr = NoPr
  NoDelivery = NoDelivery
  w1 = w1
  w2 = w2
  Worker = {w1, w2}
  NoJob = NoJob
  MaxRetries = 1
  Scenarios <- RepeatedDeliveries
INVARIANTS TypeOK RunsOnce ReplayRejected OneReviewPerPr
PROPERTIES AcceptedEventsEnd
CHECK_DEADLOCK FALSE
