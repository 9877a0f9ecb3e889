SPECIFICATION Spec
CONSTANTS
  m1 = m1
  m2 = m2
  w1 = w1
  w2 = w2
  Msg = {m1, m2}
  Worker = {w1, w2}
  NoWorker = NoWorker
  NoJob = NoJob
  BaseCost = 1
  Markup = 1
  InitialCredits = 3
  TopUpAmount = 1
  MaxRetries = 1
  Period = 1440
  Grace = 60
  Window = 1440
  Limit = 2
  MaxErrors = 1
  MaxOutages = 0
  MaxKills = 0
  MaxCrashes = 1
  MaxTopUps = 1
  Instants <- NoonRun
INVARIANTS TypeOK ChargedOnce LedgerMatches NeverOverdrawn RevenueOnce
PROPERTIES LedgerSpec
SYMMETRY Symmetry
