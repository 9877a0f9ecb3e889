SPECIFICATION FairSpec
CONSTANTS
  m1 = m1
  m2 = m2
  w1 = w1
  w2 = w2
  Msg = {m1}
  Worker = {w1}
  NoWorker = NoWorker
  NoJob = NoJob
  BaseCost = 1
  Markup = 1
  InitialCredits = 2
  TopUpAmount = 1
  MaxRetries = 1
  Period = 1440
  Grace = 60
  Window = 1440
  Limit = 2
  MaxErrors = 2
  MaxOutages = 2
  MaxKills = 1
  MaxCrashes = 1
  MaxTopUps = 0
  Instants <- NoonLateRun
PROPERTIES DueMessagesCharged FailedDeductionsCharged
