SPECIFICATION FairSpec
CONSTANTS
  w1 = w1
  w2 = w2
  b1 = b1
  b2 = b2
  Worker = {w1, w2}
  Bot = {b1}
  Points <- W1First
  Hash <- BetweenPoints
  NoWorker = NoWorker
  NoBot = NoBot
  Capacity = 2
  Kind <- AllSlack
  SlowStarts = FALSE
  ReuseIds = FALSE
  ActiveAtStart = {b1}
  ApiOps = {}
  MaxConn = 3
  Budgets <- WorkersLeave
CHECK_DEADLOCK FALSE
INVARIANTS ClaimExclusion LockHeld
PROPERTIES OnlyClaimantAssigns RingsAgree ActiveBotsServed SingleConnection
