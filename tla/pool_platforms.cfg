SPECIFICATION Spec
CONSTANTS
  w1 = w1
  w2 = w2
  b1 = b1
  b2 = b2
  Worker = {w1}
  Bot = {b1, b2}
  Points <- W1First
  Hash <- BetweenPoints
  NoWorker = NoWorker
  NoBot = NoBot
  Capacity = 2
  Kind <- Mixed
  SlowStarts = TRUE
  ReuseIds = TRUE
  ActiveAtStart = {b1}
  ApiOps = {"restart", "activate", "deactivate"}
  MaxConn = 3
  Budgets <- RequestsOverlap
INVARIANTS TypeOK TrackedConnections OnlyEndedGhosts
