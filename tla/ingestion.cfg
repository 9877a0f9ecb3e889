SPECIFICATION FairSpec
CONSTANTS
  m1 = m1
  m2 = m2
  m3 = m3
  m4 = m4
  m5 = m5
  d1 = d1
  d2 = d2
  k1 = k1
  k2 = k2
  Message = {m1, m2, m3, m4, m5}
  Doc = {d1, d2}
  Kb = {k1, k2}
  Worker = {w1, w2}
  DocOf <- Documents
  KbOf <- Streams
  NoKb = NoKb
  Short = {m4}
  Malformed = {m5}
  Chunkless = {m3}
  BatchSize = 2
  Budgets <- FaultsOrDeletion
INVARIANTS TypeOK SeenIsIndexed AckedIsHandled
PROPERTIES DocumentsIndexed
CHECK_DEADLOCK FALSE
