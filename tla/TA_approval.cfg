SPECIFICATION FairSpec
CONSTANTS
  c1 = c1
  c2 = c2
  t1 = t1
  t2 = t2
  p1 = p1
  p2 = p2
  Calls = {c1, c2}
  Subagent = {c2}
  Threads = {t1, t2}
  Patterns = {p1, p2}
  MaxAborts = 2
CHECK_DEADLOCK FALSE
INVARIANT TypeOK
INVARIANT AnswerDecides
INVARIANT LedgerAgrees
INVARIANT NothingLeft
PROPERTY EveryCallEnds
