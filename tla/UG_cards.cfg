SPECIFICATION FairSpec
CONSTANTS
  r1 = r1
  r2 = r2
  r3 = r3
  t1 = t1
  t2 = t2
  yes = yes
  no = no
  Requests = {r1, r2, r3}
  Turns = {t1, t2}
  Choices = {yes, no}
CHECK_DEADLOCK FALSE
INVARIANT TypeOK
INVARIANT OneCardPerTurn
INVARIANT NothingLeaks
PROPERTY ChoiceIsKept
PROPERTY NoCardAfterCancel
PROPERTY NobodyStarves
