SPECIFICATION FairSpec
CONSTANTS
  Guards = {g1, g2}
  Waiters = {w1, w2}
  Tasks = {t1, t2}
  NoTask = NoTask
  NoKey = NoKey
INVARIANTS NoLostWakeup SlotsOwned ActiveIsCount
PROPERTY ImplementsBarrier
