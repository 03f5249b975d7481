SPECIFICATION Spec
CONSTANTS
  Tasks = {t1, t2, t3}
  MaxConns = 2
  MaxStarts = 2
INVARIANTS TypeOK NoLostWakeup StopIsDue NothingAfterFinished
PROPERTY StopResolves
