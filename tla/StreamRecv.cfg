SPECIFICATION Spec
CONSTANTS
  Tasks = {t1, t2}
  MaxTotal = 5
  MaxLen = 3
INVARIANTS NoUseAfterFree AllReclaimed NoLostWakeup
PROPERTIES NoCallWhileClosing ImplementsByteStream
CHECK_DEADLOCK FALSE
