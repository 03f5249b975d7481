SPECIFICATION Spec
CONSTANTS
  Tasks = {t1, t2}
  DgramStates = {d1, d2}
  NoDgram = NoDgram
  MaxQueue = 1
  MaxEvents = 2
SYMMETRY Symmetry
INVARIANTS TypeOK ErrorWhenLost NoLostWakeup QueuedStateIsCurrent
PROPERTY LossIsFinal
