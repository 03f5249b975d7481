SPECIFICATION Spec
CONSTANT MaxWrites = 3
INVARIANTS BuffersOwnedOnce SendsWhatWasWritten NoLostWakeup
  ErrorWhenStartLost NoFalseFinish OpenedIsAccepted
PROPERTY LossResolves
CHECK_DEADLOCK FALSE
