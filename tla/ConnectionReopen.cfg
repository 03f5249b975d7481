SPECIFICATION Spec
CONSTANTS
  Tasks = {t1}
  DgramStates = {d1}
  NoDgram = NoDgram
  MaxQueue = 1
  MaxEvents = 1
PROPERTIES NoDatagramAfterShutdown
