SPECIFICATION FairSpec
CONSTANTS
  Tasks = {t1, t2}
  DgramStates = {d1}
  NoDgram = NoDgram
  MaxQueue = 0
  MaxEvents = 1
PROPERTIES ShutdownResolves LossResolves
