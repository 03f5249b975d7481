SPECIFICATION Spec
CONSTANTS
  Listeners = {l1}
  Connections = {c1, c2}
  Streams = {s1}
  MaxRefs = 2
INVARIANTS IdleMeansClosed RegistrationOutlives
PROPERTY DrainsEventually
CHECK_DEADLOCK FALSE
