SPECIFICATION H3Spec
CONSTANTS
  MaxWrites = 3
  MaxData = 2
INVARIANTS SendsInOrder StreamIsThere
CHECK_DEADLOCK FALSE
