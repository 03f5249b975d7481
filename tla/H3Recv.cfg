SPECIFICATION Spec
CONSTANTS
  MaxBytes = 5
  MaxFragments = 3
  MaxChunks = 3
INVARIANTS BufferViewsNext EndMeansAll PanicsOnlyOnPendingRead
CHECK_DEADLOCK FALSE
