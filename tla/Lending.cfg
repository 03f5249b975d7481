SPECIFICATION Spec
CONSTANTS
  Buffers = {b1, b2}
  Payloads = {p1, p2}
INVARIANTS SecretsOutliveMsQuic DatagramsOwnedOnce KeysAreLogged
CHECK_DEADLOCK FALSE
