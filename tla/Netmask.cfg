CONSTANTS
  Octets = {0, 1, 127, 128, 192, 240, 254, 255}
  Refused = Refused
SPECIFICATION Spec
INVARIANT InverseOfPrefix
CHECK_DEADLOCK FALSE
