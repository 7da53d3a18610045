\* Two commands at a time, two pins, one gateway.
SPECIFICATION Spec
CONSTANTS
  Commands = {c1, c2}
  Urls = {gateway}
  NoUrl = NoUrl
  Pins = {p1, p2}
  NoPin = NoPin
  Rests = {Default, other}
  Default = Default
  Absent = Absent
  Empty = Empty
  Mixed = Mixed
SYMMETRY Interchangeable
INVARIANTS
  TypeOK
  UnreadableHasCause
  FreshKeepsRest
  PinConfirmed
PROPERTIES
  SecretPrivate
  GatewayKept
