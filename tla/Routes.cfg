CONSTANTS
  lan = lan
  wifi = wifi
  ppp = ppp
  g1 = g1
  g2 = g2
  s1 = s1
  c1 = c1
  c2 = c2
  Systems = {"linux", "macos"}
  Paths = {lan, wifi, ppp}
  NoVia = {ppp}
  Gateways = {g1, g2}
  Split = {s1, c2}
  Preserved = {c1, c2}
  NoPath = NoPath
  Tun = Tun
  None = None
  SaveMayFail = TRUE
  MaxMoves = 1
  MaxEdits = 1
SPECIFICATION Spec
SYMMETRY Interchangeable
INVARIANTS TypeOK UndonePath CleanIfNoMove
PROPERTY ShieldFirst
