CONSTANTS
  lan = lan
  wifi = wifi
  ppp = ppp
  g1 = g1
  g2 = g2
  s1 = s1
  c1 = c1
  c2 = c2
  Systems = {"linux"}
  Paths = {lan, wifi}
  NoVia = {}
  Gateways = {g1}
  Split = {s1}
  Preserved = {c1}
  NoPath = NoPath
  Tun = Tun
  None = None
  SaveMayFail = FALSE
  MaxMoves = 1
  MaxEdits = 0
SPECIFICATION Spec
INVARIANT ExactUndo
