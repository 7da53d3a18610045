\* An engine's handle is stored late.
SPECIFICATION Spec
CONSTANTS
  Runs = {r1, r2}
  Clients = {c1, c2}
  Netwatch = Netwatch
  Main = Main
  None = None
  Stalls = {"store"}
  Faults = {}
  MaxNetEvents = 0
INVARIANTS
  SoleEngine
