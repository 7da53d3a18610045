\* The watcher acts late.
SPECIFICATION Spec
CONSTANTS
  Runs = {r1, r2}
  Clients = {c1}
  Netwatch = Netwatch
  Main = Main
  None = None
  Stalls = {"pause"}
  Faults = {}
  MaxNetEvents = 1
INVARIANTS
  ReconnectingHasEngine
