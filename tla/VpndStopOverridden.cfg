\* A stop arrives while the session has failed.
SPECIFICATION Spec
CONSTANTS
  Runs = {r1, r2}
  Clients = {c1}
  Netwatch = Netwatch
  Main = Main
  None = None
  Stalls = {}
  Faults = {}
  MaxNetEvents = 1
PROPERTIES
  StopStaysInForce
