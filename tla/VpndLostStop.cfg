\* A stop arrives before the engine has its pipe.
SPECIFICATION FairSpec
CONSTANTS
  Runs = {r1, r2}
  Clients = {c1}
  Netwatch = Netwatch
  Main = Main
  None = None
  Stalls = {}
  Faults = {}
  MaxNetEvents = 0
PROPERTIES
  StopEndsEngine
