\* Every window open, every fault possible.
SPECIFICATION Spec
CONSTANTS
  Runs = {r1, r2}
  Clients = {c1}
  Netwatch = Netwatch
  Main = Main
  None = None
  Stalls = {"store", "pause", "finish"}
  Faults = {"spawn", "panic", "retry", "nul"}
  MaxNetEvents = 1
SYMMETRY Interchangeable
INVARIANTS
  TypeOK
  StatusBacked
  CmdFdOfUnfinishedRun
