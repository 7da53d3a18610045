\* A probe every 20 s: restarts fit into their 30 s, shutdowns need not fit
\* into their 15 s.
SPECIFICATION Spec
CONSTANTS
  Interval = 20
  CurlTime = 5
  LibTime = 2
  RestartWait = 30
  ShutdownWait = 15
INVARIANTS
  TypeOK
  ProbeOfSession
  JoinBounded
  RestartInTime
