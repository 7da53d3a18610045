\* Two threads that change the status, one subscriber.
SPECIFICATION FairSpec
CONSTANTS
  Setters = {engine, watcher}
  Watchers = {w1}
  Torn = Torn
  MaxCalls = 3
INVARIANTS
  TypeOK
  FileSettles
  NewestIsSent
  OvertakenBounded
PROPERTIES
  NewestIsShown
