\* No window open, no fault.
SPECIFICATION FairSpec
CONSTANTS
  Runs = {r1, r2}
  Clients = {c1, c2}
  Netwatch = Netwatch
  Main = Main
  None = None
  Stalls = {}
  Faults = {}
  MaxNetEvents = 1
INVARIANTS
  SoleEngine
  HandleIsEngine
  CancelSticks
  FailedHasRetry
  ReconnectingHasEngine
PROPERTIES
  StoppedOnRequest
  CancelEndsStopped
  CancelLeavesNoRetry
  ImplementsSession
  CancelEndsEngine
  ReconnectingResolves
  FailedRecovers
