CONSTANTS
  MaxRequests = 2
  MainThread = MainThread
  TickLoop = TickLoop
  Unlocked = Unlocked

SPECIFICATION ServeSpec

INVARIANTS
  OffStops
CHECK_DEADLOCK FALSE
