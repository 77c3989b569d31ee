CONSTANTS
  w = w
  c1 = c1
  c2 = c2
  Writes <- MCWrites
  Callbacks <- MCCallbacks
  NoCall = NoCall
  WriteCap = 1
  CallbackCap = 1

SPECIFICATION LiveSpec

INVARIANTS
  CallbackIsAwaited
  AnswersAreTrue
  CallbacksUndisturbed

PROPERTIES
  EveryCallReturns
  StopsWhenTold

\* When the run loop has stopped and every call has returned nothing is left.
CHECK_DEADLOCK FALSE
