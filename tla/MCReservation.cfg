CONSTANTS
  N = 2
  OwnerCaps <- MCOwnerCaps
  NoJournal = NoJournal
  LossyDisk = FALSE
  MaxFaults = 0

SPECIFICATION Spec

INVARIANT
  ReservationRetained
