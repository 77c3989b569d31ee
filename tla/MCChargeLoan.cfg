CONSTANTS
  N = 2
  OwnerCaps <- MCOwnerCaps
  NoJournal = NoJournal
  LossyDisk = FALSE
  MaxFaults = 1

SPECIFICATION LiveSpec

INVARIANT
  RecordCoversDeviation

PROPERTIES
  RestoredMeansRestored
  ImplementsLoan
  JournalCleared
