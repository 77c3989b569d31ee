CONSTANTS
  Candidates <- MCCandidates
  Others = {12}
  ProbeTimeout = 3
  ProbeGap = 1
  PollInterval = 7
  SettingsInterval = 14
  InitialQuiet = 1
  InitialSettings = 9
  MaxProbeRetry = 1
  MaxSettingsRetry = 1
  MaxDisconnects = 1
  N = 2
  OwnerCaps <- MCOwnerCaps
  NoJournal = NoJournal
  LossyDisk = TRUE
  MaxFaults = 2

SPECIFICATION BusSpec

INVARIANTS
  QueueSound
  JournalReserved
  NoSurge
  SessionAgrees

PROPERTIES
  RequestsTakeTurns
  PolledForever
