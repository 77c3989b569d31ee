CONSTANTS
  a = a
  b = b
  Addrs <- MCAddrs
  Values = {0, 1}
  MaxTries = 2
  VerifyAttempts = 2
  Sites <- MCSites
  MaxFaults = 2
  ForeignPayloads <- MCForeignPayloads
  BufSize = 12
  ProbeSize = 8
  MaxFrames = 4

SPECIFICATION LinksSpec

INVARIANTS
  LinkSound
  ReceptionSound

PROPERTY
  Recovers
