CONSTANTS
  MaxByte = 2
  MaxLength = 10
  MaxChunk = 3
  Addresses = {0, 1}
  Identities = {"battery A", "battery B"}
  MaxInstant = 3
  MaxReports = 4
  MaxConsecutiveGap = 1
  TelemetryMaxAge = 1
  SettingsMaxAge = 2
  Pairs <- MCPairs
  Words <- MCWords
  Texts <- MCTexts
  SystemVoltages <- MCSystemVoltages
  Operations <- MCOperations
  Models <- MCModels
  MaxGap = 4
  MaxPerRead = 32
  MaxOperations = 2
  MaxFailures = 1
  Installations <- MCInstallations
  p1 = p1
  Packs <- MCPacks
  Period = 1
  MaxAge = 1
  MaxOp = 2
  Horizon = 8
  NoTick = NoTick
  NoValue = NoValue
  NumUnits = 3
  PackedFields = {"charge", "discharge"}
  FieldValues = {0, 1}
  c1 = c1
  c2 = c2
  Commands <- MCCommands
  NoLimit = NoLimit
  DefaultLimit = 600
  Limits = {0, 4, 254}
  NumberLimits = {0, 100}

SPECIFICATION ReadingsSpec

\* A computation ends, and so does the time of TickClock.
CHECK_DEADLOCK FALSE

INVARIANTS
  DecoderSound
  SnapshotSound
  CodecSound
  ReadInWhole
  SystemShowsUnits
  SilenceNoticed
  CacheCoherent
  ToggleSound

PROPERTIES
  OnlyTheEdit
  OthersPreserved
  SuccessSynchronizes
