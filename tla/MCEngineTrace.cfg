CONSTANTS
  LastInstant = 8
  ExpectedAddresses <- MCAddresses
  BMSIds <- MCIds
  NoId = "none"
  MaxTelemetryAge = 1
  MaxSettingsAge = 3
  MaxInverterAge = 1
  Instants <- MCInstants
  Inputs <- MCInputs
  MinStageDuration = 2
  TailQualificationDuration = 2
  OverallTimeout = 7

SPECIFICATION TraceSpec

INVARIANTS
  SessionNeverShort
  StagesHeld

PROPERTY
  ImplementsSchedule
