CONSTANTS
  Operations <- Program
  Models <- MCModels
  MaxGap = 4
  MaxPerRead = 32
  MaxOperations = 2
  MaxFailures = 1

SPECIFICATION BulkSpec

INVARIANT
  AllSettingsRead
CHECK_DEADLOCK FALSE
