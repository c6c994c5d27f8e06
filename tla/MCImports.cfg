SPECIFICATION MCSpec
CONSTANTS
  Imports = {"i1"}
  Servers = {1, 2}
  Addresses = {"a", "b"}
  Known = {"b"}
  File <- MCFile
  ChunkRows = 2
  MaxStored = 1
  MaxAttempts = 2
  MaxFaults = 2
  MaxEdits = 1
  MaxCustomFields = 1
  MaxLocal = 2
  MaxLength = 8
  MaxCell = 9
  MaxColumns = 3
  MaxRows = 3
  SniffChars = 6
  MaxEntryBytes = 5
  MaxTotalBytes = 8
  MaxRatio = 3
  MaxEntries = 3
INVARIANTS
  OneRunnerPerImport
  CountersTellTheTruth
  ImportDecisionsHold
  FilesReadBack
PROPERTIES
  ImportNeverUnsuppresses
  ConfirmedImportEnds
CHECK_DEADLOCK FALSE
