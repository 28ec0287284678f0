SPECIFICATION Spec
CONSTANTS
  Fetches = {f1}
  Existing = {}
  Identities <- OneKey
  Requests <- PlainBodies
  Subscribed = {"daily"}
  Foreign = {}
  MaxPages = 1
  MaxClock = 1
  Faults = {"crash"}
  ReaperDeletes = TRUE
  AuditTables = TRUE
  NoEntry = NoEntry
  NoBar = NoBar
  NoId = NoId
  NoExpiry = NoExpiry
  NoRequest = NoRequest
INVARIANTS
  FinishedRunsNameStoredDatasets
CHECK_DEADLOCK FALSE
