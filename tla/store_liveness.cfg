SPECIFICATION LiveSpec
CONSTANTS
  Fetches = {f1, f2}
  Existing = {}
  Identities <- OneKey
  Requests <- OneBody
  Subscribed = {"daily"}
  Foreign = {}
  MaxPages = 1
  MaxClock = 1
  Faults = {"stream"}
  ReaperDeletes = TRUE
  AuditTables = TRUE
  NoEntry = NoEntry
  NoBar = NoBar
  NoId = NoId
  NoExpiry = NoExpiry
  NoRequest = NoRequest
PROPERTIES
  FetchesEnd
  ExpiredDatasetsGo
CHECK_DEADLOCK FALSE
