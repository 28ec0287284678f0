SPECIFICATION Spec
CONSTANTS
  Fetches = {f1}
  Existing = {d1}
  Identities <- TwoTypes
  Requests <- TypedBodies
  Subscribed = {"daily"}
  Foreign = {"daily"}
  MaxPages = 2
  MaxClock = 1
  Faults = {"recorder", "stream", "cancel", "crash", "reaper"}
  ReaperDeletes = TRUE
  AuditTables = TRUE
  NoEntry = NoEntry
  NoBar = NoBar
  NoId = NoId
  NoExpiry = NoExpiry
  NoRequest = NoRequest
INVARIANTS
  AllOrNothing
  RunOutcomeTrue
PROPERTIES
  OverridesNameLiveDatasets
CHECK_DEADLOCK FALSE
