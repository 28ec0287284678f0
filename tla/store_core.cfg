SPECIFICATION Spec
CONSTANTS
  Fetches = {f1, f2}
  Existing = {d1}
  Identities <- OneKey
  Requests <- PlainBodies
  Subscribed = {"daily"}
  Foreign = {}
  MaxPages = 1
  MaxClock = 1
  Faults = {"stream", "crash"}
  ReaperDeletes = TRUE
  AuditTables = TRUE
  NoEntry = NoEntry
  NoBar = NoBar
  NoId = NoId
  NoExpiry = NoExpiry
  NoRequest = NoRequest
SYMMETRY FetchSymmetry
INVARIANTS
  TypeOK
  TransactionTargetsHold
  OneRecordPerDeletion
PROPERTIES
  RefreshHonoursStop
  ReaperSpares
  ImplementsLedger
CHECK_DEADLOCK FALSE
