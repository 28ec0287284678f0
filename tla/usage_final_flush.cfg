SPECIFICATION Spec
CONSTANTS
  Clients = {c1}
  Exempt = {}
  Overflow = overflow
  Cap = 1
  BufferMax = 3
  RollupAfter = 1
  MaxReads = 3
  MaxDay = 0
  Faults = {"reply"}
  ShortOutages = TRUE
  NoRow = NoRow
INVARIANTS
  FinalFlushWritesThem
CHECK_DEADLOCK FALSE
