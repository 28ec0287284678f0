SPECIFICATION Spec
CONSTANTS
  Clients = {c1, c2, op}
  Exempt = {op}
  Overflow = overflow
  Cap = 1
  BufferMax = 2
  RollupAfter = 1
  MaxReads = 4
  MaxDay = 2
  Faults = {"database", "reply", "crash", "unmigrated"}
  ShortOutages = TRUE
  NoRow = NoRow
SYMMETRY ClientSymmetry
INVARIANTS
  TypeOK
  NoReadCountedTwice
  CapHolds
PROPERTIES
  LostReadsAreCounted
CHECK_DEADLOCK FALSE
