SPECIFICATION Spec
CONSTANTS
  Absent = Absent
  Devices = {1, 2}
  Names = {"doc"}
  Lines = {1, 2}
  Skew <- NoSkew
  Second = 1
  Seeded = {}
  InitLines = {}
  MayRemove = TRUE
  MayTear = FALSE
  MaxEdits = 2
  MaxFaults = 1
INVARIANTS
  TypeOK
  BlobBeforeJournal
  CursorHonest
  CacheHonest
  LoserKept
PROPERTIES
  ClockDominates
  HistoryKeepsAll
  ReplicatesJournals
