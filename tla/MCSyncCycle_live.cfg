SPECIFICATION FairSpec
CONSTANTS
  Absent = Absent
  Devices = {1, 2}
  Names = {"doc"}
  Lines = {1}
  Skew <- FastFirst
  Second = 1
  Seeded = {}
  InitLines = {}
  MayRemove = TRUE
  MayTear = TRUE
  MaxEdits = 2
  MaxFaults = 1
INVARIANTS
  JournalChain
PROPERTIES
  Converges
