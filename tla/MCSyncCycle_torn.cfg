SPECIFICATION Spec
CONSTANTS
  Absent = Absent
  Devices = {1}
  Names = {"doc"}
  Lines = {1, 2}
  Skew <- NoSkew
  Second = 1
  Seeded = {}
  InitLines = {}
  MayRemove = TRUE
  MayTear = TRUE
  MaxEdits = 4
  MaxFaults = 1
INVARIANT BlobBeforeJournal
