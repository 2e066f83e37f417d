SPECIFICATION SpecHist
CONSTANTS
  Absent = Absent
  Devices = {1, 2}
  Names = {"doc"}
  Lines = {1, 2, 3}
  Skew <- NoSkew
  Second = 1
  Seeded = {1}
  InitLines = {1}
  MayRemove = TRUE
  MayTear = FALSE
  MaxEdits = 3
  MaxFaults = 0
  CyclesOverlap = FALSE
  SavesOverlap = FALSE
INVARIANTS
  NoSilentLoss
