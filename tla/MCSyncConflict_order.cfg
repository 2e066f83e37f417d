SPECIFICATION SpecHist
CONSTANTS
  Absent = Absent
  Devices = {1, 2}
  Names = {"doc"}
  Lines = {1, 2}
  Skew <- NoSkew
  Second = 1
  Seeded = {1}
  InitLines = {2}
  MayRemove = TRUE
  MayTear = FALSE
  MaxEdits = 2
  MaxFaults = 0
  CyclesOverlap = FALSE
  SavesOverlap = FALSE
PROPERTY MergesAgree
