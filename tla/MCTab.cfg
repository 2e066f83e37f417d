SPECIFICATION TabSpec
CONSTANTS
  Tabs = {1, 2}
  Buffer = 1
  MaxWrites = 2
  MaxFaults = 1
  Segments <- MCSegments
  Order <- MCOrder
  NameOf <- MCNames
  OrgOf <- MCOrgs
  Listed = {"p1", "p2"}
  Files <- MCFiles
  URLs <- MCURLs
  Platforms = {"hub", "desktop", "volume"}
  MaxMoves = 2
INVARIANTS TabTypeOK OwnFound StaysCurrent
PROPERTIES AddressSettles AddressKept Arms Heals
CHECK_DEADLOCK FALSE
