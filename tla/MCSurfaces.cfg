SPECIFICATION Spec
CONSTANTS
  MaxWrites = 3
  MaxEdits = 2
  MaxThreads = 2
  MaxActs = 2
  People = {1, 2}
  Levels = {"read"}
  MaxLinks = 2
  Records = {1, 2}
  Values = {1, 2}
  FeedLogs <- MCLogs
  FeedPaths = {1, 2}
  FeedContents = {1, 2}
  PageSize = 2
  FeedWrites = 1
  Characters = {1}
  NL = 0
  PageLetters = {1, 2}
  PageContext = 2
  PageLen = 4
  PageEdits = 2
  TextLen = 5
  CELL_BUDGET = 4
  InsightPlaces <- MCPlaces
  InsightStart <- MCStart
  InsightFilled <- MCFilled
  InsightScopes <- MCScopes
  HotReads = 1
  MaxReads = 1
  TreePaths <- MCPaths
  TreeCopies <- MCCopies
  TreeSystem = {9}
  TreeCap = 1
  TreeChanges = 1
  NoteNames = {1, 2, 3}
  OwnNames = {1}
  Nobody = 3
  NoteStarts <- MCNotes
  MaxLines = 5
  MaxCalls = 2
  MaxOthers = 1
  MaxChanges = 2
CONSTRAINT Bounded
INVARIANTS TypeOK QuoteFound ListsTrue FrameFollows InsightsTrue SeedFresh BannerHasCause
  FeedTrue OfferIsChange FilesAccounted DiffTrue OthersKept LinkTrue PatchesLand SearchTrue
PROPERTIES UndoReverts OnlyChosenWritten
CHECK_DEADLOCK FALSE
