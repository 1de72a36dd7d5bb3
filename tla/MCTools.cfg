SPECIFICATION FairToolsSpec
CONSTANTS
  helena = helena
  richard = richard
  Root = Root
  None = None
  Customers = {helena, richard}
  Invoices = {1, 2, 3}
  Lines = {1, 2, 3, 4}
  Tracks = {1, 2, 3, 4}
  Albums = {1, 2}
  Artists = {1, 2}
  Genres = {1, 2}
  NoGenre = 0
  Databases <- MCDatabases
  MaxInvoiceLimit = 2
  MaxRecommendations = 3
  AffinityGenres = 1
  Limits = {0, 1, 2, 5}
  Years = {1, 2}
  MaxCalls = 3
  MaxToolCalls = 2
  MaxSpecialistCalls = 2
  MaxRetries = 1
  Served <- MCServed
INVARIANTS
  RecommendationsAreSound
  ReadsAgree
  NoForeignResult
  EvidenceKept
  SiblingsAreApart
  TrajectoryIsComplete
PROPERTIES
  StepsAreSpent
  EveryTurnEnds
