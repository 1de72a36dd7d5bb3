SPECIFICATION MCSpec
CONSTANTS
  helena = helena
  richard = richard
  t1 = t1
  t2 = t2
  k1 = k1
  Customers = {helena, richard}
  First = helena
  Threads = {t1, t2}
  Default = Default
  Spare = Spare
  Studio = Studio
  Operator = Operator
  Unknown = Unknown
  NoOne = NoOne
  Tickets = {k1}
  MaxRuns = 1
  MaxEdits = 1
  s1 = s1
  s2 = s2
  w1 = w1
  w2 = w2
  w3 = w3
  Sessions = {s1, s2}
  Turns = {w1, w2, w3}
  PerSession = 3
  PerDay = 3
  ConversationsPerDay = 2
  LastDay = 3
SYMMETRY MCSymmetry
INVARIANTS
  ThreadsHoldOneCustomer
  RunsStayAuthorized
  NobodyIsSentAnothers
  AssistantsArePinned
  SetupIsHonest
  BudgetTypeOK
  SessionLedger
  DayLedger
  DailyCapUpToLateRefunds
  ConversationCap
