SPECIFICATION FairTicketsSpec
CONSTANTS
  a1 = a1
  a2 = a2
  r1 = r1
  r2 = r2
  h1 = h1
  helena = helena
  richard = richard
  l1 = l1
  l2 = l2
  None = None
  Attempts = {a1, a2}
  RefundCalls = {r1}
  HandoffCalls = {h1}
  Customers = {helena, richard}
  CallerOf <- MCCallerOf
  Subjects = {l1, l2}
  LinesOf <- MCLinesOf
  MaxRetries = 1
  HandoffBaseline = 1
  MaxResets = 1
INVARIANTS
  OneTicketPerCall
  AnswersAreBacked
  CollisionFindsTicket
  LockIsGivenBack
PROPERTIES
  AttemptsGetNearer
  KeepsTicketPromise
  EveryAttemptEnds
