SPECIFICATION FairApiSpec
CONSTANTS
  s1 = s1
  s2 = s2
  s3 = s3
  t1 = t1
  t2 = t2
  c1 = c1
  c2 = c2
  k1 = k1
  k2 = k2
  k3 = k3
  helena = helena
  richard = richard
  None = None
  Sessions = {s1}
  Turns = {t1, t2}
  Customers = {helena}
  Conversations = {c1}
  Calls = {k1}
  CustomerOf <- MCCustomerOf
  PerSession = 2
  PerDay = 2
  ConversationsPerDay = 1
  LastDay = 2
PROPERTIES
  EveryTurnSettles
  EveryLockIsFreed
