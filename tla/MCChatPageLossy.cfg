SPECIFICATION ChatSpec
CONSTANTS
  s1 = s1
  t1 = t1
  t2 = t2
  c1 = c1
  c2 = c2
  k1 = k1
  k2 = k2
  k3 = k3
  helena = helena
  None = None
  Sessions = {s1}
  Turns = {t1, t2}
  Customers = {helena}
  Conversations = {c1, c2}
  Calls = {k1, k2, k3}
  CustomerOf <- MCCustomerOf
  PerSession = 4
  PerDay = 4
  ConversationsPerDay = 2
  LastDay = 1
  Lossy = TRUE
SYMMETRY MCSymmetry
INVARIANT
  ApprovedAsSeen
