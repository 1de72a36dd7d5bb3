SPECIFICATION BudgetSpec
CONSTANTS
  s1 = s1
  s2 = s2
  t1 = t1
  t2 = t2
  t3 = t3
  Sessions = {s1, s2}
  Turns = {t1, t2, t3}
  PerSession = 2
  PerDay = 2
  ConversationsPerDay = 2
  LastDay = 2
SYMMETRY MCSymmetry
INVARIANT
  DailyCap
