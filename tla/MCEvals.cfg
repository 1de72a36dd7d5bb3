SPECIFICATION MCSpec
CONSTANTS
  m1 = m1
  m2 = m2
  n1 = n1
  n2 = n2
  i1 = i1
  i2 = i2
  u1 = u1
  u2 = u2
  Helena = Helena
  Richard = Richard
  Models = {m1, m2}
  MaxEdits = 2
  MaxFiles = 2
  Names = {n1}
  Unnamed = Unnamed
  Ids = {i1, i2}
  Uploads = {u1, u2}
SYMMETRY MCSymmetry
CHECK_DEADLOCK FALSE
INVARIANTS
  GradesAreHonest
  PublishedArmsAgree
  ADryArmNeverShips
  SyncSettles
