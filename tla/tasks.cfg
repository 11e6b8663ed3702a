SPECIFICATION ApartSpec
CONSTANTS
  t1 = t1
  t2 = t2
  u1 = u1
  u2 = u2
  s1 = s1
  x = x
  long = long
  None = None
  Tasks = {t1, t2}
  Titles = {x, long}
  TooLong = {long}
  Users = {u1, u2}
  Services = {s1}
  Edits <- MCEdits
  MaxVersion = 2
INVARIANTS VersionNamesRow CircleNeedsRace
PROPERTIES StatusFollowsTable
SYMMETRY TaskSymmetry
CHECK_DEADLOCK FALSE
