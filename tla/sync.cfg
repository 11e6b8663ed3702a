SPECIFICATION FairSpec
CONSTANTS
  t1 = t1
  t2 = t2
  t3 = t3
  u1 = u1
  d = d
  a = a
  x = x
  y = y
  z = z
  None = None
  Tasks = {t1, t2, t3}
  Titles = {x, y, z}
  TooLong = {z}
  Users = {u1}
  Services = {d, a}
  Drain = d
  Alarm = a
  Edits <- MCEdits
  MaxVersion = 2
  Starts <- MCStarts
  Faults = {"crash", "request", "outage"}
INVARIANTS NeverAhead
PROPERTIES Settles
