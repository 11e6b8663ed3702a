SPECIFICATION Spec
CONSTANTS
  c1 = c1
  c2 = c2
  c3 = c3
  t1 = t1
  t2 = t2
  key = key
  s1 = s1
  s2 = s2
  b1 = b1
  b2 = b2
  None = None
  Clients = {c1, c2}
  Crons = {}
  ClientKeys = {key}
  Schedules = {}
  Bodies = {b1}
  Batch = 1
  MaxAttempts = 1
  SendTries = 1
  Work = {}
  Happenings = {"refused"}
INVARIANTS OneDelivery
SYMMETRY BodySymmetry
CHECK_DEADLOCK FALSE
