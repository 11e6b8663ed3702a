SPECIFICATION ApartSpec
CONSTANTS
  c1 = c1
  c2 = c2
  c3 = c3
  t1 = t1
  t2 = t2
  key = key
  s1 = s1
  s2 = s2
  b1 = b1
  b2 = b2
  None = None
  Clients = {c1, c2, c3}
  Crons = {t1, t2}
  ClientKeys = {key}
  Schedules = {s1}
  Bodies = {b1, b2}
  Batch = 1
  MaxAttempts = 2
  SendTries = 2
  Work = {"edit", "reschedule", "cancel"}
  Happenings = {"refused", "busy", "answerLost", "loadError", "dbError", "crash"}
INVARIANTS TypeOK OnceUnlessFailed OneBodyPerKey LogIsTrue
PROPERTIES EndedForGood
SYMMETRY BodySymmetry
CHECK_DEADLOCK FALSE
