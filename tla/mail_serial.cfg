SPECIFICATION Spec
CONSTANTS
  c1 = c1
  c2 = c2
  c3 = c3
  t1 = t1
  t2 = t2
  key = key
  s1 = s1
  s2 = s2
  b1 = b1
  b2 = b2
  None = None
  Clients = {}
  Crons = {t1}
  ClientKeys = {}
  Schedules = {s1, s2}
  Bodies = {b1, b2}
  Batch = 2
  MaxAttempts = 2
  SendTries = 2
  Work = {"reschedule", "cancel"}
  Happenings = {"refused", "busy", "answerLost"}
INVARIANTS SentWasDelivered FailedWasTried
SYMMETRY BodySymmetry
CHECK_DEADLOCK FALSE
