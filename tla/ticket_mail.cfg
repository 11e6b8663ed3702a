SPECIFICATION FairSpec
CONSTANTS
  o1 = o1
  buyer = buyer
  copy = copy
  None = None
  Orders = {o1}
  Mails = {buyer, copy}
  OrderOf <- OneOrder
  Ops = {copy}
  Alarm = alarm
  Soon = {soon}
  Batch = 2
  SoonBatch = 2
  Caps = {None, 1}
  MaxAttempts = 2
  Base = 1
  BackoffCap = 1
  TransientRetry = 1
  RateLimitRetry = 1
  HoldTime = 1
  Lease = 2
  Budget = 1
  SendTime = 1
  StepTime = 0
  Late = 0
  Troubles = {"rejected", "render", "missing", "transient", "review", "crash"}
INVARIANTS DeliveryTypeOK OneClaim FailedForAReason
PROPERTIES EndedStays PaidIsMailed
