SPECIFICATION Spec
CONSTANTS
  m1 = m1
  m2 = m2
  core = core
  auth = auth
  None = None
  Messages = {m1}
  Dbs = {core, auth}
  Home <- AllInCore
  Passes <- CorePasses
  Routed = {m1}
  Broken = {}
  Batch = 1
  MaxAttempts = 3
  Base = 1
  MaxDelay = 1
  DoneKept = 1
  FailedKept = 2
  PruneEvery = 1
  Late = 1
  Happenings = {"reject"}
INVARIANTS NeverLost
