SPECIFICATION ApartSpec
CONSTANTS
  r1 = r1
  r2 = r2
  r3 = r3
  u1 = u1
  u2 = u2
  chat = chat
  mention = mention
  dm = dm
  broadcast = broadcast
  dmKey = dmKey
  broadcastKey = broadcastKey
  None = None
  Requests = {r1, r2, r3}
  Users = {u1, u2}
  Events = {chat}
  Inputs = {mention, dm, broadcast}
  Plan <- ChatPlan
  Recipients <- OneEach
  Keys = {dmKey, broadcastKey}
  Key <- Keyed
  Broadcast = broadcast
  Off <- SecondMutesPush
  MaxAttempts = 2
  Work = {"dispatch", "publish", "unpublish", "read", "purge"}
  Happenings = {"adapterError", "resolveError", "dbError", "crash"}
INVARIANTS TypeOK ProcessedIsDelivered KeyedOnce RetractedIsGone
SYMMETRY RequestSymmetry
CHECK_DEADLOCK FALSE
