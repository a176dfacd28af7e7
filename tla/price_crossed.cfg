\* Two overrides, or a charge, set at once: the stored price misses one of them.
CONSTANTS
  Parts = {"price"}
  None = None
  Nil = Nil
  u1 = u1
  u2 = u2
  p1 = p1
  p2 = p2
  m1 = m1
  m2 = m2
  w1 = w1
  w2 = w2
  Uuids = {u1, u2}
  MaxAnswers = 2
  MaxSent = 2
  MaxSaves = 1
  MaxMishaps = 1
  MaxCapacity = 1
  MaxChanges = 5
  Admins = {u1, u2}
  MaxDeletes = 3
  MaxBatches = 2
  MaxNews = 1
  Keys = {1, 2}
  Addresses = {"x", "y"}
  Payments = {p1}
  Amount = 2
  MaxOpenings = 2
  MaxRequests = 2
  MaxAsks = 2
  MaxRefunds = 2
  MaxInvoices = 2
  MaxPayments = 2
  MaxAmount = 1
  MaxTotal = 2
  Messages = {m1, m2}
  Workers = {w1, w2}
  NoMessage = NoMessage
  Unreachable = {}
  Urgent = {}
  SendOutcomes = {"accepted", "temporary"}
  Limit = 0
  ChunkSize = 2
  MaxAttempts = 2
  SlowSends = FALSE
  MaxCrashes = 1
  MaxEdits = 1
  Unrendered = {m2}
SPECIFICATION PartsSpec
INVARIANT
  PriceIsCurrent
CHECK_DEADLOCK FALSE
