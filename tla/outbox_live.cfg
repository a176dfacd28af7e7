\* Two messages within a limit of one, through crashes, refusals and a retry.
CONSTANTS
  m1 = m1
  m2 = m2
  m3 = m3
  w1 = w1
  w2 = w2
  NoMessage = NoMessage
  Messages = {m1, m2}
  Workers = {w1, w2}
  Unreachable = {}
  Urgent = {}
  SendOutcomes = {"accepted", "temporary"}
  Limit = 1
  ChunkSize = 2
  MaxAttempts = 2
  SlowSends = FALSE
  MaxCrashes = 1
  MaxEdits = 1
SPECIFICATION FairSpec
INVARIANTS
  TypeOK
  WithinLimit
PROPERTIES
  Settles
CHECK_DEADLOCK FALSE
