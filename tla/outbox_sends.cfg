\* Two workers, an organizer and the reconciler over two messages; a third is never
\* sent to.
CONSTANTS
  m1 = m1
  m2 = m2
  m3 = m3
  w1 = w1
  w2 = w2
  NoMessage = NoMessage
  Messages = {m1, m2, m3}
  Workers = {w1, w2}
  Unreachable = {m3}
  Urgent = {m1}
  SendOutcomes = {"accepted", "lost", "temporary", "permanent"}
  Limit = 0
  ChunkSize = 2
  MaxAttempts = 2
  SlowSends = FALSE
  MaxCrashes = 1
  MaxEdits = 1
SPECIFICATION Spec
SYMMETRY WorkerSymmetry
INVARIANTS
  OneHolder
  SendsBounded
PROPERTIES
  SentIsFinal
  CancelledIsFinal
  ImplementsMail
CHECK_DEADLOCK FALSE
