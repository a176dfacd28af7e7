\* Finding: one request's refusal settles another's capture.
CONSTANTS
  o1 = o1
  o2 = o2
  r1 = r1
  r2 = r2
  NoOrder = NoOrder
  NoRequest = NoRequest
  Orders = {o1}
  Requests = {r1, r2}
  Amounts = {1000}
  Percents = {10}
  GetErrors = {}
  PostAnswers = {"pending", "refused", "lost"}
  HandKinds = {}
  MaxAttempts = 2
  MaxEdits = 0
  MaxHand = 0
  MaxLapses = 0
SPECIFICATION Spec
SYMMETRY Symmetry
INVARIANTS
  UnrecordedMoneyHeld
CHECK_DEADLOCK FALSE
