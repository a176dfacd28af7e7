\* PayPal never answers; every hold on an unanswered capture ends with its day.
CONSTANTS
  o1 = o1
  o2 = o2
  r1 = r1
  r2 = r2
  NoOrder = NoOrder
  NoRequest = NoRequest
  Orders = {o1}
  Requests = {r1}
  Amounts = {1000}
  Percents = {10}
  GetErrors = {"lost", "refused"}
  PostAnswers = {"completed", "pending", "refused", "lost"}
  HandKinds = {}
  MaxAttempts = 2
  MaxEdits = 0
  MaxHand = 0
  MaxLapses = 3
SPECIFICATION FairSpec
PROPERTIES
  HoldReleased
CHECK_DEADLOCK FALSE
