\* A server that crashes and loses answers, a worker that keeps running, a PayPal
\* that answers the worker; payments by hand on the invoice they name.
CONSTANTS
  o1 = o1
  o2 = o2
  r1 = r1
  r2 = r2
  NoOrder = NoOrder
  NoRequest = NoRequest
  Orders = {o1}
  Requests = {r1}
  Amounts = {1000}
  Percents = {10}
  GetErrors = {}
  PostAnswers = {"completed", "pending", "declined", "refused", "lost"}
  HandKinds = {"named"}
  MaxAttempts = 2
  MaxEdits = 0
  MaxHand = 1
  MaxLapses = 0
SPECIFICATION FairSpec
PROPERTIES
  MoneyRecorded
CHECK_DEADLOCK FALSE
