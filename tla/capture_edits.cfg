\* One payer, whom PayPal may also turn away; organizers edit, cancel, reopen and
\* change the percent, before the capture and before it is recorded.
CONSTANTS
  o1 = o1
  o2 = o2
  r1 = r1
  r2 = r2
  NoOrder = NoOrder
  NoRequest = NoRequest
  Orders = {o1}
  Requests = {r1}
  Amounts = {1000, 2000}
  Percents = {0, 10}
  GetErrors = {"lost"}
  PostAnswers = {"completed", "pending", "refused", "lost"}
  HandKinds = {}
  MaxAttempts = 2
  MaxEdits = 3
  MaxHand = 0
  MaxLapses = 0
SPECIFICATION Spec
SYMMETRY Symmetry
INVARIANTS
  CancelledHoldsNoMoney
PROPERTIES
  MoneyOnlyForDue
  
  
CHECK_DEADLOCK FALSE
