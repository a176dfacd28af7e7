\* Two requests race over two orders, with the worker and a registrar: PayPal
\* answers, delays, declines or loses, but turns no call away (refusal_race does).
CONSTANTS
  o1 = o1
  o2 = o2
  r1 = r1
  r2 = r2
  NoOrder = NoOrder
  NoRequest = NoRequest
  Orders = {o1, o2}
  Requests = {r1, r2}
  Amounts = {1000}
  Percents = {10}
  GetErrors = {"lost"}
  PostAnswers = {"completed", "pending", "declined", "lost"}
  HandKinds = {}
  MaxAttempts = 2
  MaxEdits = 0
  MaxHand = 0
  MaxLapses = 0
SPECIFICATION Spec
SYMMETRY Symmetry
INVARIANTS
  TypeOK
  UnrecordedMoneyHeld
  ProcessingKeepsOrder
PROPERTIES
  NoSecondCharge
  MarkNotOverwritten
CHECK_DEADLOCK FALSE
