------------------------ MODULE PayPalCaptureProofs ------------------------
(***************************************************************************)
(* Proofs about PayPalCapture, for every set of orders, requests, amounts  *)
(* and percents and every bound.  Those of the invoice's mark, in the      *)
(* second half, are of the behaviours in which a request's refusal settles *)
(* no other request's capture (RefusalsStand): all of them with one        *)
(* request, or with many while nobody edits and PayPal turns none away.    *)
(***************************************************************************)
EXTENDS PayPalCapture, FiniteSetTheorems, TLAPS

(* Whoever is at work on an order has one.                                 *)
AtWorkOnOrder ==
  /\ \A r \in Requests : req[r].pc # "idle" => req[r].order \in Orders
  /\ check.pc # "idle" => check.order \in Orders
  /\ sweep.pc # "idle" => sweep.order \in Orders

(* The row is held by the request between its look at the order and the end *)
(* of its transaction, and by nobody else.                                  *)
RowHeld ==
  \A r \in Requests : req[r].pc \in {"post", "record"} => lock = r

(* What the capture checked before it asks PayPal to take the money still   *)
(* holds when it asks.                                                      *)
AsksWhatIsDue(o) ==
  /\ invoice.pending = o /\ ~invoice.cancelled /\ Due(invoice) > 0
  /\ pp[o].st \notin {"none", "created"}
  /\ \E p \in Percents \union {0} : pp[o].asks = Due(invoice) + FeeAt(p, Due(invoice))

PostingWhatIsDue ==
  \A r \in Requests : req[r].pc = "post" => AsksWhatIsDue(req[r].order)

IInv == TypeOK /\ AtWorkOnOrder /\ RowHeld /\ PostingWhatIsDue

-----------------------------------------------------------------------------
(* A fee is an amount.                                                     *)
LEMMA FeeAtNat ==
  ASSUME NEW STATE p, NEW STATE amount, p \in Nat, amount \in Nat
  PROVE  FeeAt(p, amount) \in Nat
<1>1. CASE amount > 0
  <2>1. amount * p \in Nat
    BY <1>1
  <2>2. amount * p + 50 \in Nat
    BY <2>1
  <2> DEFINE n == amount * p + 50
  <2> HIDE DEF n
  <2>3. ASSUME n \in Nat PROVE n \div 100 \in Nat
    BY <2>3
  <2>4. (amount * p + 50) \div 100 \in Nat
    BY <2>2, <2>3 DEF n
  <2> QED BY <1>1, <2>4 DEF FeeAt
<1>2. CASE ~(amount > 0)
  BY <1>2 DEF FeeAt
<1> QED BY <1>1, <1>2

(* What is due is an amount, of any row that asks one.                     *)
LEMMA DueNat ==
  ASSUME NEW STATE inv, inv.amount \in Nat, inv.handling \in Nat, paid \in Nat
  PROVE  Due(inv) \in Nat
BY DEF Due, LargerOf

(* And so is the fee its order adds.                                       *)
LEMMA OrderFeeNat ==
  ASSUME NEW STATE inv, inv.amount \in Nat, inv.handling \in Nat, TypeOK
  PROVE  OrderFee(inv) \in Nat
<1>1. Due(inv) \in Nat /\ percent \in Nat
  BY DueNat, MoneyAssumption DEF TypeOK, InvoiceType, OrderType
<1>2. FeeAt(percent, Due(inv)) \in Nat
  BY <1>1, FeeAtNat
<1> QED BY <1>2 DEF OrderFee, OnlineFee

(* The fee recorded with a capture is an amount too.                       *)
LEMMA FeeCapturedNat ==
  ASSUME TypeOK, NEW o \in Orders
  PROVE  FeeCaptured(o) \in Nat
<1> DEFINE amount == pp[o].asks
           due == Due(invoice)
           beyond == LargerOf(0, amount - due)
<1>1. amount \in Nat /\ due \in Nat /\ percent \in Nat
  BY DueNat, MoneyAssumption DEF TypeOK, InvoiceType, OrderType
<1>2. OnlineFee(due) \in Nat
  BY <1>1, FeeAtNat DEF OnlineFee
<1>3. beyond \in Nat
  <2> HIDE DEF due
  <2> QED BY <1>1 DEF LargerOf
<1>4. ASSUME DuesAsking(amount) # {}
      PROVE  OnlineFee(CHOOSE d \in DuesAsking(amount) : TRUE) \in Nat
  <2> DEFINE d == CHOOSE e \in DuesAsking(amount) : TRUE
  <2>1. d \in DuesAsking(amount)
    BY <1>4
  <2>2. d \in Int
    <3> DEFINE guess == (200 * amount + 100 + percent) \div (2 * (100 + percent))
    <3>1. DuesAsking(amount) \subseteq (guess - 3)..(guess + 3)
      BY DEF DuesAsking
    <3>2. guess \in Int
      BY <1>1
    <3> HIDE DEF guess
    <3>3. (guess - 3)..(guess + 3) \subseteq Int
      BY <3>2
    <3> QED BY <2>1, <3>1, <3>3
  <2>3. d > 0
    BY <2>1 DEF DuesAsking
  <2> HIDE DEF d
  <2>4. d \in Nat
    BY <2>2, <2>3
  <2>5. OnlineFee(d) \in Nat
    BY <1>1, <2>4, FeeAtNat DEF OnlineFee
  <2> QED BY <2>5 DEF d
<1>5. ASSUME invoice.fee # NoFee PROVE invoice.fee \in Nat
  BY <1>5 DEF TypeOK, InvoiceType
<1> HIDE DEF due
<1> QED BY <1>2, <1>3, <1>4, <1>5 DEF FeeCaptured, due

(* What recording a capture leaves is typed.                               *)
LEMMA RecordCaptureType ==
  ASSUME TypeOK, NEW STATE o, o \in Orders, RecordCapture(o)
  PROVE  /\ invoice' \in InvoiceType
         /\ watch' \in WatchType
         /\ paid' \in Nat
         /\ recorded' \subseteq Orders
<1>1. watch' \in WatchType
  BY DEF TypeOK, WatchType, RecordCapture, SettledOrder, NoWatch
<1>2. FeeCaptured(o) \in Nat
  BY FeeCapturedNat
<1>3. paid' \in Nat /\ recorded' \subseteq Orders
  BY DEF TypeOK, InvoiceType, OrderType, RecordCapture
<1>4. invoice' \in InvoiceType
  BY <1>2 DEF TypeOK, InvoiceType, RecordCapture
<1> QED BY <1>1, <1>3, <1>4

(* And what marking an order pending leaves.                               *)
LEMMA MarkPendingType ==
  ASSUME TypeOK, NEW STATE o, o \in Orders, MarkPending(o)
  PROVE  /\ invoice' \in InvoiceType
         /\ watch' \in WatchType
         /\ clock' \in Nat
<1>1. NewWatch(o) \in WatchType
  BY DEF TypeOK, WatchType, NewWatch
<1>2. watch' \in WatchType
  BY <1>1 DEF TypeOK, WatchType, MarkPending
<1>3. clock' \in Nat /\ invoice' \in InvoiceType
  BY DEF TypeOK, InvoiceType, MarkPending
<1> QED BY <1>2, <1>3

-----------------------------------------------------------------------------
(* The invariant holds at the start.                                       *)
LEMMA InitIInv == Init => IInv
<1> SUFFICES ASSUME Init PROVE IInv
  OBVIOUS
<1>1. TypeOK
  <2>4. invoice \in InvoiceType
    BY MoneyAssumption DEF Init, InvoiceType, NoFee
  <2>1. watch \in WatchType /\ percent \in Percents
    BY DEF Init, WatchType, NoWatch
  <2>2. pp \in [Orders -> OrderType] /\ req \in [Requests -> RequestType]
    BY DEF Init, OrderType, OrderState, RequestType, Idle
  <2>3. check \in CheckType /\ sweep \in SweepType
    BY DEF Init, CheckType, SweepType, NoSweep, OrderState
  <2> QED BY <2>1, <2>2, <2>3, <2>4 DEF Init, TypeOK
<1>2. AtWorkOnOrder /\ RowHeld /\ PostingWhatIsDue
  BY DEF Init, AtWorkOnOrder, RowHeld, PostingWhatIsDue, Idle, NoSweep
<1> QED BY <1>1, <1>2 DEF IInv

(* Types are kept by every step.                                           *)
LEMMA TypeStep ==
  ASSUME TypeOK, AtWorkOnOrder, [Next]_vars
  PROVE  TypeOK'
<1> USE DEF TypeOK
<1>1. ASSUME NEW r \in Requests, NEW o \in Orders, PayPageAsk(r, o) PROVE TypeOK'
  <2>1. OrderFee(invoice) \in Nat /\ Due(invoice) \in Nat
    BY OrderFeeNat, DueNat DEF InvoiceType
  <2>2. pp' \in [Orders -> OrderType]
    BY <1>1, <2>1 DEF PayPageAsk, Ordered, OrderType, OrderState
  <2> QED BY <1>1, <2>2 DEF PayPageAsk, GoTo, RequestType
<1>2. ASSUME NEW r \in Requests, NEW o \in Orders, CaptureBegin(r, o) PROVE TypeOK'
  BY <1>2 DEF CaptureBegin, GoTo, RequestType
<1>3. ASSUME NEW r \in Requests, PayPageSave(r) PROVE TypeOK'
  <2>1. req[r].order \in Orders
    BY <1>3 DEF PayPageSave, AtWorkOnOrder
  <2>2. pp[req[r].order].fee \in Nat
    BY <2>1 DEF OrderType
  <2>3. invoice' \in InvoiceType
    BY <1>3, <2>1, <2>2 DEF PayPageSave, InvoiceType
  <2>4. pp' \in [Orders -> OrderType]
    BY <1>3, <2>1 DEF PayPageSave, OrderType, OrderState
  <2> QED BY <1>3, <2>3, <2>4 DEF PayPageSave, Finish, RequestType, Idle
<1>4. ASSUME NEW r \in Requests, CaptureMark(r) PROVE TypeOK'
  <2>1. req[r].order \in Orders
    BY <1>4 DEF CaptureMark, AtWorkOnOrder
  <2>2. NewWatch(req[r].order) \in WatchType
    BY <2>1 DEF NewWatch, WatchType
  <2>3. watch' \in WatchType /\ clock' \in Nat
    BY <1>4, <2>2 DEF CaptureMark
  <2> QED BY <1>4, <2>3 DEF CaptureMark, GoTo, RequestType
<1>5. ASSUME NEW r \in Requests, CaptureLock(r) PROVE TypeOK'
  <2>1. req' \in [Requests -> RequestType]
    BY <1>5 DEF CaptureLock, GoTo, Finish, RequestType, Idle, Taken
  <2>2. lock' \in Requests \union {NoRequest}
    BY <1>5 DEF CaptureLock
  <2> QED BY <1>5, <2>1, <2>2 DEF CaptureLock
<1>6. ASSUME NEW r \in Requests, CapturePost(r) PROVE TypeOK'
  <2>1. req' \in [Requests -> RequestType]
    <3>1. req[r].order \in Orders \union {NoOrder}
      BY DEF RequestType
    <3>2. ASSUME NEW pc \in {"record", "settle", "report"},
                 NEW answer \in {"none", "completed", "pending"},
                 GoTo(r, pc, req[r].order, answer)
          PROVE  req' \in [Requests -> RequestType]
      BY <3>1, <3>2 DEF GoTo, RequestType
    <3> QED BY <1>6, <3>2 DEF CapturePost
  <2>2. lock' \in Requests \union {NoRequest}
    BY <1>6 DEF CapturePost
  <2>3. pp' \in [Orders -> OrderType]
    <3>1. ASSUME NEW st \in OrderState, pp' = [pp EXCEPT ![req[r].order].st = st]
          PROVE  pp' \in [Orders -> OrderType]
      BY <3>1 DEF OrderType
    <3> QED BY <1>6, <3>1 DEF CapturePost, OrderState
  <2> QED BY <1>6, <2>1, <2>2, <2>3 DEF CapturePost
<1>7. ASSUME NEW r \in Requests, CaptureRecord(r) PROVE TypeOK'
  <2>1. req[r].order \in Orders
    BY <1>7 DEF CaptureRecord, AtWorkOnOrder
  <2>2. req' \in [Requests -> RequestType]
    BY <1>7 DEF CaptureRecord, GoTo, Finish, RequestType, Idle
  <2>3. CASE RecordCapture(req[r].order) /\ UNCHANGED clock
    BY <1>7, <2>1, <2>2, <2>3, RecordCaptureType DEF CaptureRecord
  <2>4. CASE MarkPending(req[r].order) /\ UNCHANGED <<paid, recorded>>
    BY <1>7, <2>1, <2>2, <2>4, MarkPendingType DEF CaptureRecord
  <2>5. CASE UNCHANGED <<invoice, watch, paid, recorded, clock>>
    BY <1>7, <2>2, <2>5 DEF CaptureRecord
  <2> QED BY <1>7, <2>3, <2>4, <2>5 DEF CaptureRecord
<1>8. ASSUME NEW r \in Requests, CaptureSettle(r) PROVE TypeOK'
  <2>1. watch' \in WatchType
    BY <1>8 DEF CaptureSettle, SettledOrder, NoWatch, WatchType
  <2> QED BY <1>8, <2>1 DEF CaptureSettle, Finish, RequestType, Idle
<1>9. ASSUME NEW r \in Requests, CaptureReport(r) PROVE TypeOK'
  <2>1. reports' \subseteq ReportType
    BY <1>9 DEF CaptureReport, AtWorkOnOrder, ReportType
  <2> QED BY <1>9, <2>1 DEF CaptureReport, Finish, RequestType, Idle
<1>10. ASSUME NEW r \in Requests, Crash(r) PROVE TypeOK'
  BY <1>10 DEF Crash, Finish, RequestType, Idle
<1>11. ASSUME NEW amount \in Amounts, ChooseOption(amount) PROVE TypeOK'
  <2>1. invoice' \in InvoiceType
    BY <1>11, MoneyAssumption DEF ChooseOption, Prepared, InvoiceType
  <2> QED BY <1>11, <2>1 DEF ChooseOption
<1>12. ASSUME NEW o \in Orders, NEW amount \in Amounts, RegistrationOrder(o, amount)
       PROVE  TypeOK'
  <2> DEFINE inv == Prepared(amount)
  <2>1. inv \in InvoiceType
    BY MoneyAssumption DEF Prepared, InvoiceType
  <2>2. inv.amount \in Nat /\ inv.handling \in Nat
    BY <2>1 DEF InvoiceType
  <2> HIDE DEF inv
  <2>3. OrderFee(inv) \in Nat /\ Due(inv) \in Nat
    BY <2>2, OrderFeeNat, DueNat
  <2>4. pp' \in [Orders -> OrderType]
    BY <1>12, <2>3 DEF RegistrationOrder, Ordered, OrderType, OrderState, inv
  <2>5. invoice' = [inv EXCEPT !.pending = o, !.fee = OrderFee(inv)]
    BY <1>12 DEF RegistrationOrder, inv
  <2>6. invoice' \in InvoiceType
    BY <2>1, <2>3, <2>5 DEF InvoiceType
  <2> QED BY <1>12, <2>4, <2>6 DEF RegistrationOrder
<1>13. ASSUME NEW amount \in Amounts, NEW handling \in {0, invoice.handling},
              EditInvoice(amount, handling)
       PROVE  TypeOK'
  <2>1. amount \in Nat /\ handling \in Nat
    BY MoneyAssumption DEF InvoiceType
  <2>2. invoice' \in InvoiceType
    BY <1>13, <2>1 DEF EditInvoice, InvoiceType
  <2> QED BY <1>13, <2>2 DEF EditInvoice, OrganizerEdits
<1>14. CASE Cancel \/ Reopen
  <2>1. invoice' \in InvoiceType
    BY <1>14 DEF Cancel, Reopen, InvoiceType
  <2> QED BY <1>14, <2>1 DEF Cancel, Reopen, OrganizerEdits
<1>15. ASSUME NEW p \in Percents, SetPercent(p) PROVE TypeOK'
  BY <1>15 DEF SetPercent, OrganizerEdits
<1>16. ASSUME NEW kind \in HandKinds, HandPick(kind) PROVE TypeOK'
  BY <1>16, AnswerAssumption DEF HandPick
<1>17. ASSUME NEW amount \in Amounts, HandSave(amount) PROVE TypeOK'
  BY <1>17, MoneyAssumption DEF HandSave
<1>18. CASE CheckRead
  <2>1. OrderToCheck \in Orders \union {NoOrder}
    BY DEF OrderToCheck, InvoiceType, WatchType
  <2> QED BY <1>18, <2>1 DEF CheckRead, CheckType
<1>19. CASE CheckAsk
  <2>1. check.order \in Orders
    BY <1>19 DEF CheckAsk, AtWorkOnOrder
  <2>2. check' \in CheckType
    BY <1>19 DEF CheckAsk, CheckType
  <2>3. CASE RecordCapture(check.order) /\ UNCHANGED clock
    BY <1>19, <2>1, <2>2, <2>3, RecordCaptureType DEF CheckAsk
  <2>4. CASE MarkPending(check.order) /\ UNCHANGED <<paid, recorded>>
    BY <1>19, <2>1, <2>2, <2>4, MarkPendingType DEF CheckAsk
  <2>5. CASE UNCHANGED <<invoice, watch, paid, recorded, clock>>
    BY <1>19, <2>2, <2>5 DEF CheckAsk
  <2>6. CASE /\ watch' = SettledOrder(check.order)
             /\ invoice' = [invoice EXCEPT
                              !.pending = IF @ = check.order THEN NoOrder ELSE @]
             /\ UNCHANGED <<paid, recorded, clock>>
    <3>1. watch' \in WatchType /\ invoice' \in InvoiceType
      BY <2>6 DEF SettledOrder, NoWatch, WatchType, InvoiceType
    <3> QED BY <1>19, <2>2, <2>6, <3>1 DEF CheckAsk
  <2> QED BY <1>19, <2>3, <2>4, <2>5, <2>6 DEF CheckAsk
<1>20. CASE CheckSettle
  <2>1. watch' \in WatchType
    BY <1>20 DEF CheckSettle, SettledOrder, NoWatch, WatchType
  <2> QED BY <1>20, <2>1 DEF CheckSettle, CheckType
<1>21. CASE SweepPick
  <2>1. sweep' \in SweepType
    BY <1>21 DEF SweepPick, SweepType, WatchType, OrderState
  <2> QED BY <1>21, <2>1 DEF SweepPick
<1>22. CASE SweepAsk
  <2>1. pp[sweep.order].st \in OrderState
    BY <1>22 DEF SweepAsk, AtWorkOnOrder, OrderType
  <2> QED BY <1>22, <2>1, ZenonT(60) DEF SweepAsk, SweepType
<1>23. CASE SweepAct
  <2>1. sweep.order \in Orders /\ sweep' \in SweepType
    BY <1>23 DEF SweepAct, AtWorkOnOrder, NoSweep, SweepType, OrderState
  <2>2. CASE RecordCapture(sweep.order) /\ UNCHANGED reports
    BY <1>23, <2>1, <2>2, RecordCaptureType DEF SweepAct
  <2>3. CASE NoteAsked /\ UNCHANGED <<invoice, paid, recorded>>
    <3>1. watch' \in WatchType
      BY <2>3 DEF NoteAsked, WatchType
    <3>2. reports' \subseteq ReportType
      BY <2>1, <2>3 DEF NoteAsked, ReportType
    <3> QED BY <1>23, <2>1, <2>3, <3>1, <3>2 DEF SweepAct
  <2>4. ASSUME NEW what \in {"capture_lost", "capture_denied"}, SettleSwept(what),
               UNCHANGED <<invoice, paid, recorded>>
        PROVE  TypeOK'
    <3>1. watch' \in WatchType
      BY <2>4 DEF SettleSwept, SettledAttempt, NoWatch, WatchType
    <3>2. reports' \subseteq ReportType
      BY <2>1, <2>4 DEF SettleSwept, ReportType
    <3> QED BY <1>23, <2>1, <2>4, <3>1, <3>2 DEF SweepAct
  <2>5. CASE UNCHANGED <<watch, reports>> /\ UNCHANGED <<invoice, paid, recorded>>
    BY <1>23, <2>1, <2>5 DEF SweepAct
  <2> QED BY <1>23, <2>2, <2>3, <2>4, <2>5 DEF SweepAct
<1>24. ASSUME NEW o \in Orders, PayPal PROVE TypeOK'
  <2> SUFFICES ASSUME NEW q \in Orders, NEW from, NEW to \in OrderState,
                      PayPalMoves(q, from, to)
               PROVE  TypeOK'
    BY <1>24 DEF PayPal, Approve, Complete, Deny, Expire, OrderState
  <2>1. pp' \in [Orders -> OrderType]
    BY DEF PayPalMoves, OrderType
  <2> QED BY <2>1 DEF PayPalMoves
<1>25. CASE Time
  <2>1. watch' \in WatchType
    BY <1>25 DEF Time, FifteenMinutes, HalfAnHour, WatchEnds, Tick, WatchType
  <2>2. lapsed' \subseteq Orders
    BY <1>25 DEF Time, FifteenMinutes, HalfAnHour, WatchEnds, WatchType
  <2> QED BY <1>25, <2>1, <2>2 DEF Time, FifteenMinutes, HalfAnHour, WatchEnds, Tick
<1>26. CASE UNCHANGED vars
  BY <1>26 DEF vars
<1> QED
  BY <1>1, <1>2, <1>3, <1>4, <1>5, <1>6, <1>7, <1>8, <1>9, <1>10, <1>11, <1>12, <1>13,
     <1>14, <1>15, <1>16, <1>17, <1>18, <1>19, <1>20, <1>21, <1>22, <1>23, <1>24, <1>25,
     <1>26
  DEF Next, Request, PaymentStep, Organizer, Worker, PayPal

(* The steps that touch neither the requests nor the row's holder.         *)
Bystander ==
  PaymentStep \/ Organizer \/ Worker \/ PayPal \/ Time \/ UNCHANGED vars

LEMMA BystanderLeavesRequests ==
  ASSUME Bystander
  PROVE  UNCHANGED <<req, lock>>
<1>1. CASE PaymentStep
  BY <1>1 DEF PaymentStep, ChooseOption, RegistrationOrder
<1>2. CASE Organizer
  BY <1>2 DEF Organizer, EditInvoice, Cancel, Reopen, SetPercent, HandPick, HandSave,
     CheckRead, CheckAsk, CheckSettle
<1>3. CASE Worker
  BY <1>3 DEF Worker, SweepPick, SweepAsk, SweepAct
<1>4. CASE PayPal
  BY <1>4 DEF PayPal, Approve, Complete, Deny, Expire, PayPalMoves
<1>5. CASE Time
  BY <1>5 DEF Time, FifteenMinutes, HalfAnHour, WatchEnds, Tick
<1>6. CASE UNCHANGED vars
  BY <1>6 DEF vars
<1> QED BY <1>1, <1>2, <1>3, <1>4, <1>5, <1>6 DEF Bystander

(* Whoever is at work keeps its order.                                     *)
LEMMA AtWorkStep ==
  ASSUME TypeOK, AtWorkOnOrder, [Next]_vars
  PROVE  AtWorkOnOrder'
<1>1. ASSUME NEW r \in Requests, Request(r) PROVE AtWorkOnOrder'
  <2>1. UNCHANGED <<check, sweep>>
    BY <1>1 DEF Request, PayPageAsk, PayPageSave, CaptureBegin, CaptureMark, CaptureLock,
       CapturePost, CaptureRecord, CaptureSettle, CaptureReport, Crash
  <2>2. \/ \E pc, answer : \E o \in Orders : GoTo(r, pc, o, answer)
        \/ \E pc, answer : req[r].pc # "idle" /\ GoTo(r, pc, req[r].order, answer)
        \/ Finish(r)
    BY <1>1 DEF Request, PayPageAsk, PayPageSave, CaptureBegin, CaptureMark, CaptureLock,
       CapturePost, CaptureRecord, CaptureSettle, CaptureReport, Crash
  <2>3. ASSUME NEW q \in Requests, req'[q].pc # "idle" PROVE req'[q].order \in Orders
    BY <2>2, <2>3 DEF TypeOK, AtWorkOnOrder, GoTo, Finish, Idle
  <2> QED BY <2>1, <2>3 DEF AtWorkOnOrder
<1>2. CASE Bystander
  <2>1. \A r \in Requests : req'[r].pc # "idle" => req'[r].order \in Orders
    BY <1>2, BystanderLeavesRequests DEF AtWorkOnOrder
  <2>2. check'.pc # "idle" => check'.order \in Orders
    <3>1. CASE UNCHANGED check
      BY <3>1 DEF AtWorkOnOrder
    <3>2. CASE CheckRead
      BY <3>2 DEF CheckRead, OrderToCheck, TypeOK, WatchType, InvoiceType
    <3>3. CASE CheckAsk \/ CheckSettle
      BY <3>3 DEF CheckAsk, CheckSettle, AtWorkOnOrder, TypeOK, CheckType
    <3>4. CheckRead \/ CheckAsk \/ CheckSettle \/ UNCHANGED check
      BY <1>2 DEF Bystander, PaymentStep, ChooseOption, RegistrationOrder, Organizer,
         EditInvoice, Cancel, Reopen, SetPercent, HandPick, HandSave, Worker, SweepPick,
         SweepAsk, SweepAct, PayPal, Approve, Complete, Deny, Expire, PayPalMoves, Time,
         FifteenMinutes, HalfAnHour, WatchEnds, Tick, vars
    <3> QED BY <3>1, <3>2, <3>3, <3>4
  <2>3. sweep'.pc # "idle" => sweep'.order \in Orders
    <3>1. CASE UNCHANGED sweep
      BY <3>1 DEF AtWorkOnOrder
    <3>2. CASE SweepPick
      BY <3>2 DEF SweepPick, Sweepable, TypeOK, WatchType
    <3>3. CASE SweepAsk
      <4>1. \E answer : sweep' = [sweep EXCEPT !.pc = "act", !.answer = answer]
        BY <3>3 DEF SweepAsk
      <4>2. sweep.order \in Orders
        BY <3>3 DEF SweepAsk, AtWorkOnOrder
      <4> QED BY <4>1, <4>2 DEF TypeOK, SweepType
    <3>4. CASE SweepAct
      <4>1. sweep' = NoSweep
        BY <3>4 DEF SweepAct
      <4> QED BY <4>1 DEF NoSweep
    <3>5. SweepPick \/ SweepAsk \/ SweepAct \/ UNCHANGED sweep
      BY <1>2 DEF Bystander, PaymentStep, ChooseOption, RegistrationOrder, Organizer,
         EditInvoice, Cancel, Reopen, SetPercent, HandPick, HandSave, CheckRead, CheckAsk,
         CheckSettle, Worker, PayPal, Approve, Complete, Deny, Expire, PayPalMoves, Time,
         FifteenMinutes, HalfAnHour, WatchEnds, Tick, vars
    <3> QED BY <3>1, <3>2, <3>3, <3>4, <3>5
  <2> QED BY <2>1, <2>2, <2>3 DEF AtWorkOnOrder
<1> QED BY <1>1, <1>2 DEF Next, Bystander

(* The row is let go of by the request that held it, only.                 *)
LEMMA RowStep ==
  ASSUME TypeOK, RowHeld, [Next]_vars
  PROVE  RowHeld'
<1> SUFFICES ASSUME NEW q \in Requests, req'[q].pc \in {"post", "record"}
             PROVE  lock' = q
  BY DEF RowHeld
<1>1. ASSUME NEW r \in Requests, Request(r), UNCHANGED lock PROVE lock' = q
  <2>1. CASE q = r
    BY <1>1, <2>1 DEF Request, PayPageAsk, PayPageSave, CaptureBegin, CaptureMark,
       CaptureLock, CapturePost, CaptureRecord, CaptureSettle, CaptureReport, Crash, GoTo,
       Finish, Idle, TypeOK, RowHeld
  <2>2. CASE q # r
    <3>1. req'[q] = req[q]
      BY <1>1, <2>2 DEF Request, PayPageAsk, PayPageSave, CaptureBegin, CaptureMark,
         CaptureLock, CapturePost, CaptureRecord, CaptureSettle, CaptureReport, Crash,
         GoTo, Finish, TypeOK
    <3> QED BY <1>1, <3>1 DEF RowHeld
  <2> QED BY <2>1, <2>2
<1>2. ASSUME NEW r \in Requests, CaptureLock(r), lock' # lock PROVE lock' = q
  <2>1. lock = NoRequest /\ lock' = r
    BY <1>2 DEF CaptureLock
  <2>2. CASE q # r
    <3>1. req'[q] = req[q]
      BY <1>2, <2>2 DEF CaptureLock, GoTo, Finish, TypeOK
    <3> QED BY <2>1, <3>1, NullAssumption DEF RowHeld
  <2> QED BY <2>1, <2>2
<1>3. ASSUME NEW r \in Requests, lock' # lock,
             CapturePost(r) \/ CaptureRecord(r) \/ Crash(r)
      PROVE  lock' = q
  <2>1. lock = r
    BY <1>3 DEF CapturePost, CaptureRecord, Crash, RowHeld
  <2>2. \/ \E pc \in {"settle", "report"} : \E o, answer : GoTo(r, pc, o, answer)
        \/ Finish(r)
    BY <1>3, <2>1 DEF CapturePost, CaptureRecord, Crash
  <2>3. q # r /\ req'[q] = req[q]
    BY <2>2 DEF GoTo, Finish, Idle, TypeOK
  <2> QED BY <2>1, <2>2, <2>3 DEF RowHeld
<1>4. CASE Bystander
  BY <1>4, BystanderLeavesRequests DEF RowHeld
<1>5. ASSUME NEW r \in Requests, Request(r), lock' # lock
      PROVE  CaptureLock(r) \/ CapturePost(r) \/ CaptureRecord(r) \/ Crash(r)
  BY <1>5 DEF Request, PayPageAsk, PayPageSave, CaptureBegin, CaptureMark, CaptureSettle,
     CaptureReport
<1> QED BY <1>1, <1>2, <1>3, <1>4, <1>5 DEF Next, Bystander

(* PayPal's orders change when one is made or given to its payer, when a    *)
(* capture asks for the money, and by PayPal.                               *)
LEMMA OrdersChange ==
  ASSUME [Next]_vars
  PROVE  \/ UNCHANGED pp
         \/ \E r \in Requests : \/ \E q \in Orders : PayPageAsk(r, q)
                               \/ CapturePost(r) \/ PayPageSave(r)
         \/ \E q \in Orders, amount \in Amounts : RegistrationOrder(q, amount)
         \/ PayPal
<1>1. ASSUME NEW r \in Requests, Request(r)
      PROVE  \/ UNCHANGED pp
             \/ \E q \in Orders : PayPageAsk(r, q)
             \/ CapturePost(r) \/ PayPageSave(r)
  BY <1>1 DEF Request, CaptureBegin, CaptureMark, CaptureLock, CaptureRecord,
     CaptureSettle, CaptureReport, Crash
<1>2. CASE Organizer
  BY <1>2 DEF Organizer, EditInvoice, Cancel, Reopen, SetPercent, HandPick, HandSave,
     CheckRead, CheckAsk, CheckSettle
<1>3. CASE Worker
  BY <1>3 DEF Worker, SweepPick, SweepAsk, SweepAct
<1>4. CASE Time
  BY <1>4 DEF Time, FifteenMinutes, HalfAnHour, WatchEnds, Tick
<1>5. CASE PaymentStep
  BY <1>5 DEF PaymentStep, ChooseOption
<1>6. CASE UNCHANGED vars
  BY <1>6 DEF vars
<1> QED BY <1>1, <1>2, <1>3, <1>4, <1>5, <1>6 DEF Next

(* What an order asks is settled when it is made, and one its payer has is  *)
(* never made again.                                                        *)
LEMMA MadeOnce ==
  ASSUME TypeOK, [Next]_vars,
         NEW STATE o, o \in Orders, pp[o].st \notin {"none", "created"}
  PROVE  /\ pp'[o].asks = pp[o].asks
         /\ pp'[o].st \notin {"none", "created"}
<1> USE DEF TypeOK, OrderType
<1>1. ASSUME NEW r \in Requests, NEW q \in Orders, PayPageAsk(r, q)
      PROVE  pp'[o] = pp[o]
  BY <1>1 DEF PayPageAsk, Ordered
<1>2. ASSUME NEW q \in Orders, NEW amount \in Amounts, RegistrationOrder(q, amount)
      PROVE  pp'[o] = pp[o]
  BY <1>2 DEF RegistrationOrder, Ordered
<1>3. ASSUME NEW q, NEW st \in OrderState \ {"none", "created"}, pp' = [pp EXCEPT ![q].st = st]
      PROVE  pp'[o].asks = pp[o].asks /\ pp'[o].st \notin {"none", "created"}
  BY <1>3
<1>4. ASSUME NEW r \in Requests, CapturePost(r)
      PROVE  \/ UNCHANGED pp
             \/ \E q, st : /\ st \in OrderState \ {"none", "created"}
                          /\ pp' = [pp EXCEPT ![q].st = st]
  BY <1>4, ZenonT(60) DEF CapturePost, OrderState
<1>5. ASSUME NEW r \in Requests, PayPageSave(r)
      PROVE  \/ UNCHANGED pp
             \/ \E q : pp' = [pp EXCEPT ![q].st = "offered"]
  BY <1>5 DEF PayPageSave
<1>6. ASSUME PayPal
      PROVE  \E q, st : /\ st \in OrderState \ {"none", "created"}
                       /\ pp' = [pp EXCEPT ![q].st = st]
  BY <1>6 DEF PayPal, Approve, Complete, Deny, Expire, PayPalMoves, OrderState
<1>7. \/ UNCHANGED pp
      \/ \E r \in Requests : \/ \E q \in Orders : PayPageAsk(r, q)
                            \/ CapturePost(r) \/ PayPageSave(r)
      \/ \E q \in Orders, amount \in Amounts : RegistrationOrder(q, amount)
      \/ PayPal
  BY OrdersChange
<1>8. "offered" \in OrderState \ {"none", "created"}
  BY DEF OrderState
<1> QED BY <1>1, <1>2, <1>3, <1>4, <1>5, <1>6, <1>7, <1>8

(* Nobody but the request holding the row writes what the invoice asks or   *)
(* what was paid on it.                                                     *)
LEMMA LockedInvoice ==
  ASSUME TypeOK, RowHeld, [Next]_vars,
         NEW r \in Requests, req[r].pc = "post"
  PROVE  UNCHANGED <<invoice, paid>>
<1>1. lock = r /\ lock # NoRequest
  BY NullAssumption DEF RowHeld
<1>2. ASSUME NEW q \in Requests, Request(q) PROVE UNCHANGED <<invoice, paid>>
  <2>1. CASE CaptureRecord(q)
    <3>1. lock = q /\ req[q].pc = "record"
      BY <2>1 DEF CaptureRecord, RowHeld
    <3> QED BY <1>1, <3>1
  <2>2. CASE ~CaptureRecord(q)
    BY <1>1, <1>2, <2>2 DEF Request, PayPageAsk, PayPageSave, CaptureBegin, CaptureMark,
       CaptureLock, CapturePost, CaptureSettle, CaptureReport, Crash
  <2> QED BY <2>1, <2>2
<1>3. CASE PaymentStep
  BY <1>1, <1>3 DEF PaymentStep, ChooseOption, RegistrationOrder, Preparable
<1>4. CASE Organizer
  BY <1>1, <1>4 DEF Organizer, EditInvoice, Cancel, Reopen, SetPercent, HandPick, HandSave,
     CheckRead, CheckAsk, CheckSettle
<1>5. CASE Worker
  BY <1>1, <1>5 DEF Worker, SweepPick, SweepAsk, SweepAct
<1>6. CASE PayPal
  BY <1>6 DEF PayPal, Approve, Complete, Deny, Expire, PayPalMoves
<1>7. CASE Time
  BY <1>7 DEF Time, FifteenMinutes, HalfAnHour, WatchEnds, Tick
<1>8. CASE UNCHANGED vars
  BY <1>8 DEF vars
<1> QED BY <1>2, <1>3, <1>4, <1>5, <1>6, <1>7, <1>8 DEF Next

(* A step of one request is no step of another's; a request asks PayPal to  *)
(* take the money only from its look at the order, and asks once.           *)
LEMMA RequestOwnStep ==
  ASSUME TypeOK, NEW r \in Requests, NEW q \in Requests, Request(q), req'[r].pc = "post"
  PROVE  \/ q # r /\ req'[r] = req[r]
         \/ q = r /\ CaptureLock(r)
<1>1. CASE q # r
  BY <1>1 DEF Request, PayPageAsk, PayPageSave, CaptureBegin, CaptureMark, CaptureLock,
     CapturePost, CaptureRecord, CaptureSettle, CaptureReport, Crash, GoTo, Finish, TypeOK
<1>2. CASE q = r
  <2>1. \/ CaptureLock(r)
        \/ Finish(r)
        \/ \E pc \in {"save", "mark", "lock", "record", "settle", "report"} :
             \E o, answer : GoTo(r, pc, o, answer)
    BY <1>2 DEF Request, PayPageAsk, PayPageSave, CaptureBegin, CaptureMark, CapturePost,
       CaptureRecord, CaptureSettle, CaptureReport, Crash
  <2> QED BY <1>2, <2>1 DEF GoTo, Finish, Idle, TypeOK
<1> QED BY <1>1, <1>2

(* What a capture checked is what it asks PayPal for.                      *)
LEMMA PostingStep ==
  ASSUME TypeOK, AtWorkOnOrder, RowHeld, PostingWhatIsDue, [Next]_vars
  PROVE  PostingWhatIsDue'
<1> SUFFICES ASSUME NEW r \in Requests, req'[r].pc = "post"
             PROVE  AsksWhatIsDue(req[r].order)'
  BY DEF PostingWhatIsDue
<1>1. CASE req[r].pc = "post"
  <2>1. UNCHANGED <<invoice, paid>>
    BY <1>1, LockedInvoice
  <2>2. req'[r] = req[r]
    <3>1. ~CaptureLock(r)
      BY <1>1 DEF CaptureLock
    <3>2. ASSUME NEW q \in Requests, Request(q) PROVE req'[r] = req[r]
      BY <3>1, <3>2, RequestOwnStep
    <3> QED BY <3>2, BystanderLeavesRequests DEF Next, Bystander
  <2>3. req[r].order \in Orders /\ AsksWhatIsDue(req[r].order)
    BY <1>1 DEF AtWorkOnOrder, PostingWhatIsDue
  <2>4. /\ pp'[req[r].order].asks = pp[req[r].order].asks
        /\ pp'[req[r].order].st \notin {"none", "created"}
    BY <2>3, MadeOnce DEF AsksWhatIsDue
  <2>5. Due(invoice)' = Due(invoice)
    BY <2>1 DEF Due
  <2> QED BY <2>1, <2>2, <2>3, <2>4, <2>5 DEF AsksWhatIsDue, FeeAt
<1>2. CASE req[r].pc # "post"
  <2>1. CaptureLock(r)
    <3>1. ASSUME NEW q \in Requests, Request(q) PROVE CaptureLock(r)
      BY <1>2, <3>1, RequestOwnStep
    <3> QED BY <1>2, <3>1, BystanderLeavesRequests DEF Next, Bystander
  <2>2. /\ req'[r].order = req[r].order
        /\ pp[req[r].order].st = "approved" /\ Payable(req[r].order)
    BY <1>2, <2>1 DEF CaptureLock, GoTo, Finish, Idle, TypeOK, Taken
  <2>3. UNCHANGED <<invoice, paid, pp>>
    BY <2>1 DEF CaptureLock
  <2>4. Due(invoice) \in Nat
    BY DueNat DEF TypeOK, InvoiceType
  <2>5. OrderFee(invoice) = FeeAt(percent, Due(invoice)) \/ OrderFee(invoice) = 0
    BY DEF OrderFee, OnlineFee
  <2>6. FeeAt(0, Due(invoice)) = 0
    <3> HIDE DEF Due
    <3> QED BY <2>4 DEF FeeAt
  <2>7. \E p \in Percents \union {0} : OrderFee(invoice) = FeeAt(p, Due(invoice))
    BY <2>5, <2>6 DEF TypeOK
  <2>8. Due(invoice)' = Due(invoice)
    BY <2>3 DEF Due
  <2> QED BY <2>2, <2>3, <2>7, <2>8 DEF AsksWhatIsDue, Payable, FeeAt
<1> QED BY <1>1, <1>2

-----------------------------------------------------------------------------
(* The invariant, of every reachable state.                                *)
LEMMA Invariant == Spec => []IInv
<1>1. Init => IInv
  BY InitIInv
<1>2. IInv /\ [Next]_vars => IInv'
  BY TypeStep, AtWorkStep, RowStep, PostingStep DEF IInv
<1> QED BY <1>1, <1>2, PTL DEF Spec

(* Every variable keeps to its type.                                       *)
THEOREM TypeCorrect == Spec => []TypeOK
<1>1. IInv => TypeOK
  BY DEF IInv
<1> QED BY <1>1, Invariant, PTL

(* The money moves only for the invoice's pending order, while it is not   *)
(* cancelled, and for exactly what it asks at that moment                  *)
(* (capture_paypal_order, _capture): whatever requests, organizers, the    *)
(* worker and PayPal do meanwhile.                                         *)
THEOREM OnlyForDue == Spec => MoneyOnlyForDue
<1> DEFINE Step ==
      \A o \in Orders : ~Taken(o) /\ Taken(o)' =>
        /\ invoice.pending = o /\ ~invoice.cancelled /\ Due(invoice) > 0
        /\ \E p \in Percents \union {0} :
             pp[o].asks = Due(invoice) + FeeAt(p, Due(invoice))
<1>1. IInv /\ [Next]_vars => [Step]_vars
  <2> SUFFICES ASSUME IInv, [Next]_vars, NEW o \in Orders, ~Taken(o), Taken(o)'
               PROVE  AsksWhatIsDue(o)
    BY DEF AsksWhatIsDue
  <2> USE DEF IInv, TypeOK
  <2>1. \E r \in Requests : CapturePost(r)
    <3>1. ASSUME NEW r \in Requests, Request(r) PROVE CapturePost(r)
      <4>1. ASSUME NEW q, PayPageAsk(r, q) PROVE FALSE
        BY <4>1 DEF PayPageAsk, Ordered, Taken, OrderType
      <4>2. ~PayPageSave(r)
        BY DEF PayPageSave, Taken, OrderType
      <4> QED BY <3>1, <4>1, <4>2 DEF Request, CaptureBegin, CaptureMark, CaptureLock,
                 CaptureRecord, CaptureSettle, CaptureReport, Crash, Taken
    <3>2. ~(PaymentStep \/ Organizer \/ Worker \/ PayPal \/ Time \/ UNCHANGED vars)
      <4>1. ~PaymentStep
        <5>1. ASSUME NEW q \in Orders, NEW amount, RegistrationOrder(q, amount) PROVE FALSE
          BY <5>1 DEF RegistrationOrder, Ordered, Taken, OrderType
        <5> QED BY <5>1 DEF PaymentStep, ChooseOption, Taken
      <4>2. ~Organizer
        BY DEF Organizer, EditInvoice, Cancel, Reopen, SetPercent, HandPick, HandSave,
           CheckRead, CheckAsk, CheckSettle, Taken
      <4>3. ~Worker
        BY DEF Worker, SweepPick, SweepAsk, SweepAct, Taken
      <4>4. ~PayPal
        BY DEF PayPal, Approve, Complete, Deny, Expire, PayPalMoves, Taken, OrderType
      <4>5. ~Time /\ ~UNCHANGED vars
        BY DEF Time, FifteenMinutes, HalfAnHour, WatchEnds, Tick, vars, Taken
      <4> QED BY <4>1, <4>2, <4>3, <4>4, <4>5
    <3> QED BY <3>1, <3>2 DEF Next
  <2>2. PICK r \in Requests : CapturePost(r)
    BY <2>1
  <2>3. req[r].order = o
    BY <2>2 DEF CapturePost, Taken, OrderType
  <2>4. req[r].pc = "post"
    BY <2>2 DEF CapturePost
  <2> QED BY <2>3, <2>4 DEF PostingWhatIsDue
<1> QED BY <1>1, Invariant, PTL DEF MoneyOnlyForDue, Spec

-----------------------------------------------------------------------------
(* The mark: money PayPal took holds its invoice until it is recorded.       *)

(* PayPal was asked to take the order's money, and has answered or let it go. *)
Past(o) == pp[o].st \in {"completed", "pending", "declined", "gone"}

(* The order is its payer's, and the payer has approved it.                *)
Made(o) == pp[o].st \notin {"none", "created"}
Later(o) == pp[o].st \notin {"none", "created", "offered"}

(* A request that makes an order is the only one to; one that captures has *)
(* an order its payer approved; an invoice's pending order is its payer's.  *)
MakingOrders ==
  /\ \A r \in Requests : req[r].pc = "save" =>
       /\ pp[req[r].order].st = "created"
       /\ \A q \in Requests \ {r} : req[q].pc = "save" => req[q].order # req[r].order
  /\ \A r \in Requests : req[r].pc \notin {"idle", "save"} => Later(req[r].order)
  /\ invoice.pending # NoOrder => Made(invoice.pending)

(* What PayPal answered of an order still stands when it is acted on, and   *)
(* only what PayPal took is processing or recorded.                         *)
AnswersStand ==
  /\ \A r \in Requests : req[r].pc = "record" =>
       /\ req[r].answer \in {"completed", "pending"}
       /\ req[r].answer = "completed" => pp[req[r].order].st = "completed"
       /\ req[r].answer = "pending" => Past(req[r].order)
  /\ check.pc = "settle" => pp[check.order].st = "gone"
  /\ sweep.pc = "act" /\ sweep.answer = "completed" => pp[sweep.order].st = "completed"
  /\ sweep.pc = "act" /\ sweep.answer = "pending" => Past(sweep.order)
  /\ sweep.pc # "idle" /\ sweep.wasPending => Past(sweep.order)
  /\ watch.processing => watch.order # NoOrder /\ Past(watch.order)
  /\ \A o \in recorded : pp[o].st = "completed"

(* An attempt newer than the sweep's is not the sweep's.                   *)
AttemptsApart ==
  /\ watch.attempt <= clock /\ sweep.attempt <= clock
  /\ sweep.pc # "idle" /\ watch.order # NoOrder /\ sweep.attempt = watch.attempt
       => watch.age # "new" \/ watch.processing

-----------------------------------------------------------------------------
(* How an order moves on, once its payer has it.                           *)
Goes(from, to) ==
  \/ from = "offered" /\ to \in {"approved", "gone"}
  \/ from = "approved" /\ to \in {"completed", "pending", "declined", "gone"}
  \/ from = "pending" /\ to \in {"completed", "declined"}
  \/ from = "declined" /\ to = "gone"

(* Every order stays as it is, is made, is given to its payer, or goes on;  *)
(* PayPal takes its money only when a capture asks for it.                  *)
LEMMA OrderMoves ==
  ASSUME TypeOK, AtWorkOnOrder, MakingOrders, [Next]_vars, NEW STATE o, o \in Orders
  PROVE  \/ pp'[o] = pp[o]
         \/ pp[o].st = "none" /\ pp'[o].st \in {"created", "offered"}
         \/ /\ pp[o].st = "created" /\ pp'[o].st = "offered"
            /\ \E r \in Requests : PayPageSave(r) /\ req[r].order = o
         \/ /\ Goes(pp[o].st, pp'[o].st) /\ pp'[o].fee = pp[o].fee
            /\ pp[o].st = "approved" /\ pp'[o].st # "gone" =>
                 \E r \in Requests : CapturePost(r) /\ req[r].order = o
<1> USE DEF TypeOK, OrderType
<1>1. ASSUME NEW r \in Requests, NEW q \in Orders, PayPageAsk(r, q)
      PROVE  \/ pp'[o] = pp[o]
             \/ pp[o].st = "none" /\ pp'[o].st \in {"created", "offered"}
  BY <1>1 DEF PayPageAsk, Ordered
<1>2. ASSUME NEW q \in Orders, NEW amount \in Amounts, RegistrationOrder(q, amount)
      PROVE  \/ pp'[o] = pp[o]
             \/ pp[o].st = "none" /\ pp'[o].st \in {"created", "offered"}
  BY <1>2 DEF RegistrationOrder, Ordered
<1>3. ASSUME NEW r \in Requests, PayPageSave(r)
      PROVE  \/ pp'[o] = pp[o]
             \/ pp[o].st = "created" /\ pp'[o].st = "offered" /\ req[r].order = o
  BY <1>3 DEF PayPageSave, MakingOrders
<1>4. ASSUME NEW r \in Requests, CapturePost(r)
      PROVE  \/ pp'[o] = pp[o]
             \/ /\ Goes(pp[o].st, pp'[o].st) /\ pp'[o].fee = pp[o].fee
                /\ req[r].order = o
  <2>1. \/ UNCHANGED pp
        \/ \E st \in {"completed", "pending", "declined"} :
             pp[req[r].order].st = "approved" /\ pp' = [pp EXCEPT ![req[r].order].st = st]
    BY <1>4 DEF CapturePost
  <2> QED BY <2>1 DEF Goes
<1>5. ASSUME PayPal
      PROVE  \/ pp'[o] = pp[o]
             \/ /\ Goes(pp[o].st, pp'[o].st) /\ pp'[o].fee = pp[o].fee
                /\ pp[o].st = "approved" => pp'[o].st = "gone"
  <2>1. ASSUME NEW q \in Orders, NEW from, NEW to \in OrderState, PayPalMoves(q, from, to)
        PROVE  \/ pp'[o] = pp[o]
               \/ pp[o].st \in from /\ pp'[o].st = to /\ pp'[o].fee = pp[o].fee
    BY <2>1 DEF PayPalMoves
  <2>2. PICK q \in Orders : Approve(q) \/ Complete(q) \/ Deny(q) \/ Expire(q)
    BY <1>5 DEF PayPal
  <2> QED BY <2>1, <2>2 DEF Approve, Complete, Deny, Expire, Goes, OrderState
<1>6. \/ UNCHANGED pp
      \/ \E r \in Requests : \/ \E q \in Orders : PayPageAsk(r, q)
                            \/ CapturePost(r) \/ PayPageSave(r)
      \/ \E q \in Orders, amount \in Amounts : RegistrationOrder(q, amount)
      \/ PayPal
  BY OrdersChange
<1> QED BY <1>1, <1>2, <1>3, <1>4, <1>5, <1>6

(* Where a step leaves a request: as it was, over, or one step on with the  *)
(* same order.                                                              *)
RequestGoes(r) ==
  LET o == req[r].order
  IN  \/ req'[r] = req[r] \/ req'[r] = Idle
      \/ req'[r].pc = "save" /\ \E q \in Orders : PayPageAsk(r, q) /\ req'[r].order = q
      \/ req'[r].pc = "mark" /\ \E q \in Orders : CaptureBegin(r, q) /\ req'[r].order = q
      \/ req'[r].pc = "lock" /\ req'[r].order = o /\ CaptureMark(r)
      \/ /\ req'[r].pc = "post" /\ req'[r].order = o /\ CaptureLock(r)
         /\ pp[o].st = "approved" /\ Payable(o)
      \/ /\ req'[r].pc = "record" /\ req'[r].order = o /\ CaptureLock(r)
         /\ Taken(o) /\ req'[r].answer = pp[o].st
      \/ /\ req'[r].pc = "record" /\ req'[r].order = o /\ CapturePost(r)
         /\ req'[r].answer \in {"completed", "pending"} /\ req'[r].answer = pp'[o].st
      \/ /\ req'[r].pc \in {"settle", "report"} /\ req'[r].order = o
         /\ req[r].pc \in {"lock", "post", "record"}
         /\ req'[r].pc = "settle" => CaptureLock(r) \/ CapturePost(r)

LEMMA RequestMoves ==
  ASSUME TypeOK, AtWorkOnOrder, [Next]_vars, NEW r \in Requests
  PROVE  RequestGoes(r)
<1> USE DEF TypeOK
<1>1. ASSUME NEW q \in Requests, Request(q), q # r PROVE req'[r] = req[r]
  BY <1>1 DEF Request, PayPageAsk, PayPageSave, CaptureBegin, CaptureMark, CaptureLock,
     CapturePost, CaptureRecord, CaptureSettle, CaptureReport, Crash, GoTo, Finish
<1>2. ASSUME NEW q \in Orders, PayPageAsk(r, q) \/ CaptureBegin(r, q) PROVE RequestGoes(r)
  BY <1>2 DEF PayPageAsk, CaptureBegin, GoTo, RequestGoes
<1>3. ASSUME PayPageSave(r) \/ CaptureSettle(r) \/ CaptureReport(r) \/ Crash(r)
      PROVE  RequestGoes(r)
  BY <1>3 DEF PayPageSave, CaptureSettle, CaptureReport, Crash, Finish, RequestGoes
<1>4. ASSUME CaptureMark(r) PROVE RequestGoes(r)
  BY <1>4 DEF CaptureMark, GoTo, RequestGoes
<1>5. ASSUME CaptureLock(r) PROVE RequestGoes(r)
  BY <1>5 DEF CaptureLock, GoTo, Finish, RequestGoes
<1>6. ASSUME CapturePost(r) PROVE RequestGoes(r)
  <2>1. req[r].order \in Orders /\ req[r].pc = "post"
    BY <1>6 DEF CapturePost, AtWorkOnOrder
  <2>2. \/ \E pc \in {"settle", "report"} : GoTo(r, pc, req[r].order, "none")
        \/ \E st \in {"completed", "pending"} :
             /\ GoTo(r, "record", req[r].order, st)
             /\ pp' = [pp EXCEPT ![req[r].order].st = st]
    BY <1>6 DEF CapturePost
  <2>3. ASSUME NEW st \in {"completed", "pending"}, pp' = [pp EXCEPT ![req[r].order].st = st]
        PROVE  pp'[req[r].order].st = st
    BY <2>1, <2>3 DEF OrderType
  <2> QED BY <1>6, <2>1, <2>2, <2>3 DEF GoTo, RequestGoes
<1>7. ASSUME CaptureRecord(r) PROVE RequestGoes(r)
  BY <1>7 DEF CaptureRecord, GoTo, Finish, RequestGoes
<1>8. ASSUME Bystander PROVE RequestGoes(r)
  BY <1>8, BystanderLeavesRequests DEF RequestGoes
<1>9. ASSUME Request(r) PROVE RequestGoes(r)
  BY <1>9, <1>2, <1>3, <1>4, <1>5, <1>6, <1>7 DEF Request
<1>10. ASSUME NEW q \in Requests, Request(q), q # r PROVE RequestGoes(r)
  BY <1>1, <1>10 DEF RequestGoes
<1> QED BY <1>8, <1>9, <1>10 DEF Next, Bystander

(* What a step does to the invoice's mark.  The outcome of each decides what *)
(* becomes of the mark.                                                      *)
Marks(r) ==
  /\ CaptureMark(r) /\ invoice.pending = req[r].order /\ ~watch.processing
  /\ watch' = NewWatch(req[r].order) /\ clock' = clock + 1
  /\ UNCHANGED <<invoice, recorded, paid, pp, check, sweep, lapsed>>

Pends(o) ==
  /\ MarkPending(o)
  /\ \/ \E r \in Requests : /\ CaptureRecord(r) /\ req[r].order = o
                            /\ req[r].pc = "record" /\ req[r].answer = "pending"
     \/ CheckAsk /\ check.order = o /\ pp[o].st = "pending"
  /\ UNCHANGED <<recorded, paid, pp, sweep, lapsed>>

Records(o) ==
  /\ RecordCapture(o) /\ pp[o].st = "completed"
  /\ UNCHANGED <<pp, clock, lapsed>>

Settles(o) ==
  /\ watch' = SettledOrder(o)
  /\ \/ \E r \in Requests : CaptureSettle(r) /\ o = req[r].order
     \/ CheckSettle /\ o = check.order
  /\ UNCHANGED <<invoice, recorded, paid, pp, clock, sweep, lapsed>>

Denies(o) ==
  /\ watch' = SettledOrder(o)
  /\ invoice' = [invoice EXCEPT !.pending = IF @ = o THEN NoOrder ELSE @]
  /\ CheckAsk /\ pp[o].st \in {"offered", "approved", "declined"} /\ o = check.order
  /\ UNCHANGED <<recorded, paid, pp, clock, sweep, lapsed>>

Notes ==
  /\ sweep.pc = "act" /\ (sweep.answer = "pending" \/ sweep.wasPending) /\ NoteAsked
  /\ UNCHANGED <<invoice, recorded, paid, pp, clock, check, lapsed>> /\ sweep' = NoSweep

Sweeps ==
  /\ sweep.pc = "act" /\ sweep.answer \in {"gone", "offered", "approved", "declined"}
  /\ watch' = SettledAttempt(sweep.order, sweep.attempt)
  /\ UNCHANGED <<invoice, recorded, paid, pp, clock, check, lapsed>> /\ sweep' = NoSweep

MarkGoes ==
  \/ UNCHANGED <<watch, clock, recorded>>
  \/ \E r \in Requests : Marks(r)
  \/ \E o \in Orders : Pends(o) \/ Records(o) \/ Settles(o) \/ Denies(o)
  \/ Notes \/ Sweeps
  \/ FifteenMinutes \/ HalfAnHour \/ WatchEnds

LEMMA MarkMoves ==
  ASSUME TypeOK, AtWorkOnOrder, AnswersStand, [Next]_vars
  PROVE  MarkGoes
<1>1. ASSUME NEW r \in Requests, Request(r) PROVE MarkGoes
  <2>1. CASE CaptureMark(r)
    BY <2>1 DEF CaptureMark, Marks, MarkGoes
  <2>2. CASE CaptureRecord(r)
    <3>1. req[r].order \in Orders
      BY <2>2 DEF CaptureRecord, AtWorkOnOrder
    <3>2. \/ UNCHANGED <<watch, clock, recorded>>
          \/ Pends(req[r].order)
          \/ Records(req[r].order)
      BY <2>2 DEF CaptureRecord, Pends, Records, AnswersStand
    <3> QED BY <3>1, <3>2 DEF MarkGoes
  <2>3. CASE CaptureSettle(r)
    <3>1. req[r].order \in Orders
      BY <2>3 DEF CaptureSettle, AtWorkOnOrder
    <3>2. Settles(req[r].order)
      BY <2>3 DEF CaptureSettle, Settles
    <3> QED BY <3>1, <3>2 DEF MarkGoes
  <2>4. CASE ~CaptureMark(r) /\ ~CaptureRecord(r) /\ ~CaptureSettle(r)
    BY <1>1, <2>4 DEF Request, PayPageAsk, PayPageSave, CaptureBegin, CaptureLock, CapturePost,
       CaptureReport, Crash, MarkGoes
  <2> QED BY <2>1, <2>2, <2>3, <2>4
<1>2. CASE PaymentStep
  BY <1>2 DEF PaymentStep, ChooseOption, RegistrationOrder, MarkGoes
<1>3. CASE Organizer
  <2>1. CASE CheckAsk
    <3>1. check.order \in Orders
      BY <2>1 DEF CheckAsk, AtWorkOnOrder
    <3>2. \/ UNCHANGED <<watch, clock, recorded>>
          \/ Pends(check.order) \/ Records(check.order) \/ Denies(check.order)
      BY <2>1 DEF CheckAsk, Pends, Records, Denies
    <3> QED BY <3>1, <3>2 DEF MarkGoes
  <2>2. CASE CheckSettle
    <3>1. check.order \in Orders
      BY <2>2 DEF CheckSettle, AtWorkOnOrder
    <3>2. Settles(check.order)
      BY <2>2 DEF CheckSettle, Settles
    <3> QED BY <3>1, <3>2 DEF MarkGoes
  <2>3. CASE ~CheckAsk /\ ~CheckSettle
    BY <1>3, <2>3 DEF Organizer, EditInvoice, Cancel, Reopen, SetPercent, HandPick, HandSave,
       CheckRead, MarkGoes
  <2> QED BY <2>1, <2>2, <2>3
<1>4. CASE Worker
  <2>1. CASE SweepAct
    <3>1. sweep.order \in Orders
      BY <2>1 DEF SweepAct, AtWorkOnOrder
    <3>2. \/ UNCHANGED <<watch, clock, recorded>>
          \/ Records(sweep.order) \/ Notes \/ Sweeps
      BY <2>1 DEF SweepAct, SettleSwept, Records, Notes, Sweeps, AnswersStand
    <3> QED BY <3>1, <3>2 DEF MarkGoes
  <2>2. CASE ~SweepAct
    BY <1>4, <2>2 DEF Worker, SweepPick, SweepAsk, MarkGoes
  <2> QED BY <2>1, <2>2
<1>5. CASE PayPal
  BY <1>5 DEF PayPal, Approve, Complete, Deny, Expire, PayPalMoves, MarkGoes
<1>6. CASE Time \/ UNCHANGED vars
  BY <1>6 DEF Time, vars, MarkGoes
<1> QED BY <1>1, <1>2, <1>3, <1>4, <1>5, <1>6 DEF Next

(* What a step does to what the invoice asks, and to its pending order.     *)
InvoiceGoes ==
  \/ UNCHANGED <<invoice, paid>>
  \/ \E r \in Requests : PayPageSave(r) /\ ~Held
  \/ \E amount \in Amounts : \/ ChooseOption(amount)
                             \/ \E o \in Orders : RegistrationOrder(o, amount)
  \/ \E amount \in Amounts, handling \in {0, invoice.handling} : EditInvoice(amount, handling)
  \/ Cancel \/ Reopen
  \/ \E amount \in Amounts : HandSave(amount)
  \/ \E o \in Orders : Pends(o) \/ Records(o) \/ Denies(o)

LEMMA InvoiceMoves ==
  ASSUME TypeOK, AtWorkOnOrder, AnswersStand, [Next]_vars
  PROVE  InvoiceGoes
<1>1. ASSUME NEW r \in Requests, Request(r) PROVE InvoiceGoes
  <2>1. CASE CaptureRecord(r)
    <3>1. req[r].order \in Orders
      BY <2>1 DEF CaptureRecord, AtWorkOnOrder
    <3>2. \/ UNCHANGED <<invoice, paid>>
          \/ Pends(req[r].order)
          \/ Records(req[r].order)
      BY <2>1 DEF CaptureRecord, Pends, Records, AnswersStand
    <3> QED BY <3>1, <3>2 DEF InvoiceGoes
  <2>2. CASE PayPageSave(r)
    BY <2>2 DEF PayPageSave, InvoiceGoes
  <2>3. CASE ~CaptureRecord(r) /\ ~PayPageSave(r)
    BY <1>1, <2>3 DEF Request, PayPageAsk, CaptureBegin, CaptureMark, CaptureLock, CapturePost,
       CaptureSettle, CaptureReport, Crash, InvoiceGoes
  <2> QED BY <2>1, <2>2, <2>3
<1>2. CASE PaymentStep
  BY <1>2 DEF PaymentStep, InvoiceGoes
<1>3. CASE Organizer
  <2>1. CASE CheckAsk
    <3>1. check.order \in Orders
      BY <2>1 DEF CheckAsk, AtWorkOnOrder
    <3>2. \/ UNCHANGED <<invoice, paid>>
          \/ Pends(check.order) \/ Records(check.order) \/ Denies(check.order)
      BY <2>1 DEF CheckAsk, Pends, Records, Denies
    <3> QED BY <3>1, <3>2 DEF InvoiceGoes
  <2>2. CASE ~CheckAsk
    BY <1>3, <2>2 DEF Organizer, SetPercent, HandPick, CheckRead, CheckSettle, InvoiceGoes
  <2> QED BY <2>1, <2>2
<1>4. CASE Worker
  <2>1. CASE SweepAct
    <3>1. sweep.order \in Orders
      BY <2>1 DEF SweepAct, AtWorkOnOrder
    <3>2. UNCHANGED <<invoice, paid>> \/ Records(sweep.order)
      BY <2>1 DEF SweepAct, Records, AnswersStand
    <3> QED BY <3>1, <3>2 DEF InvoiceGoes
  <2>2. CASE ~SweepAct
    BY <1>4, <2>2 DEF Worker, SweepPick, SweepAsk, InvoiceGoes
  <2> QED BY <2>1, <2>2
<1>5. CASE PayPal
  BY <1>5 DEF PayPal, Approve, Complete, Deny, Expire, PayPalMoves, InvoiceGoes
<1>6. CASE Time \/ UNCHANGED vars
  BY <1>6 DEF Time, FifteenMinutes, HalfAnHour, WatchEnds, Tick, vars, InvoiceGoes
<1> QED BY <1>1, <1>2, <1>3, <1>4, <1>5, <1>6 DEF Next

(* Who writes the sweep and the check: themselves only.                     *)
LEMMA OwnSteps ==
  ASSUME [Next]_vars
  PROVE  /\ UNCHANGED sweep \/ SweepPick \/ SweepAsk \/ SweepAct
         /\ UNCHANGED check \/ CheckRead \/ CheckAsk \/ CheckSettle
<1>1. ASSUME NEW r \in Requests, Request(r) PROVE UNCHANGED <<sweep, check>>
  BY <1>1 DEF Request, PayPageAsk, PayPageSave, CaptureBegin, CaptureMark, CaptureLock,
     CapturePost, CaptureRecord, CaptureSettle, CaptureReport, Crash
<1>2. CASE PaymentStep
  BY <1>2 DEF PaymentStep, ChooseOption, RegistrationOrder
<1>3. CASE Organizer
  BY <1>3 DEF Organizer, EditInvoice, Cancel, Reopen, SetPercent, HandPick, HandSave,
     CheckRead, CheckAsk, CheckSettle
<1>4. CASE Worker
  BY <1>4 DEF Worker, SweepPick, SweepAsk, SweepAct
<1>5. CASE PayPal
  BY <1>5 DEF PayPal, Approve, Complete, Deny, Expire, PayPalMoves
<1>6. CASE Time \/ UNCHANGED vars
  BY <1>6 DEF Time, FifteenMinutes, HalfAnHour, WatchEnds, Tick, vars
<1> QED BY <1>1, <1>2, <1>3, <1>4, <1>5, <1>6 DEF Next

-----------------------------------------------------------------------------
(* An order its payer has, or approved, or PayPal answered of, stays so.    *)
LEMMA OrderStays ==
  ASSUME TypeOK, AtWorkOnOrder, MakingOrders, [Next]_vars, NEW o \in Orders
  PROVE  /\ Made(o) => Made(o)' /\ pp'[o].fee = pp[o].fee
         /\ Later(o) => Later(o)'
         /\ Past(o) => Past(o)'
         /\ pp[o].st \in {"completed", "gone"} => pp'[o].st = pp[o].st
<1>1. CASE pp'[o] = pp[o]
  BY <1>1 DEF Made, Later, Past
<1>2. CASE pp[o].st \in {"none", "created"}
  BY <1>2 DEF Made, Later, Past
<1>3. CASE Goes(pp[o].st, pp'[o].st) /\ pp'[o].fee = pp[o].fee
  BY <1>3 DEF Made, Later, Past, Goes
<1> QED BY <1>1, <1>2, <1>3, OrderMoves

LEMMA MakingStep ==
  ASSUME TypeOK, AtWorkOnOrder, MakingOrders, AnswersStand, [Next]_vars
  PROVE  MakingOrders'
<1> USE DEF TypeOK
<1>1. ASSUME NEW r \in Requests, req'[r].pc = "save"
      PROVE  \/ req'[r] = req[r]
             \/ /\ PayPageAsk(r, req'[r].order) /\ req'[r].order \in Orders
                /\ pp[req'[r].order].st = "none" /\ pp'[req'[r].order].st = "created"
                /\ \A q \in Requests \ {r} : req'[q] = req[q]
  <2>1. \/ req'[r] = req[r]
        \/ \E q \in Orders : PayPageAsk(r, q) /\ req'[r].order = q
    BY <1>1, RequestMoves DEF RequestGoes, Idle
  <2>2. ASSUME NEW q \in Orders, PayPageAsk(r, q)
        PROVE  /\ pp[q].st = "none" /\ pp'[q].st = "created"
               /\ \A s \in Requests \ {r} : req'[s] = req[s]
    BY <2>2 DEF PayPageAsk, Ordered, GoTo
  <2> QED BY <2>1, <2>2
<1>2. ASSUME NEW r \in Requests, req'[r].pc = "save"
      PROVE  pp'[req'[r].order].st = "created"
  <2>1. CASE req'[r] = req[r]
    <3>1. /\ req[r].order \in Orders /\ pp[req[r].order].st = "created"
          /\ \A q \in Requests \ {r} : req[q].pc = "save" => req[q].order # req[r].order
      BY <1>2, <2>1 DEF AtWorkOnOrder, MakingOrders
    <3>2. ASSUME NEW q \in Requests, PayPageSave(q), req[q].order = req[r].order PROVE FALSE
      <4>1. req[q].pc = "save" /\ req'[q] = Idle
        BY <3>2 DEF PayPageSave, Finish
      <4> QED BY <1>2, <2>1, <3>1, <3>2, <4>1 DEF Idle
    <3> QED BY <2>1, <3>1, <3>2, OrderMoves DEF Goes
  <2> QED BY <1>1, <1>2, <2>1
<1>3. ASSUME NEW r \in Requests, NEW q \in Requests \ {r},
             req'[r].pc = "save", req'[q].pc = "save"
      PROVE  req'[q].order # req'[r].order
  BY <1>1, <1>3 DEF MakingOrders
<1>4. ASSUME NEW r \in Requests, req'[r].pc \notin {"idle", "save"}
      PROVE  (\E o \in Orders : req'[r].order = o /\ Later(o)')
  <2>1. CASE req[r].pc \notin {"idle", "save"} /\ req'[r].order = req[r].order
    BY <2>1, OrderStays DEF AtWorkOnOrder, MakingOrders
  <2>2. CASE \E q \in Orders : CaptureBegin(r, q) /\ req'[r].order = q
    BY <2>2 DEF CaptureBegin, Later
  <2>3. ASSUME CaptureMark(r) \/ CaptureLock(r) \/ CapturePost(r)
        PROVE  req[r].pc \notin {"idle", "save"}
    BY <2>3 DEF CaptureMark, CaptureLock, CapturePost
  <2> QED BY <1>4, <2>1, <2>2, <2>3, RequestMoves DEF RequestGoes, Idle
<1>5. invoice'.pending # NoOrder => Made(invoice.pending)'
  <2>1. CASE invoice'.pending = invoice.pending
    BY <2>1, OrderStays DEF MakingOrders, InvoiceType
  <2>2. ASSUME NEW r \in Requests, PayPageSave(r), ~Held PROVE Made(invoice.pending)'
    <3>1. req[r].order \in Orders
      BY <2>2 DEF PayPageSave, AtWorkOnOrder
    <3>2. /\ invoice' = [invoice EXCEPT !.pending = req[r].order, !.fee = pp[req[r].order].fee]
          /\ pp' = [pp EXCEPT ![req[r].order].st = "offered"]
      BY <2>2 DEF PayPageSave
    <3>3. invoice'.pending = req[r].order
      BY <3>2 DEF InvoiceType
    <3>4. pp'[req[r].order].st = "offered"
      BY <3>1, <3>2 DEF OrderType
    <3> QED BY <3>3, <3>4 DEF Made
  <2>3. ASSUME NEW amount \in Amounts, NEW o \in Orders, RegistrationOrder(o, amount)
        PROVE  Made(invoice.pending)'
    BY <2>3 DEF RegistrationOrder, Prepared, Ordered, Made, InvoiceType
  <2>4. ASSUME NEW amount \in Amounts, ChooseOption(amount) PROVE invoice'.pending = NoOrder
    BY <2>4 DEF ChooseOption, Prepared, InvoiceType
  <2>5. ASSUME NEW o \in Orders, Pends(o) PROVE Made(invoice.pending)'
    <3>1. invoice'.pending = o
      BY <2>5 DEF Pends, MarkPending, InvoiceType
    <3>2. Made(o)
      BY <2>5 DEF Pends, MakingOrders, Later, Made
    <3> QED BY <3>1, <3>2, OrderStays
  <2>6. ASSUME NEW o \in Orders, Records(o) \/ Denies(o)
        PROVE  invoice'.pending \in {invoice.pending, NoOrder}
    BY <2>6 DEF Records, Denies, RecordCapture, InvoiceType
  <2>7. ASSUME NEW amount, NEW handling, EditInvoice(amount, handling)
        PROVE  invoice'.pending = invoice.pending
    BY <2>7 DEF EditInvoice, InvoiceType
  <2>8. ASSUME NEW amount, Cancel \/ Reopen \/ HandSave(amount)
        PROVE  invoice'.pending = invoice.pending
    BY <2>8 DEF Cancel, Reopen, HandSave, InvoiceType
  <2> QED BY <2>1, <2>2, <2>3, <2>4, <2>5, <2>6, <2>7, <2>8, InvoiceMoves DEF InvoiceGoes
<1> QED BY <1>2, <1>3, <1>4, <1>5 DEF MakingOrders

(* An order taken was taken before, or is taken now by its capture.         *)
LEMMA AnswersStep ==
  ASSUME TypeOK, AtWorkOnOrder, MakingOrders, AnswersStand, [Next]_vars
  PROVE  AnswersStand'
<1> USE DEF TypeOK
<1>1. ASSUME NEW r \in Requests, req'[r].pc = "record"
      PROVE  /\ req'[r].answer \in {"completed", "pending"}
             /\ req'[r].answer = "completed" => pp'[req'[r].order].st = "completed"
             /\ req'[r].answer = "pending" => (\E o \in Orders : req'[r].order = o /\ Past(o)')
  <2>1. CASE req'[r] = req[r]
    BY <1>1, <2>1, OrderStays DEF AnswersStand, AtWorkOnOrder
  <2>2. CASE /\ CaptureLock(r) /\ Taken(req[r].order)
             /\ req'[r].order = req[r].order /\ req'[r].answer = pp[req[r].order].st
    <3>1. UNCHANGED pp /\ req[r].order \in Orders
      BY <2>2 DEF CaptureLock, AtWorkOnOrder
    <3> QED BY <2>2, <3>1 DEF Taken, Past
  <2>3. CASE /\ req[r].order \in Orders /\ req'[r].answer \in {"completed", "pending"}
             /\ req'[r].order = req[r].order /\ req'[r].answer = pp'[req[r].order].st
    BY <2>3 DEF Past
  <2>4. CapturePost(r) => req[r].order \in Orders
    BY DEF CapturePost, AtWorkOnOrder
  <2> QED BY <1>1, <2>1, <2>2, <2>3, <2>4, RequestMoves DEF RequestGoes, Idle
<1>2. check'.pc = "settle" => pp'[check'.order].st = "gone"
  <2>1. CASE UNCHANGED check
    BY <2>1, OrderStays DEF AnswersStand, AtWorkOnOrder
  <2>2. CASE CheckAsk
    BY <2>2 DEF CheckAsk, CheckType
  <2>3. CASE CheckRead \/ CheckSettle
    BY <2>3 DEF CheckRead, CheckSettle
  <2> QED BY <2>1, <2>2, <2>3, OwnSteps
<1>3. /\ sweep'.pc = "act" /\ sweep'.answer = "completed" => pp'[sweep'.order].st = "completed"
      /\ sweep'.pc = "act" /\ sweep'.answer = "pending" => Past(sweep.order)'
      /\ sweep'.pc # "idle" /\ sweep'.wasPending => Past(sweep.order)'
  <2>1. CASE UNCHANGED sweep
    BY <2>1, OrderStays DEF AnswersStand, AtWorkOnOrder
  <2>2. CASE SweepPick
    BY <2>2 DEF SweepPick, AnswersStand, Past
  <2>3. CASE SweepAsk
    <3>1. /\ UNCHANGED pp /\ sweep.pc = "ask"
          /\ sweep'.order = sweep.order /\ sweep'.wasPending = sweep.wasPending
          /\ sweep'.answer \in {pp[sweep.order].st, "error"}
      BY <2>3 DEF SweepAsk, SweepType
    <3> QED BY <3>1 DEF AnswersStand, Past
  <2>4. CASE SweepAct
    BY <2>4 DEF SweepAct, NoSweep
  <2> QED BY <2>1, <2>2, <2>3, <2>4, OwnSteps
<1>4. watch'.processing => watch'.order # NoOrder /\ Past(watch.order)'
  <2>1. ASSUME watch'.processing, watch'.order = watch.order, watch.processing
        PROVE  watch'.order # NoOrder /\ Past(watch.order)'
    BY <2>1, OrderStays DEF AnswersStand, WatchType
  <2>2. ASSUME NEW o \in Orders, Pends(o) PROVE watch'.order # NoOrder /\ Past(watch.order)'
    <3>1. watch'.order = o
      BY <2>2 DEF Pends, MarkPending, NewWatch, WatchType
    <3>2. Past(o)
      BY <2>2 DEF Pends, AnswersStand, Past
    <3> QED BY <3>1, <3>2, NullAssumption, OrderStays
  <2>3. ASSUME Notes, watch'.processing PROVE watch'.order # NoOrder /\ Past(watch.order)'
    <3>1. sweep.order \in Orders /\ Past(sweep.order)
      BY <2>3 DEF Notes, AnswersStand, AtWorkOnOrder
    <3>2. CASE SameAttempt
      <4>1. watch'.order = sweep.order
        BY <2>3, <3>2 DEF Notes, NoteAsked, SameAttempt, WatchType
      <4> QED BY <3>1, <4>1, NullAssumption, OrderStays
    <3>3. CASE ~SameAttempt
      BY <2>1, <2>3, <3>3 DEF Notes, NoteAsked
    <3> QED BY <3>2, <3>3
  <2>4. ASSUME NEW r, Marks(r) PROVE ~watch'.processing
    BY <2>4 DEF Marks, NewWatch
  <2>5. ASSUME NEW o, Records(o) \/ Settles(o) \/ Denies(o)
        PROVE  watch' = watch \/ ~watch'.processing
    BY <2>5 DEF Records, Settles, Denies, RecordCapture, SettledOrder, NoWatch
  <2>6. CASE Sweeps
    BY <2>1, <2>6 DEF Sweeps, SettledAttempt, NoWatch
  <2>7. CASE FifteenMinutes \/ HalfAnHour \/ WatchEnds
    BY <2>1, <2>7 DEF FifteenMinutes, HalfAnHour, WatchEnds, Tick, WatchType
  <2> QED BY <2>1, <2>2, <2>3, <2>4, <2>5, <2>6, <2>7, MarkMoves DEF MarkGoes
<1>5. ASSUME NEW o \in recorded' PROVE pp'[o].st = "completed"
  <2>1. recorded' = recorded \/ \E q \in Orders : Records(q)
    <3>1. CASE FifteenMinutes \/ HalfAnHour \/ WatchEnds
      BY <3>1 DEF FifteenMinutes, HalfAnHour, WatchEnds, Tick
    <3>2. ASSUME NEW r, Marks(r) PROVE recorded' = recorded
      BY <3>2 DEF Marks
    <3>3. ASSUME NEW q, Pends(q) \/ Settles(q) \/ Denies(q) PROVE recorded' = recorded
      BY <3>3 DEF Pends, Settles, Denies
    <3>4. CASE Notes \/ Sweeps
      BY <3>4 DEF Notes, Sweeps
    <3> QED BY <3>1, <3>2, <3>3, <3>4, MarkMoves DEF MarkGoes
  <2>2. ASSUME NEW q \in Orders, Records(q) PROVE recorded' \subseteq recorded \union {q}
    BY <2>2 DEF Records, RecordCapture
  <2> QED BY <1>5, <2>1, <2>2, OrderStays DEF AnswersStand, Records
<1> QED BY <1>1, <1>2, <1>3, <1>4, <1>5 DEF AnswersStand

(* A step leaves the mark's attempt as it is, ends it, or begins a later one. *)
LEMMA AttemptMoves ==
  ASSUME TypeOK, AtWorkOnOrder, AnswersStand, AttemptsApart, [Next]_vars
  PROVE  /\ clock' >= clock /\ watch'.attempt <= clock'
         /\ \/ watch' = NoWatch
            \/ watch'.attempt = clock + 1
            \/ /\ watch'.order = watch.order /\ watch'.attempt = watch.attempt
               /\ (watch.age # "new" \/ watch.processing)
                    => (watch'.age # "new" \/ watch'.processing)
<1> USE DEF TypeOK, WatchType, AttemptsApart
<1> DEFINE Moves ==
      /\ clock' >= clock /\ watch'.attempt <= clock'
      /\ \/ watch' = NoWatch
         \/ watch'.attempt = clock + 1
         \/ /\ watch'.order = watch.order /\ watch'.attempt = watch.attempt
            /\ (watch.age # "new" \/ watch.processing)
                 => (watch'.age # "new" \/ watch'.processing)
<1>1. ASSUME UNCHANGED <<watch, clock>> PROVE Moves
  BY <1>1
<1>2. ASSUME NEW r, Marks(r) PROVE Moves
  BY <1>2 DEF Marks, NewWatch
<1>3. ASSUME NEW o, Pends(o) PROVE Moves
  <2>1. CASE watch.order # o \/ ~Watched
    BY <1>3, <2>1 DEF Pends, MarkPending, NewWatch
  <2>2. CASE ~(watch.order # o \/ ~Watched)
    BY <1>3, <2>2 DEF Pends, MarkPending
  <2> QED BY <2>1, <2>2
<1>4. ASSUME UNCHANGED clock, watch' \in {watch, NoWatch} PROVE Moves
  BY <1>4 DEF NoWatch
<1>5. ASSUME NEW o, Records(o) \/ Settles(o) \/ Denies(o) PROVE Moves
  <2>1. UNCHANGED clock /\ watch' \in {watch, NoWatch}
    BY <1>5 DEF Records, Settles, Denies, RecordCapture, SettledOrder
  <2> QED BY <1>4, <2>1
<1>6. CASE Notes
  <2>1. /\ UNCHANGED clock
        /\ \/ watch' = watch
           \/ watch' = [watch EXCEPT !.processing = TRUE,
                                     !.asked = IF sweep.ended THEN "late" ELSE "recent"]
    BY <1>6 DEF Notes, NoteAsked
  <2>2. CASE watch' = watch
    BY <1>1, <2>1, <2>2
  <2>3. CASE watch' # watch
    <3>1. watch'.processing /\ watch'.order = watch.order /\ watch'.attempt = watch.attempt
      BY <2>1, <2>3
    <3> QED BY <2>1, <3>1
  <2> QED BY <2>2, <2>3
<1>7. CASE Sweeps
  <2>1. UNCHANGED clock /\ watch' \in {watch, NoWatch}
    BY <1>7 DEF Sweeps, SettledAttempt
  <2> QED BY <1>4, <2>1
<1>8. CASE FifteenMinutes \/ HalfAnHour \/ WatchEnds
  BY <1>8 DEF FifteenMinutes, HalfAnHour, WatchEnds, Tick
<1> QED BY <1>1, <1>2, <1>3, <1>5, <1>6, <1>7, <1>8, MarkMoves DEF MarkGoes

LEMMA AttemptsStep ==
  ASSUME TypeOK, AtWorkOnOrder, AnswersStand, AttemptsApart, [Next]_vars
  PROVE  AttemptsApart'
<1> USE DEF TypeOK, WatchType, AttemptsApart
<1>1. CASE UNCHANGED sweep
  <2>1. clock' >= clock /\ watch'.attempt <= clock' /\ clock' \in Nat
    BY AttemptMoves, TypeStep DEF IInv
  <2>2. CASE watch' = NoWatch
    BY <1>1, <2>1, <2>2 DEF SweepType, NoWatch
  <2>3. CASE watch'.attempt = clock + 1
    BY <1>1, <2>1, <2>3 DEF SweepType
  <2>4. CASE /\ watch'.order = watch.order /\ watch'.attempt = watch.attempt
             /\ (watch.age # "new" \/ watch.processing)
                  => (watch'.age # "new" \/ watch'.processing)
    BY <1>1, <2>1, <2>4 DEF SweepType
  <2> QED BY <2>2, <2>3, <2>4, AttemptMoves
<1>2. CASE SweepPick
  BY <1>2, AttemptMoves DEF SweepPick, Sweepable
<1>3. CASE SweepAsk
  BY <1>3, AttemptMoves DEF SweepAsk, SweepType
<1>4. CASE SweepAct
  BY <1>4, AttemptMoves DEF SweepAct, NoSweep
<1> QED BY <1>1, <1>2, <1>3, <1>4, OwnSteps

-----------------------------------------------------------------------------
(* The mark's order is being captured, and nobody has asked PayPal yet what *)
(* became of it.                                                            *)
Fresh(o) == watch.order = o /\ watch.age = "new" /\ ~watch.processing

(* A capture of the order would take its money. *)
Capturable(o) == invoice.pending = o /\ pp[o].st = "approved"

(* No organizer changes what the invoice asks, or what was paid on it.      *)
Unedited == MaxEdits = 0 /\ MaxHand = 0

(* A capture of the order is refused, and goes on being.                    *)
Refused(o) == Unedited /\ ~Payable(o)

(* A request that was refused took its mark for its own: it settles no      *)
(* capture of another request, neither one that took the money nor one      *)
(* about to.  The code doesn't ensure it (capture_paypal_order settles the  *)
(* order, not the attempt): the run refusal_race shows what follows then.   *)
RefusalsStand ==
  \A r \in Requests : CaptureSettle(r) =>
    /\ ~Taken(req[r].order)
    /\ \A q \in Requests :
         req[q].pc = "lock" /\ req[q].order = req[r].order /\ Capturable(req[r].order)
           => Refused(req[r].order)

(* A mark holds the invoice, for its pending order.                         *)
MarkHolds == watch.order # NoOrder => Held /\ invoice.pending = watch.order

(* The fee the invoice keeps is its pending order's.                        *)
FeeKept == invoice.pending # NoOrder => invoice.fee = pp[invoice.pending].fee

(* Money PayPal took and nothing recorded is marked.                        *)
MoneyMarked ==
  \A o \in Orders : Taken(o) /\ o \notin recorded => watch.order = o /\ ~invoice.cancelled

(* A capture that may take money is marked, from before it looks at the     *)
(* order until what PayPal did is recorded.                                 *)
CapturesMarked ==
  \A r \in Requests :
    /\ req[r].pc = "lock" /\ Capturable(req[r].order) =>
         Fresh(req[r].order) \/ Refused(req[r].order)
    /\ req[r].pc = "post" => Fresh(req[r].order)
    /\ req[r].pc = "record" =>
         \/ watch.order = req[r].order
         \/ /\ req[r].answer = "completed"
            /\ req[r].order \in recorded

(* PayPal took nothing since it told the sweep so, of the attempt it read.  *)
SweptUntaken ==
  sweep.pc = "act" /\ SameAttempt =>
    \/ sweep.answer \notin {"gone", "offered", "approved", "declined"}
    \/ ~Taken(sweep.order)

MoneyHeld == MarkHolds /\ FeeKept /\ MoneyMarked /\ CapturesMarked /\ SweptUntaken

(* Nobody records a payment by hand when none may be.                       *)
ClerkIdle == MaxHand = 0 => clerk = "idle"

Ground == IInv /\ MakingOrders /\ AnswersStand /\ AttemptsApart /\ ClerkIdle

-----------------------------------------------------------------------------
(* Without edits the percent stays, and without payments by hand the clerk  *)
(* has none to record.                                                      *)
LEMMA UneditedSteps ==
  ASSUME [Next]_vars, edits \in Nat, hand \in Nat
  PROVE  /\ MaxEdits = 0 => UNCHANGED percent
         /\ MaxHand = 0 /\ clerk = "idle" => clerk' = "idle"
<1>1. ASSUME NEW r \in Requests, Request(r) PROVE UNCHANGED <<percent, clerk>>
  BY <1>1 DEF Request, PayPageAsk, PayPageSave, CaptureBegin, CaptureMark, CaptureLock,
     CapturePost, CaptureRecord, CaptureSettle, CaptureReport, Crash
<1>2. CASE PaymentStep
  BY <1>2 DEF PaymentStep, ChooseOption, RegistrationOrder
<1>3. CASE Organizer
  <2>1. ASSUME NEW p \in Percents, SetPercent(p) PROVE MaxEdits # 0 /\ UNCHANGED clerk
    BY <2>1 DEF SetPercent, OrganizerEdits
  <2>2. ASSUME NEW kind \in HandKinds, HandPick(kind) PROVE MaxHand # 0 /\ UNCHANGED percent
    BY <2>2 DEF HandPick
  <2>3. ASSUME NEW amount \in Amounts, HandSave(amount)
        PROVE  clerk # "idle" /\ UNCHANGED percent
    BY <2>3 DEF HandSave
  <2>4. \/ UNCHANGED <<percent, clerk>>
        \/ \E p \in Percents : SetPercent(p)
        \/ \E kind \in HandKinds : HandPick(kind)
        \/ \E amount \in Amounts : HandSave(amount)
    BY <1>3 DEF Organizer, EditInvoice, Cancel, Reopen, CheckRead, CheckAsk, CheckSettle
  <2> QED BY <2>1, <2>2, <2>3, <2>4
<1>4. CASE Worker
  BY <1>4 DEF Worker, SweepPick, SweepAsk, SweepAct
<1>5. CASE PayPal
  BY <1>5 DEF PayPal, Approve, Complete, Deny, Expire, PayPalMoves
<1>6. CASE Time \/ UNCHANGED vars
  BY <1>6 DEF Time, FifteenMinutes, HalfAnHour, WatchEnds, Tick, vars
<1> QED BY <1>1, <1>2, <1>3, <1>4, <1>5, <1>6 DEF Next

-----------------------------------------------------------------------------
(* Only the mark's order is recorded, or found pending.                     *)
LEMMA OwnMark ==
  ASSUME Ground, MoneyHeld, NEW o \in Orders,
         \/ Pends(o)
         \/ Records(o) /\ o \notin recorded
  PROVE  watch.order = o
<1>1. CASE Records(o) /\ o \notin recorded
  BY <1>1 DEF Records, MoneyHeld, MoneyMarked, Taken
<1>2. ASSUME NEW r \in Requests, CaptureRecord(r), req[r].order = o,
             req[r].pc = "record", req[r].answer = "pending"
      PROVE  watch.order = o
  BY <1>2 DEF MoneyHeld, CapturesMarked
<1>3. CASE CheckAsk /\ check.order = o /\ pp[o].st = "pending"
  BY <1>3 DEF Ground, AnswersStand, MoneyHeld, MoneyMarked, Taken
<1> QED BY <1>1, <1>2, <1>3 DEF Pends

(* A capture is settled only when it took no money.                         *)
LEMMA SettledUntaken ==
  ASSUME Ground, MoneyHeld, [RefusalsStand]_vars
  PROVE  /\ \A o \in Orders : Settles(o) \/ Denies(o) => ~Taken(o)
         /\ Sweeps /\ SameAttempt => ~Taken(sweep.order)
<1>1. ASSUME NEW o \in Orders, NEW r \in Requests, CaptureSettle(r), o = req[r].order
      PROVE  ~Taken(o)
  <2>1. req'[r] = Idle /\ req[r].pc = "settle"
    BY <1>1 DEF CaptureSettle, Finish, Ground, IInv, TypeOK
  <2>2. ~UNCHANGED vars
    BY <2>1 DEF vars, Idle
  <2> QED BY <1>1, <2>2 DEF RefusalsStand
<1>2. ASSUME NEW o \in Orders, CheckSettle, o = check.order PROVE ~Taken(o)
  BY <1>2 DEF CheckSettle, Ground, AnswersStand, Taken
<1>3. ASSUME NEW o \in Orders, Denies(o) PROVE ~Taken(o)
  BY <1>3 DEF Denies, Taken
<1>4. ASSUME Sweeps, SameAttempt PROVE ~Taken(sweep.order)
  BY <1>4 DEF Sweeps, MoneyHeld, SweptUntaken
<1> QED BY <1>1, <1>2, <1>3, <1>4 DEF Settles

(* A watch ends without an answer only by running out.                      *)
LEMMA LapsesOnly ==
  ASSUME [Next]_vars
  PROVE  UNCHANGED lapsed \/ WatchEnds
<1>1. ASSUME NEW r \in Requests, Request(r) PROVE UNCHANGED lapsed
  BY <1>1 DEF Request, PayPageAsk, PayPageSave, CaptureBegin, CaptureMark, CaptureLock,
     CapturePost, CaptureRecord, CaptureSettle, CaptureReport, Crash
<1>2. CASE PaymentStep
  BY <1>2 DEF PaymentStep, ChooseOption, RegistrationOrder
<1>3. CASE Organizer
  BY <1>3 DEF Organizer, EditInvoice, Cancel, Reopen, SetPercent, HandPick, HandSave,
     CheckRead, CheckAsk, CheckSettle
<1>4. CASE Worker \/ PayPal
  BY <1>4 DEF Worker, SweepPick, SweepAsk, SweepAct, PayPal, Approve, Complete, Deny, Expire,
     PayPalMoves
<1>5. CASE Time \/ UNCHANGED vars
  BY <1>5 DEF Time, FifteenMinutes, HalfAnHour, vars
<1> QED BY <1>1, <1>2, <1>3, <1>4, <1>5 DEF Next

LEMMA NeverLapsed ==
  ASSUME MaxLapses = 0
  PROVE  Spec => [](lapsed = {})
<1>1. Init => lapsed = {}
  BY DEF Init
<1>2. lapsed = {} /\ [Next]_vars => (lapsed = {})'
  BY LapsesOnly, FS_EmptySet DEF WatchEnds
<1> QED BY <1>1, <1>2, PTL DEF Spec

(* What is recorded stays so, and watches that ended without an answer stay *)
(* so.                                                                      *)
LEMMA Grown ==
  ASSUME TypeOK, AtWorkOnOrder, AnswersStand, [Next]_vars
  PROVE  recorded \subseteq recorded' /\ lapsed \subseteq lapsed'
<1>1. ASSUME NEW o, Records(o) PROVE recorded \subseteq recorded'
  BY <1>1 DEF Records, RecordCapture
<1>2. ASSUME NEW o, Pends(o) \/ Settles(o) \/ Denies(o) PROVE recorded' = recorded
  BY <1>2 DEF Pends, Settles, Denies
<1>3. ASSUME NEW r, Marks(r) PROVE recorded' = recorded
  BY <1>3 DEF Marks
<1>4. CASE Notes \/ Sweeps
  BY <1>4 DEF Notes, Sweeps
<1>5. CASE FifteenMinutes \/ HalfAnHour \/ WatchEnds
  BY <1>5 DEF FifteenMinutes, HalfAnHour, WatchEnds, Tick
<1>6. recorded \subseteq recorded'
  BY <1>1, <1>2, <1>3, <1>4, <1>5, MarkMoves DEF MarkGoes
<1>7. lapsed \subseteq lapsed'
  BY LapsesOnly DEF WatchEnds
<1> QED BY <1>6, <1>7

(* A mark goes only once its money is recorded, or none was taken; a step   *)
(* marks another order only when none was marked.                           *)
LEMMA MarkStays ==
  ASSUME Ground, MoneyHeld, [Next]_vars, [RefusalsStand]_vars
  PROVE  /\ \/ watch'.order \in {watch.order, NoOrder}
            \/ /\ watch.order = NoOrder
               /\ \E r \in Requests : Marks(r) /\ watch'.order = req[r].order
         /\ watch.order # NoOrder /\ watch'.order = NoOrder
              => ~Taken(watch.order) \/ watch.order \in recorded'
<1> USE DEF Ground, IInv, TypeOK
<1> DEFINE Stays ==
      /\ \/ watch'.order \in {watch.order, NoOrder}
         \/ /\ watch.order = NoOrder
            /\ \E r \in Requests : Marks(r) /\ watch'.order = req[r].order
      /\ watch.order # NoOrder /\ watch'.order = NoOrder
           => ~Taken(watch.order) \/ watch.order \in recorded'
<1>1. ASSUME watch'.order = watch.order PROVE Stays
  BY <1>1
<1>2. ASSUME NEW r \in Requests, Marks(r) PROVE Stays
  <2>1. watch'.order = req[r].order /\ invoice.pending = req[r].order
    BY <1>2 DEF Marks, NewWatch
  <2>2. watch.order \in {req[r].order, NoOrder}
    BY <2>1 DEF MoneyHeld, MarkHolds
  <2>3. req[r].order \in Orders
    BY <1>2 DEF Marks, CaptureMark, AtWorkOnOrder
  <2> QED BY <1>2, <2>1, <2>2, <2>3, NullAssumption
<1>3. ASSUME NEW o \in Orders, Pends(o) PROVE Stays
  <2>1. watch.order = o
    BY <1>3, OwnMark
  <2>2. watch'.order = o
    BY <1>3 DEF Pends, MarkPending, NewWatch, WatchType
  <2> QED BY <1>1, <2>1, <2>2
<1>4. ASSUME NEW o \in Orders, Records(o) PROVE Stays
  <2>1. o \in recorded'
    BY <1>4 DEF Records, RecordCapture
  <2>2. \/ watch' = watch
        \/ watch.order = o /\ watch' = NoWatch
    BY <1>4 DEF Records, RecordCapture, SettledOrder
  <2> QED BY <1>1, <2>1, <2>2 DEF NoWatch
<1>5. ASSUME NEW o \in Orders, Settles(o) \/ Denies(o) PROVE Stays
  <2>1. ~Taken(o)
    BY <1>5, SettledUntaken
  <2>2. \/ watch' = watch
        \/ watch.order = o /\ watch' = NoWatch
    BY <1>5 DEF Settles, Denies, SettledOrder
  <2> QED BY <1>1, <2>1, <2>2 DEF NoWatch
<1>6. CASE Notes
  <2>1. watch'.order = watch.order
    BY <1>6 DEF Notes, NoteAsked, WatchType
  <2> QED BY <1>1, <2>1
<1>7. CASE Sweeps
  <2>1. \/ watch' = watch
        \/ SameAttempt /\ watch' = NoWatch
    BY <1>7 DEF Sweeps, SettledAttempt, SameAttempt
  <2>2. SameAttempt => ~Taken(watch.order)
    BY <1>7, SettledUntaken DEF SameAttempt
  <2> QED BY <1>1, <2>1, <2>2 DEF NoWatch
<1>8. CASE FifteenMinutes \/ HalfAnHour \/ WatchEnds
  <2>1. watch'.order = watch.order
    BY <1>8 DEF FifteenMinutes, HalfAnHour, WatchEnds, Tick, WatchType
  <2> QED BY <1>1, <2>1
<1> QED BY <1>1, <1>2, <1>3, <1>4, <1>5, <1>6, <1>7, <1>8, MarkMoves DEF MarkGoes

(* What a mark's order is, the invoice's pending order stays.               *)
LEMMA PendingStays ==
  ASSUME Ground, MoneyHeld, [Next]_vars, [RefusalsStand]_vars, watch'.order # NoOrder
  PROVE  invoice'.pending = watch'.order
<1> USE DEF Ground, IInv, TypeOK
<1>1. ASSUME invoice'.pending = invoice.pending PROVE invoice'.pending = watch'.order
  <2>1. CASE watch'.order = watch.order
    BY <1>1, <2>1 DEF MoneyHeld, MarkHolds
  <2>2. ASSUME NEW r \in Requests, Marks(r) PROVE invoice.pending = watch'.order
    BY <2>2 DEF Marks, NewWatch
  <2> QED BY <1>1, <2>1, <2>2, MarkStays
<1>2. ASSUME UNCHANGED watch, ~Held PROVE FALSE
  BY <1>2 DEF MoneyHeld, MarkHolds
<1>3. ASSUME NEW r \in Requests, PayPageSave(r), ~Held PROVE FALSE
  BY <1>2, <1>3 DEF PayPageSave
<1>4. ASSUME NEW amount, NEW o, ChooseOption(amount) \/ RegistrationOrder(o, amount)
      PROVE  FALSE
  BY <1>2, <1>4 DEF ChooseOption, RegistrationOrder, Preparable
<1>5. ASSUME NEW amount, NEW handling,
             EditInvoice(amount, handling) \/ Cancel \/ Reopen \/ HandSave(amount)
      PROVE  invoice'.pending = invoice.pending
  BY <1>5 DEF EditInvoice, Cancel, Reopen, HandSave, InvoiceType
<1>6. ASSUME NEW o \in Orders, Pends(o) PROVE invoice'.pending = watch'.order
  BY <1>6 DEF Pends, MarkPending, NewWatch, InvoiceType, WatchType
<1>7. ASSUME NEW o \in Orders, Records(o) PROVE invoice'.pending = invoice.pending
  <2>1. CASE o \in recorded
    BY <1>7, <2>1 DEF Records, RecordCapture
  <2>2. CASE o \notin recorded
    <3>1. watch' = NoWatch
      BY <1>7, <2>2, OwnMark DEF Records, RecordCapture, SettledOrder
    <3> QED BY <3>1 DEF NoWatch
  <2> QED BY <2>1, <2>2
<1>8. ASSUME NEW o \in Orders, Denies(o) PROVE invoice'.pending = invoice.pending
  <2>1. CASE invoice.pending = o
    <3>1. watch.order \in {o, NoOrder}
      BY <2>1 DEF MoneyHeld, MarkHolds
    <3>2. watch'.order = NoOrder
      BY <1>8, <3>1 DEF Denies, SettledOrder, NoWatch
    <3> QED BY <3>2
  <2>2. CASE invoice.pending # o
    BY <1>8, <2>2 DEF Denies, InvoiceType
  <2> QED BY <2>1, <2>2
<1> QED BY <1>1, <1>3, <1>4, <1>5, <1>6, <1>7, <1>8, InvoiceMoves DEF InvoiceGoes

(* A mark goes on holding the invoice: until a day without an answer.       *)
LEMMA HoldsStep ==
  ASSUME Ground, MoneyHeld, [Next]_vars, [RefusalsStand]_vars, lapsed' = {}
  PROVE  MarkHolds'
<1> USE DEF Ground, IInv, TypeOK, WatchType
<1> SUFFICES ASSUME watch'.order # NoOrder PROVE Held'
  BY PendingStays DEF MarkHolds
<1>1. ASSUME watch' = watch PROVE Held'
  BY <1>1 DEF MoneyHeld, MarkHolds, Held, Processing, Watched
<1>2. ASSUME watch'.processing \/ watch'.age # "lapsed" PROVE Held'
  BY <1>2 DEF Held, Processing, Watched
<1>3. ASSUME NEW r, Marks(r) PROVE Held'
  BY <1>2, <1>3 DEF Marks, NewWatch
<1>4. ASSUME NEW o, Pends(o) PROVE Held'
  BY <1>2, <1>4 DEF Pends, MarkPending, NewWatch
<1>5. ASSUME NEW o, Records(o) \/ Settles(o) \/ Denies(o) PROVE Held'
  <2>1. watch' \in {watch, NoWatch}
    BY <1>5 DEF Records, Settles, Denies, RecordCapture, SettledOrder
  <2> QED BY <1>1, <2>1 DEF NoWatch
<1>6. CASE Notes
  <2>1. \/ watch' = watch
        \/ watch'.processing
    BY <1>6 DEF Notes, NoteAsked
  <2> QED BY <1>1, <1>2, <2>1
<1>7. CASE Sweeps
  <2>1. watch' \in {watch, NoWatch}
    BY <1>7 DEF Sweeps, SettledAttempt
  <2> QED BY <1>1, <2>1 DEF NoWatch
<1>8. CASE FifteenMinutes
  BY <1>2, <1>8 DEF FifteenMinutes, Tick
<1>9. CASE HalfAnHour
  BY <1>2, <1>9 DEF HalfAnHour, Tick, Processing
<1>10. CASE WatchEnds
  <2>1. watch.processing
    BY <1>10 DEF WatchEnds
  <2>2. watch'.processing
    BY <1>10, <2>1 DEF WatchEnds, Tick
  <2> QED BY <1>2, <2>2
<1> QED BY <1>1, <1>3, <1>4, <1>5, <1>6, <1>7, <1>8, <1>9, <1>10, MarkMoves DEF MarkGoes

(* The fee kept goes with the pending order.                                *)
LEMMA FeeStep ==
  ASSUME Ground, MoneyHeld, [Next]_vars
  PROVE  FeeKept'
<1> USE DEF Ground, IInv, TypeOK
<1> SUFFICES ASSUME invoice'.pending # NoOrder
             PROVE  invoice'.fee = pp'[invoice'.pending].fee
  BY DEF FeeKept
<1>1. ASSUME invoice'.pending = invoice.pending, invoice'.fee = invoice.fee
      PROVE  invoice'.fee = pp'[invoice'.pending].fee
  <2>1. invoice.pending \in Orders /\ Made(invoice.pending)
    BY <1>1 DEF MakingOrders, InvoiceType
  <2>2. pp'[invoice.pending].fee = pp[invoice.pending].fee
    BY <2>1, OrderStays
  <2> QED BY <1>1, <2>2 DEF MoneyHeld, FeeKept
<1>2. ASSUME NEW r \in Requests, PayPageSave(r), ~Held
      PROVE  invoice'.fee = pp'[invoice'.pending].fee
  <2>1. req[r].order \in Orders
    BY <1>2 DEF PayPageSave, AtWorkOnOrder
  <2>2. /\ invoice' = [invoice EXCEPT !.pending = req[r].order, !.fee = pp[req[r].order].fee]
        /\ pp' = [pp EXCEPT ![req[r].order].st = "offered"]
    BY <1>2 DEF PayPageSave
  <2>3. invoice'.pending = req[r].order /\ invoice'.fee = pp[req[r].order].fee
    BY <2>2 DEF InvoiceType
  <2>4. pp'[req[r].order].fee = pp[req[r].order].fee
    BY <2>1, <2>2 DEF OrderType
  <2> QED BY <2>3, <2>4
<1>3. ASSUME NEW amount, NEW o \in Orders, RegistrationOrder(o, amount)
      PROVE  invoice'.fee = pp'[invoice'.pending].fee
  BY <1>3 DEF RegistrationOrder, Prepared, Ordered, InvoiceType
<1>4. ASSUME NEW amount, ChooseOption(amount) PROVE FALSE
  BY <1>4 DEF ChooseOption, Prepared, InvoiceType
<1>5. ASSUME NEW amount, NEW handling,
             EditInvoice(amount, handling) \/ Cancel \/ Reopen \/ HandSave(amount)
      PROVE  invoice'.pending = invoice.pending /\ invoice'.fee = invoice.fee
  BY <1>5 DEF EditInvoice, Cancel, Reopen, HandSave, InvoiceType
<1>6. ASSUME NEW o \in Orders, Pends(o)
      PROVE  invoice'.pending = invoice.pending /\ invoice'.fee = invoice.fee
  <2>1. invoice.pending = o
    BY <1>6, OwnMark, NullAssumption DEF MoneyHeld, MarkHolds
  <2> QED BY <1>6, <2>1 DEF Pends, MarkPending, InvoiceType
<1>7. ASSUME NEW o \in Orders, Records(o)
      PROVE  invoice'.pending = invoice.pending /\ invoice'.fee = invoice.fee
  <2>1. \/ UNCHANGED invoice
        \/ invoice'.pending = NoOrder
    BY <1>7 DEF Records, RecordCapture, InvoiceType
  <2> QED BY <2>1
<1>8. ASSUME NEW o \in Orders, Denies(o)
      PROVE  invoice'.pending = invoice.pending /\ invoice'.fee = invoice.fee
  BY <1>8 DEF Denies, InvoiceType
<1> QED BY <1>1, <1>2, <1>3, <1>4, <1>5, <1>6, <1>7, <1>8, InvoiceMoves DEF InvoiceGoes

(* Money taken is marked already, by the capture that takes it.             *)
LEMMA MarkedStep ==
  ASSUME Ground, MoneyHeld, [Next]_vars, [RefusalsStand]_vars
  PROVE  MoneyMarked'
<1> USE DEF Ground, IInv, TypeOK
<1> SUFFICES ASSUME NEW o \in Orders, Taken(o)', o \notin recorded'
             PROVE  watch'.order = o /\ ~invoice'.cancelled
  BY DEF MoneyMarked
<1>1. o \notin recorded
  BY Grown
<1>2. CASE Taken(o)
  <2>1. watch.order = o /\ ~invoice.cancelled /\ Held
    BY <1>1, <1>2, NullAssumption DEF MoneyHeld, MoneyMarked, MarkHolds
  <2>2. watch'.order = o
    BY <1>2, <2>1, MarkStays, NullAssumption
  <2>3. ~Cancel
    BY <2>1 DEF Cancel
  <2>4. ~invoice'.cancelled
    <3>1. ASSUME NEW r \in Requests, PayPageSave(r) PROVE ~invoice'.cancelled
      BY <2>1, <3>1 DEF PayPageSave, InvoiceType
    <3>2. ASSUME NEW amount, NEW q \in Orders, ChooseOption(amount) \/ RegistrationOrder(q, amount)
          PROVE  FALSE
      BY <2>1, <3>2 DEF ChooseOption, RegistrationOrder, Preparable
    <3>3. ASSUME NEW amount, NEW handling,
                 EditInvoice(amount, handling) \/ Reopen \/ HandSave(amount)
          PROVE  ~invoice'.cancelled
      BY <2>1, <3>3 DEF EditInvoice, Reopen, HandSave, InvoiceType
    <3>4. ASSUME NEW q \in Orders, Pends(q) \/ Records(q) \/ Denies(q) PROVE ~invoice'.cancelled
      BY <2>1, <3>4 DEF Pends, MarkPending, Records, RecordCapture, Denies, InvoiceType
    <3> QED BY <2>1, <2>3, <3>1, <3>2, <3>3, <3>4, InvoiceMoves DEF InvoiceGoes
  <2> QED BY <2>2, <2>4
<1>3. CASE ~Taken(o)
  <2>1. pp[o].st = "approved" /\ pp'[o].st \in {"completed", "pending"}
    BY <1>3, OrderMoves DEF Taken, Goes
  <2>2. PICK r \in Requests : CapturePost(r) /\ req[r].order = o
    BY <2>1, OrderMoves DEF Goes
  <2>3. req[r].pc = "post" /\ UNCHANGED <<watch, invoice>>
    BY <2>2 DEF CapturePost
  <2>4. watch.order = o
    BY <2>2, <2>3 DEF MoneyHeld, CapturesMarked, Fresh
  <2>5. ~invoice.cancelled
    BY <2>2, <2>3 DEF PostingWhatIsDue, AsksWhatIsDue
  <2> QED BY <2>3, <2>4, <2>5
<1> QED BY <1>2, <1>3

(* While a request holds the row only time touches the mark.                *)
LEMMA LockedMark ==
  ASSUME TypeOK, RowHeld, [Next]_vars,
         NEW r \in Requests, req[r].pc \in {"post", "record"}, req'[r] = req[r]
  PROVE  /\ UNCHANGED recorded
         /\ UNCHANGED watch \/ FifteenMinutes \/ HalfAnHour \/ WatchEnds
<1>1. lock = r /\ lock # NoRequest
  BY NullAssumption DEF RowHeld
<1>2. ASSUME NEW q \in Requests, Request(q) PROVE UNCHANGED <<watch, recorded>>
  <2>1. CASE CaptureRecord(q)
    <3>1. lock = q /\ req[q].pc = "record"
      BY <2>1 DEF CaptureRecord, RowHeld
    <3>2. req'[q].pc # "record"
      <4>1. \/ Finish(q)
            \/ GoTo(q, "report", req[q].order, "none")
        BY <2>1 DEF CaptureRecord
      <4> QED BY <4>1 DEF Finish, GoTo, Idle, TypeOK
    <3> QED BY <1>1, <3>1, <3>2
  <2>2. CASE ~CaptureRecord(q)
    BY <1>1, <1>2, <2>2 DEF Request, PayPageAsk, PayPageSave, CaptureBegin, CaptureMark,
       CaptureLock, CapturePost, CaptureSettle, CaptureReport, Crash
  <2> QED BY <2>1, <2>2
<1>3. CASE PaymentStep
  BY <1>3 DEF PaymentStep, ChooseOption, RegistrationOrder
<1>4. CASE Organizer
  BY <1>1, <1>4 DEF Organizer, EditInvoice, Cancel, Reopen, SetPercent, HandPick, HandSave,
     CheckRead, CheckAsk, CheckSettle
<1>5. CASE Worker
  BY <1>1, <1>5 DEF Worker, SweepPick, SweepAsk, SweepAct
<1>6. CASE PayPal
  BY <1>6 DEF PayPal, Approve, Complete, Deny, Expire, PayPalMoves
<1>7. CASE Time
  BY <1>7 DEF Time, FifteenMinutes, HalfAnHour, WatchEnds, Tick
<1>8. CASE UNCHANGED vars
  BY <1>8 DEF vars
<1> QED BY <1>2, <1>3, <1>4, <1>5, <1>6, <1>7, <1>8 DEF Next

(* Time leaves the mark of a request at work on its order as it is.         *)
LEMMA TimeLeavesFresh ==
  ASSUME TypeOK, AtWorkOnOrder, FifteenMinutes \/ HalfAnHour \/ WatchEnds,
         NEW r \in Requests, req[r].pc \in {"lock", "post", "record"}, Fresh(req[r].order)
  PROVE  FALSE
BY DEF FifteenMinutes, HalfAnHour, WatchEnds, InFlight, Processing, Fresh

(* An order becomes the pending one before its payer approves it.           *)
LEMMA PendingUnapproved ==
  ASSUME Ground, [Next]_vars, NEW o \in Orders, Later(o), Capturable(o)'
  PROVE  Capturable(o)
<1> USE DEF Ground, IInv, TypeOK
<1>1. pp[o].st = "approved"
  BY OrderMoves DEF Capturable, Later, Goes
<1>2. ~Past(o)
  BY <1>1 DEF Past
<1>3. ASSUME NEW r \in Requests, PayPageSave(r), ~Held PROVE FALSE
  <2>1. req[r].order \in Orders /\ pp[req[r].order].st = "created"
    BY <1>3 DEF PayPageSave, AtWorkOnOrder, MakingOrders
  <2>2. invoice' = [invoice EXCEPT !.pending = req[r].order, !.fee = pp[req[r].order].fee]
    BY <1>3 DEF PayPageSave
  <2>3. invoice'.pending = req[r].order
    BY <2>2 DEF InvoiceType
  <2> QED BY <1>1, <2>1, <2>3 DEF Capturable
<1>4. ASSUME NEW amount, NEW q \in Orders, RegistrationOrder(q, amount) PROVE FALSE
  <2>1. pp[q].st = "none" /\ invoice'.pending = q
    BY <1>4 DEF RegistrationOrder, Prepared, InvoiceType
  <2> QED BY <1>1, <2>1 DEF Capturable
<1>5. ASSUME NEW amount, ChooseOption(amount) PROVE FALSE
  BY <1>5, NullAssumption DEF ChooseOption, Prepared, InvoiceType, Capturable
<1>6. ASSUME NEW amount, NEW handling,
             EditInvoice(amount, handling) \/ Cancel \/ Reopen \/ HandSave(amount)
      PROVE  invoice'.pending = invoice.pending
  BY <1>6 DEF EditInvoice, Cancel, Reopen, HandSave, InvoiceType
<1>7. ASSUME NEW q \in Orders, Pends(q) PROVE FALSE
  <2>1. Past(q)
    BY <1>7 DEF Pends, AnswersStand, Past
  <2>2. invoice'.pending = q
    BY <1>7 DEF Pends, MarkPending, InvoiceType
  <2> QED BY <1>2, <2>1, <2>2 DEF Capturable
<1>8. ASSUME NEW q \in Orders, Records(q) \/ Denies(q)
      PROVE  invoice'.pending \in {invoice.pending, NoOrder}
  BY <1>8 DEF Records, Denies, RecordCapture, InvoiceType
<1> QED BY <1>1, <1>3, <1>4, <1>5, <1>6, <1>7, <1>8, NullAssumption, InvoiceMoves
        DEF InvoiceGoes, Capturable

(* What an order is refused for stays so, once its payer has approved it:   *)
(* what changes what the invoice asks takes its pending order away.         *)
LEMMA RefusedStays ==
  ASSUME Ground, [Next]_vars, Unedited, NEW o \in Orders, Later(o), Capturable(o)'
  PROVE  Payable(o)' = Payable(o)
<1> USE DEF Ground, IInv, TypeOK
<1>1. Capturable(o) /\ ~Past(o) /\ pp[o].st = "approved"
  BY PendingUnapproved DEF Capturable, Past
<1>2. ASSUME NEW r \in Requests, PayPageSave(r), ~Held PROVE FALSE
  <2>1. req[r].order \in Orders /\ pp[req[r].order].st = "created"
    BY <1>2 DEF PayPageSave, AtWorkOnOrder, MakingOrders
  <2>2. invoice' = [invoice EXCEPT !.pending = req[r].order, !.fee = pp[req[r].order].fee]
    BY <1>2 DEF PayPageSave
  <2>3. invoice'.pending = req[r].order
    BY <2>2 DEF InvoiceType
  <2> QED BY <1>1, <2>1, <2>3 DEF Capturable
<1>3. ASSUME NEW amount, NEW q \in Orders, RegistrationOrder(q, amount) PROVE FALSE
  <2>1. pp[q].st = "none" /\ invoice'.pending = q
    BY <1>3 DEF RegistrationOrder, Prepared, InvoiceType
  <2> QED BY <1>1, <2>1 DEF Capturable
<1>4. ASSUME NEW amount, ChooseOption(amount) PROVE FALSE
  BY <1>4, NullAssumption DEF ChooseOption, Prepared, InvoiceType, Capturable
<1>5. ASSUME NEW amount, NEW handling,
             EditInvoice(amount, handling) \/ Cancel \/ Reopen \/ HandSave(amount)
      PROVE  FALSE
  BY <1>5 DEF EditInvoice, Cancel, Reopen, HandSave, OrganizerEdits, Unedited, ClerkIdle
<1>6. ASSUME NEW q \in Orders, Pends(q) PROVE FALSE
  <2>1. Past(q)
    BY <1>6 DEF Pends, AnswersStand, Past
  <2>2. invoice'.pending = q
    BY <1>6 DEF Pends, MarkPending, InvoiceType
  <2> QED BY <1>1, <2>1, <2>2 DEF Capturable
<1>7. ASSUME NEW q \in Orders, Records(q) \/ Denies(q) PROVE UNCHANGED <<invoice, paid>>
  <2>1. CASE Records(q)
    <3>1. invoice'.pending # NoOrder
      BY NullAssumption DEF Capturable
    <3>2. \/ UNCHANGED <<invoice, paid>>
          \/ invoice'.pending = NoOrder
      BY <2>1 DEF Records, RecordCapture, InvoiceType
    <3> QED BY <3>1, <3>2
  <2>2. CASE Denies(q)
    BY <2>2, NullAssumption DEF Denies, InvoiceType, Capturable
  <2> QED BY <1>7, <2>1, <2>2
<1>8. UNCHANGED <<invoice, paid>>
  BY <1>2, <1>3, <1>4, <1>5, <1>6, <1>7, InvoiceMoves DEF InvoiceGoes
<1>9. UNCHANGED percent
  BY UneditedSteps DEF Unedited
<1>10. pp'[o].asks = pp[o].asks
  BY <1>1, MadeOnce
<1>11. Due(invoice)' = Due(invoice) /\ OrderFee(invoice)' = OrderFee(invoice)
  BY <1>8, <1>9 DEF Due, OrderFee, OnlineFee, FeeAt
<1> QED BY <1>8, <1>10, <1>11 DEF Payable

(* A capture's mark stays its own from before it looks at the order.        *)
LEMMA LookingStep ==
  ASSUME Ground, MoneyHeld, [Next]_vars, [RefusalsStand]_vars,
         NEW r \in Requests, req'[r].pc = "lock",
         NEW o \in Orders, req'[r].order = o, Capturable(o)'
  PROVE  Fresh(o)' \/ Refused(o)'
<1> USE DEF Ground, IInv, TypeOK
<1>1. /\ req[r].order = o /\ Later(o)
      /\ \/ CaptureMark(r)
         \/ req'[r] = req[r]
  <2>1. /\ req[r].order = o
        /\ \/ CaptureMark(r)
           \/ req'[r] = req[r]
    BY RequestMoves DEF RequestGoes, Idle
  <2>2. CaptureMark(r) => req[r].pc = "mark"
    BY DEF CaptureMark
  <2> QED BY <2>1, <2>2 DEF MakingOrders
<1>2. Capturable(o)
  BY <1>1, PendingUnapproved
<1>3. ~Past(o) /\ ~Taken(o) /\ pp[o].st = "approved"
  BY <1>2 DEF Capturable, Past, Taken
<1>4. CASE CaptureMark(r)
  <2>1. ~watch.processing
    BY <1>2, <1>3 DEF Capturable, AnswersStand, MoneyHeld, MarkHolds
  <2>2. watch' = NewWatch(o)
    BY <1>1, <1>2, <1>4, <2>1 DEF CaptureMark, Capturable
  <2> QED BY <2>2 DEF NewWatch, Fresh
<1>5. CASE Refused(o)
  BY <1>1, <1>5, RefusedStays DEF Refused, Unedited
<1>6. CASE req'[r] = req[r] /\ ~Refused(o)
  <2>1. Fresh(o) /\ req[r].pc = "lock"
    BY <1>1, <1>2, <1>6 DEF MoneyHeld, CapturesMarked
  <2>2. ASSUME UNCHANGED watch PROVE Fresh(o)'
    BY <2>1, <2>2 DEF Fresh
  <2>3. ASSUME NEW q \in Requests, Marks(q) PROVE Fresh(o)'
    BY <1>2, <2>3 DEF Marks, NewWatch, Capturable, Fresh
  <2>4. ASSUME NEW q \in Orders, Pends(q) PROVE FALSE
    <3>1. q = o
      BY <2>1, <2>4, OwnMark DEF Fresh
    <3> QED BY <1>3, <2>4, <3>1 DEF Pends, AnswersStand, Past
  <2>5. ASSUME NEW q \in Orders, Records(q) PROVE UNCHANGED watch
    <3>1. q # o
      BY <1>3, <2>5 DEF Records
    <3> QED BY <2>1, <2>5, <3>1 DEF Records, RecordCapture, SettledOrder, Fresh
  <2>6. ASSUME NEW q \in Orders, Settles(q) PROVE UNCHANGED watch
    <3>1. ASSUME NEW s \in Requests, CaptureSettle(s), req[s].order = o PROVE FALSE
      <4>1. req'[s] = Idle /\ req[s].pc = "settle"
        BY <3>1 DEF CaptureSettle, Finish
      <4>2. ~UNCHANGED vars
        BY <4>1 DEF vars, Idle
      <4> QED BY <1>1, <1>2, <1>6, <2>1, <3>1, <4>2 DEF RefusalsStand
    <3>2. ASSUME CheckSettle, check.order = o PROVE FALSE
      BY <1>3, <3>2 DEF CheckSettle, AnswersStand
    <3>3. q # o
      BY <2>6, <3>1, <3>2 DEF Settles
    <3> QED BY <2>1, <2>6, <3>3 DEF Settles, SettledOrder, Fresh
  <2>7. ASSUME NEW q \in Orders, Denies(q) PROVE UNCHANGED watch
    <3>1. q # o
      BY <2>7, NullAssumption DEF Denies, InvoiceType, Capturable
    <3> QED BY <2>1, <2>7, <3>1 DEF Denies, SettledOrder, Fresh
  <2>8. ~SameAttempt \/ sweep.pc = "idle"
    BY <2>1, NullAssumption DEF AttemptsApart, SameAttempt, Fresh
  <2>9. ASSUME Notes \/ Sweeps PROVE UNCHANGED watch
    BY <2>8, <2>9 DEF Notes, NoteAsked, Sweeps, SettledAttempt, SameAttempt
  <2>10. ~(FifteenMinutes \/ HalfAnHour \/ WatchEnds)
    BY <1>1, <2>1, TimeLeavesFresh
  <2> QED BY <2>2, <2>3, <2>4, <2>5, <2>6, <2>7, <2>9, <2>10, MarkMoves DEF MarkGoes
<1> QED BY <1>1, <1>4, <1>5, <1>6

LEMMA CapturesStep ==
  ASSUME Ground, MoneyHeld, [Next]_vars, [RefusalsStand]_vars
  PROVE  CapturesMarked'
<1> USE DEF Ground, IInv, TypeOK
<1>1. ASSUME NEW r \in Requests, req'[r].pc = "lock", Capturable(req[r].order)'
      PROVE  Fresh(req[r].order)' \/ Refused(req[r].order)'
  <2>1. req'[r].order \in Orders
    BY <1>1, AtWorkStep DEF AtWorkOnOrder
  <2>2. PICK o \in Orders : req'[r].order = o
    BY <2>1
  <2>3. Capturable(o)'
    BY <1>1, <2>2 DEF Capturable
  <2>4. Fresh(o)' \/ Refused(o)'
    BY <1>1, <2>2, <2>3, LookingStep
  <2> QED BY <2>2, <2>4 DEF Fresh, Refused, Payable
<1>2. ASSUME NEW r \in Requests, req'[r].pc = "post" PROVE Fresh(req[r].order)'
  <2>1. CASE req'[r] = req[r]
    <3>1. Fresh(req[r].order) /\ req[r].pc = "post"
      BY <1>2, <2>1 DEF MoneyHeld, CapturesMarked
    <3>2. UNCHANGED watch
      BY <2>1, <3>1, LockedMark, TimeLeavesFresh
    <3> QED BY <2>1, <3>1, <3>2 DEF Fresh
  <2>2. CASE /\ req'[r].order = req[r].order /\ CaptureLock(r)
             /\ pp[req[r].order].st = "approved" /\ Payable(req[r].order)
    <3>1. req[r].pc = "lock" /\ UNCHANGED watch
      BY <2>2 DEF CaptureLock
    <3>2. Fresh(req[r].order)
      BY <2>2, <3>1 DEF Payable, Refused, Capturable, MoneyHeld, CapturesMarked
    <3> QED BY <2>2, <3>1, <3>2 DEF Fresh
  <2> QED BY <1>2, <2>1, <2>2, RequestMoves DEF RequestGoes, Idle
<1>3. ASSUME NEW r \in Requests, req'[r].pc = "record"
      PROVE  \/ watch'.order = req'[r].order
             \/ /\ req'[r].answer = "completed"
                /\ req'[r].order \in recorded'
  <2>1. CASE req'[r] = req[r]
    <3>1. \/ watch.order = req[r].order
          \/ /\ req[r].answer = "completed"
             /\ req[r].order \in recorded
      BY <1>3, <2>1 DEF MoneyHeld, CapturesMarked
    <3>2. UNCHANGED recorded /\ watch'.order = watch.order
      <4>1. /\ UNCHANGED recorded
            /\ UNCHANGED watch \/ FifteenMinutes \/ HalfAnHour \/ WatchEnds
        BY <1>3, <2>1, LockedMark
      <4> QED BY <4>1 DEF FifteenMinutes, HalfAnHour, WatchEnds, Tick, WatchType
    <3> QED BY <2>1, <3>1, <3>2
  <2>2. CASE /\ req'[r].order = req[r].order /\ CaptureLock(r)
             /\ Taken(req[r].order) /\ req'[r].answer = pp[req[r].order].st
    <3>1. req[r].order \in Orders /\ UNCHANGED <<watch, recorded>>
      BY <2>2 DEF CaptureLock, AtWorkOnOrder
    <3>2. CASE req[r].order \in recorded
      BY <2>2, <3>1, <3>2 DEF AnswersStand
    <3>3. CASE req[r].order \notin recorded
      BY <2>2, <3>1, <3>3 DEF MoneyHeld, MoneyMarked
    <3> QED BY <3>2, <3>3
  <2>3. CASE req'[r].order = req[r].order /\ CapturePost(r)
    BY <2>3 DEF CapturePost, MoneyHeld, CapturesMarked, Fresh
  <2> QED BY <1>3, <2>1, <2>2, <2>3, RequestMoves DEF RequestGoes, Idle
<1> QED BY <1>1, <1>2, <1>3 DEF CapturesMarked

(* What PayPal told the sweep of an attempt stands: another capture of the  *)
(* order is another attempt.                                                *)
LEMMA SweptStep ==
  ASSUME Ground, MoneyHeld, [Next]_vars
  PROVE  SweptUntaken'
<1> USE DEF Ground, IInv, TypeOK
<1> SUFFICES ASSUME sweep'.pc = "act", SameAttempt',
                    sweep'.answer \in {"gone", "offered", "approved", "declined"}
             PROVE  pp'[sweep'.order].st \notin {"completed", "pending"}
  BY DEF SweptUntaken, Taken
<1>1. CASE SweepAsk
  <2>1. /\ sweep.pc = "ask" /\ UNCHANGED pp
        /\ sweep'.order = sweep.order /\ sweep'.answer \in {pp[sweep.order].st, "error"}
    BY <1>1 DEF SweepAsk, SweepType
  <2> QED BY <2>1
<1>2. CASE SweepPick \/ SweepAct
  BY <1>2 DEF SweepPick, SweepAct, NoSweep
<1>3. CASE UNCHANGED sweep
  <2>1. sweep.order \in Orders /\ sweep.order # NoOrder
    BY <1>3, NullAssumption DEF AtWorkOnOrder
  <2>2. SameAttempt
    <3>1. watch' # NoWatch
      BY <1>3, <2>1 DEF SameAttempt, NoWatch
    <3>2. watch'.attempt # clock + 1
      BY <1>3 DEF SameAttempt, AttemptsApart, SweepType
    <3> QED BY <1>3, <3>1, <3>2, AttemptMoves DEF SameAttempt
  <2>3. ~Taken(sweep.order)
    BY <1>3, <2>2 DEF MoneyHeld, SweptUntaken
  <2>4. ASSUME NEW r \in Requests, CapturePost(r), req[r].order = sweep.order PROVE FALSE
    <3>1. Fresh(sweep.order)
      BY <2>4 DEF CapturePost, MoneyHeld, CapturesMarked
    <3> QED BY <1>3, <2>1, <2>2, <3>1 DEF AttemptsApart, SameAttempt, Fresh
  <2>5. /\ pp[sweep.order].st # "approved" \/ pp'[sweep.order].st \in {"approved", "gone"}
        /\ pp'[sweep.order].st \in {"completed", "pending"}
             => pp[sweep.order].st \in {"approved", "completed", "pending"}
    BY <2>1, <2>4, OrderMoves DEF Goes
  <2> QED BY <1>3, <2>3, <2>5 DEF Taken
<1> QED BY <1>1, <1>2, <1>3, OwnSteps

-----------------------------------------------------------------------------
(* The ground the mark stands on holds of every behaviour.                  *)
LEMMA GroundStep ==
  ASSUME Ground, [Next]_vars
  PROVE  Ground'
<1>1. IInv'
  BY TypeStep, AtWorkStep, RowStep, PostingStep DEF Ground, IInv
<1>2. MakingOrders' /\ AnswersStand' /\ AttemptsApart'
  BY MakingStep, AnswersStep, AttemptsStep DEF Ground, IInv
<1>3. ClerkIdle'
  BY UneditedSteps DEF Ground, IInv, TypeOK, ClerkIdle
<1> QED BY <1>1, <1>2, <1>3 DEF Ground

(* The inductive invariant: the money is held until a watch has ended       *)
(* without an answer, which makes the invoice free to be paid again.        *)
HeldInv == Ground /\ (lapsed = {} => MoneyHeld)

LEMMA InitHeldInv == Init => HeldInv
<1> SUFFICES ASSUME Init PROVE HeldInv
  OBVIOUS
<1>1. IInv
  BY InitIInv
<1>2. /\ watch = NoWatch /\ sweep = NoSweep /\ recorded = {} /\ clock = 0
      /\ check.pc = "idle" /\ invoice.pending = NoOrder
      /\ \A r \in Requests : req[r].pc = "idle"
      /\ \A o \in Orders : pp[o].st = "none"
  BY DEF Init, Idle
<1>3. MakingOrders
  BY <1>2 DEF MakingOrders
<1>4. AnswersStand
  BY <1>2 DEF AnswersStand, NoWatch, NoSweep
<1>5. AttemptsApart /\ ClerkIdle
  BY <1>2 DEF AttemptsApart, ClerkIdle, Init, NoWatch, NoSweep
<1>6. MarkHolds /\ FeeKept /\ MoneyMarked
  BY <1>2 DEF MarkHolds, FeeKept, MoneyMarked, NoWatch, Taken
<1>7. CapturesMarked /\ SweptUntaken
  BY <1>2 DEF CapturesMarked, SweptUntaken, NoSweep
<1> QED BY <1>1, <1>3, <1>4, <1>5, <1>6, <1>7 DEF HeldInv, Ground, MoneyHeld

LEMMA HeldInvStep ==
  ASSUME HeldInv, [Next]_vars, [RefusalsStand]_vars
  PROVE  HeldInv'
<1>1. Ground /\ Ground'
  BY GroundStep DEF HeldInv
<1>2. ASSUME lapsed' = {} PROVE MoneyHeld'
  <2>1. MoneyHeld
    BY <1>1, <1>2, Grown DEF HeldInv, Ground, IInv
  <2>2. MarkHolds' /\ FeeKept' /\ MoneyMarked' /\ CapturesMarked' /\ SweptUntaken'
    BY <1>1, <1>2, <2>1, HoldsStep, FeeStep, MarkedStep, CapturesStep, SweptStep
  <2> QED BY <2>2 DEF MoneyHeld
<1> QED BY <1>1, <1>2 DEF HeldInv

LEMMA HeldInvariant == Spec /\ [][RefusalsStand]_vars => []HeldInv
<1> QED BY InitHeldInv, HeldInvStep, PTL DEF Spec

-----------------------------------------------------------------------------
(* Money PayPal took, or holds pending, and that is not yet a payment keeps *)
(* its invoice held for its order (capture_unsettled), whichever request    *)
(* died, lost its answer or raced another, and whatever the worker, "Check  *)
(* PayPal order", the organizers and the other payers do meanwhile.         *)
THEOREM MoneyIsHeld == Spec /\ [][RefusalsStand]_vars => []UnrecordedMoneyHeld
<1>1. HeldInv => UnrecordedMoneyHeld
  BY NullAssumption DEF HeldInv, MoneyHeld, MoneyMarked, MarkHolds, UnrecordedMoneyHeld
<1> QED BY <1>1, HeldInvariant, PTL

(* A payment PayPal is processing stays its invoice's pending order, and    *)
(* the fee the invoice keeps is that order's (_capture_pending, #767).      *)
THEOREM ProcessingKept == Spec /\ [][RefusalsStand]_vars => []ProcessingKeepsOrder
<1>1. HeldInv => ProcessingKeepsOrder
  BY NullAssumption
     DEF HeldInv, MoneyHeld, MarkHolds, FeeKept, ProcessingKeepsOrder, Processing
<1> QED BY <1>1, HeldInvariant, PTL

(* No order's money moves while another order's is taken and not recorded   *)
(* (create_paypal_order looks again with the invoice held), while no watch  *)
(* has ended without an answer.                                             *)
THEOREM ChargedOnce ==
  Spec /\ [][RefusalsStand]_vars /\ [](lapsed = {}) => NoSecondCharge
<1> DEFINE Step == \A o, q \in Orders :
      ~Taken(o) /\ Taken(o)' /\ o # q /\ Taken(q) => q \in recorded \union lapsed
<1>1. ASSUME HeldInv, lapsed = {}, [Next]_vars PROVE Step
  <2> SUFFICES ASSUME NEW o \in Orders, NEW q \in Orders,
                      ~Taken(o), Taken(o)', o # q, Taken(q), q \notin recorded
               PROVE  FALSE
    OBVIOUS
  <2> USE <1>1 DEF HeldInv, Ground, IInv
  <2>1. watch.order = q
    BY DEF MoneyHeld, MoneyMarked
  <2>2. pp[o].st = "approved" /\ pp'[o].st \in {"completed", "pending"}
    BY OrderMoves DEF Taken, Goes
  <2>3. PICK r \in Requests : CapturePost(r) /\ req[r].order = o
    BY <2>2, OrderMoves DEF Goes
  <2>4. watch.order = o
    BY <2>3 DEF CapturePost, MoneyHeld, CapturesMarked, Fresh
  <2> QED BY <2>1, <2>4
<1>2. HeldInv /\ (lapsed = {}) /\ [Next]_vars => [Step]_vars
  BY <1>1
<1>3. Spec /\ [][RefusalsStand]_vars /\ [](lapsed = {}) => [][Step]_vars
  BY <1>2, HeldInvariant, PTL DEF Spec
<1> QED BY <1>3 DEF NoSecondCharge

(* The mark of one capture is never overwritten by another order's while it *)
(* holds the invoice (capture_unsettled, #804).                             *)
THEOREM MarkIsKept ==
  Spec /\ [][RefusalsStand]_vars /\ [](lapsed = {}) => MarkNotOverwritten
<1> DEFINE Step == Held => watch'.order \in {watch.order, NoOrder}
<1>1. ASSUME HeldInv, lapsed = {}, [Next]_vars, [RefusalsStand]_vars PROVE Step
  BY <1>1, MarkStays DEF HeldInv, Held, Processing, Watched
<1>2. HeldInv /\ (lapsed = {}) /\ [Next]_vars /\ [RefusalsStand]_vars => [Step]_vars
  BY <1>1
<1>3. Spec /\ [][RefusalsStand]_vars /\ [](lapsed = {}) => [][Step]_vars
  BY <1>2, HeldInvariant, PTL DEF Spec
<1> QED BY <1>3 DEF MarkNotOverwritten

-----------------------------------------------------------------------------
(* While a capture holds the invoice nobody changes what it asks, cancels   *)
(* it or adds to what was paid on it (doc/payments.md, "Held while PayPal   *)
(* may pay it"): but a payment by hand that names no invoice, which is not  *)
(* looked at again when it is saved (PaymentSerializer.validate).           *)
THEOREM HeldIsFrozen ==
  Spec /\ [][RefusalsStand]_vars /\ [](lapsed = {}) /\ [](clerk # "unnamed")
    => HeldInvoiceFrozen
<1> DEFINE Frozen == /\ UNCHANGED paid
                     /\ invoice'.amount = invoice.amount
                     /\ invoice'.handling = invoice.handling
                     /\ invoice'.cancelled => invoice.cancelled
           Step == Held /\ Held' => Frozen
<1>1. ASSUME HeldInv, lapsed = {}, clerk # "unnamed", [Next]_vars, Held, Held' PROVE Frozen
  <2> USE <1>1 DEF HeldInv, Ground, IInv, TypeOK
  <2>1. CASE UNCHANGED <<invoice, paid>>
    BY <2>1
  <2>2. ASSUME NEW amount, ChooseOption(amount) \/ \E o \in Orders : RegistrationOrder(o, amount)
        PROVE  Frozen
    BY <2>2 DEF ChooseOption, RegistrationOrder, Preparable
  <2>3. ASSUME NEW amount, NEW handling, EditInvoice(amount, handling) PROVE Frozen
    BY <2>3 DEF EditInvoice
  <2>4. CASE Reopen
    BY <2>4 DEF Reopen, InvoiceType
  <2>5. ASSUME NEW amount, HandSave(amount) PROVE Frozen
    <3>1. clerk = "named"
      BY <2>5 DEF HandSave
    <3> QED BY <2>5, <3>1 DEF HandSave
  <2>6. ASSUME NEW o \in Orders, Pends(o) PROVE Frozen
    BY <2>6 DEF Pends, MarkPending, InvoiceType
  <2>7. ASSUME NEW o \in Orders, Records(o) PROVE Frozen
    <3>1. CASE o \in recorded
      BY <2>7, <3>1 DEF Records, RecordCapture
    <3>2. CASE o \notin recorded
      <4>1. watch' = NoWatch
        BY <2>7, <3>2, OwnMark DEF Records, RecordCapture, SettledOrder
      <4> QED BY <4>1 DEF NoWatch, Held, Processing, Watched
    <3> QED BY <3>1, <3>2
  <2>8. ASSUME NEW o \in Orders, Denies(o) PROVE Frozen
    BY <2>8 DEF Denies, InvoiceType
  <2>9. InvoiceGoes
    BY InvoiceMoves
  <2>10. CASE \E amount \in Amounts, handling \in {0, invoice.handling} :
                EditInvoice(amount, handling)
    BY <2>3, <2>10
  <2>11. CASE \E o \in Orders : Pends(o) \/ Records(o) \/ Denies(o)
    BY <2>6, <2>7, <2>8, <2>11
  <2>12. CASE \E amount \in Amounts : \/ ChooseOption(amount)
                                    \/ \E o \in Orders : RegistrationOrder(o, amount)
    BY <2>2, <2>12
  <2>13. CASE \/ \E r \in Requests : PayPageSave(r) /\ ~Held
              \/ Cancel
    BY <2>13 DEF Cancel
  <2>14. CASE \E amount \in Amounts : HandSave(amount)
    BY <2>5, <2>14
  <2> HIDE DEF Frozen
  <2> QED BY <2>1, <2>4, <2>9, <2>10, <2>11, <2>12, <2>13, <2>14 DEF InvoiceGoes
<1>2. HeldInv /\ (lapsed = {}) /\ (clerk # "unnamed") /\ [Next]_vars => [Step]_vars
  BY <1>1
<1>3. Spec /\ [][RefusalsStand]_vars /\ [](lapsed = {}) /\ [](clerk # "unnamed")
        => [][Step]_vars
  BY <1>2, HeldInvariant, PTL DEF Spec
<1> QED BY <1>3 DEF HeldInvoiceFrozen

(* A cancelled invoice holds no money (perform_destroy's and perform_update's *)
(* "This invoice still holds money", PaymentSerializer.validate's "That       *)
(* invoice is cancelled"), of the payments made through PayPal.               *)
THEOREM CancelledIsEmpty ==
  Spec /\ [][RefusalsStand]_vars /\ [](clerk = "idle") => []CancelledHoldsNoMoney
<1>1. Init => CancelledHoldsNoMoney
  BY DEF Init, CancelledHoldsNoMoney
<1>2. ASSUME HeldInv, CancelledHoldsNoMoney, clerk = "idle",
             [Next]_vars, [RefusalsStand]_vars
      PROVE  CancelledHoldsNoMoney'
  <2> USE <1>2 DEF HeldInv, Ground, IInv, TypeOK
  <2> SUFFICES ASSUME invoice'.cancelled, lapsed' = {} PROVE paid' = 0
    BY DEF CancelledHoldsNoMoney
  <2>1. MoneyHeld /\ (invoice.cancelled => paid = 0)
    BY Grown DEF CancelledHoldsNoMoney
  <2>2. CASE UNCHANGED <<invoice, paid>>
    BY <2>1, <2>2
  <2>3. ASSUME NEW r \in Requests, PayPageSave(r) PROVE paid' = 0
    BY <2>1, <2>3 DEF PayPageSave, InvoiceType
  <2>4. ASSUME NEW amount, ChooseOption(amount) \/ \E o \in Orders : RegistrationOrder(o, amount)
        PROVE  paid' = 0
    BY <2>1, <2>4 DEF ChooseOption, RegistrationOrder, Preparable, Prepared, InvoiceType
  <2>5. ASSUME NEW amount, NEW handling, EditInvoice(amount, handling) \/ Cancel \/ Reopen
        PROVE  paid' = 0
    BY <2>1, <2>5 DEF EditInvoice, Cancel, Reopen, InvoiceType
  <2>6. ASSUME NEW amount, HandSave(amount) PROVE paid' = 0
    BY <2>6 DEF HandSave
  <2>7. ASSUME NEW o \in Orders, Pends(o) \/ Denies(o) PROVE paid' = 0
    BY <2>1, <2>7 DEF Pends, MarkPending, Denies, InvoiceType
  <2>8. ASSUME NEW o \in Orders, Records(o) PROVE paid' = 0
    <3>1. CASE o \in recorded
      BY <2>1, <2>8, <3>1 DEF Records, RecordCapture
    <3>2. CASE o \notin recorded
      <4>1. ~invoice.cancelled
        BY <2>1, <2>8, <3>2 DEF Records, MoneyHeld, MoneyMarked, Taken
      <4>2. invoice'.cancelled = invoice.cancelled
        <5>1. invoice' = [invoice EXCEPT !.handling = IF @ = 0 THEN FeeCaptured(o) ELSE @,
                                         !.pending = NoOrder, !.fee = NoFee]
          BY <2>8, <3>2 DEF Records, RecordCapture
        <5> QED BY <5>1 DEF InvoiceType
      <4> QED BY <4>1, <4>2
    <3> QED BY <3>1, <3>2
  <2>9. InvoiceGoes
    BY InvoiceMoves
  <2>10. CASE \E o \in Orders : Pends(o) \/ Records(o) \/ Denies(o)
    BY <2>7, <2>8, <2>10
  <2>11. CASE \E amount \in Amounts : \/ ChooseOption(amount)
                                    \/ \E o \in Orders : RegistrationOrder(o, amount)
    BY <2>4, <2>11
  <2>12. CASE \E r \in Requests : PayPageSave(r) /\ ~Held
    BY <2>3, <2>12
  <2>13. CASE \/ \E amount \in Amounts, handling \in {0, invoice.handling} :
                   EditInvoice(amount, handling)
              \/ Cancel \/ Reopen
    BY <2>5, <2>13
  <2>14. CASE \E amount \in Amounts : HandSave(amount)
    BY <2>6, <2>14
  <2> QED BY <2>2, <2>9, <2>10, <2>11, <2>12, <2>13, <2>14 DEF InvoiceGoes
<1>3. HeldInv /\ CancelledHoldsNoMoney /\ (clerk = "idle") /\ [Next]_vars
        /\ [RefusalsStand]_vars => CancelledHoldsNoMoney'
  BY <1>2
<1> QED BY <1>1, <1>3, HeldInvariant, PTL DEF Spec

-----------------------------------------------------------------------------
(* One request at a time, and PayPal never refuses to tell of an order: then *)
(* a refusal settles no capture but its own.                                *)
AloneAtWork ==
  \A r \in Requests :
    /\ req[r].pc = "post" => pp[req[r].order].st \in {"approved", "gone"}
    /\ req[r].pc = "settle" => ~Taken(req[r].order)

LEMMA AloneStep ==
  ASSUME \A r, q \in Requests : r = q, "refused" \notin GetErrors,
         Ground, AloneAtWork, [Next]_vars
  PROVE  AloneAtWork'
<1> USE DEF Ground, IInv, TypeOK
<1> SUFFICES ASSUME NEW r \in Requests
             PROVE  /\ req'[r].pc = "post" => pp'[req'[r].order].st \in {"approved", "gone"}
                    /\ req'[r].pc = "settle" =>
                         pp'[req'[r].order].st \notin {"completed", "pending"}
  BY DEF AloneAtWork, Taken
<1>1. CASE req'[r] = req[r]
  <2>1. CASE req[r].pc \in {"post", "settle"}
    <3>1. req[r].order \in Orders /\ Later(req[r].order)
      BY <2>1 DEF AtWorkOnOrder, MakingOrders
    <3>2. ~CapturePost(r)
      <4>1. CASE CapturePost(r)
        <5>1. PICK pc \in {"record", "settle", "report"} :
                \E answer : req[r].pc = "post" /\ GoTo(r, pc, req[r].order, answer)
          BY <4>1 DEF CapturePost
        <5> QED BY <1>1, <5>1 DEF GoTo
      <4> QED BY <4>1
    <3>3. \A q \in Requests : ~CapturePost(q)
      BY <3>2
    <3>4. \/ pp'[req[r].order] = pp[req[r].order]
          \/ /\ Goes(pp[req[r].order].st, pp'[req[r].order].st)
             /\ pp[req[r].order].st = "approved" => pp'[req[r].order].st = "gone"
      BY <3>1, <3>3, OrderMoves DEF Later
    <3> QED BY <1>1, <2>1, <3>4 DEF AloneAtWork, Taken, Goes
  <2>2. CASE req[r].pc \notin {"post", "settle"}
    BY <1>1, <2>2
  <2> QED BY <2>1, <2>2
<1>2. CASE CaptureLock(r)
  <2>1. /\ req[r].pc = "lock" /\ UNCHANGED pp /\ req[r].order \in Orders
        /\ \/ req'[r].pc \notin {"post", "settle"}
           \/ /\ req'[r].order = req[r].order /\ req'[r].pc = "post"
              /\ pp[req[r].order].st = "approved"
           \/ /\ req'[r].order = req[r].order /\ req'[r].pc = "settle"
              /\ pp[req[r].order].st \in {"offered", "declined", "gone", "approved"}
    BY <1>2 DEF CaptureLock, GoTo, Finish, Idle, AtWorkOnOrder
  <2> QED BY <2>1
<1>3. CASE CapturePost(r)
  <2>1. /\ req[r].pc = "post" /\ req[r].order \in Orders
        /\ pp[req[r].order].st \in {"approved", "gone"}
    BY <1>3 DEF CapturePost, AtWorkOnOrder, AloneAtWork
  <2>2. \/ \E pc \in {"record", "report"} : \E answer : GoTo(r, pc, req[r].order, answer)
        \/ /\ UNCHANGED pp \/ pp' = [pp EXCEPT ![req[r].order].st = "declined"]
           /\ GoTo(r, "settle", req[r].order, "none")
    BY <1>3 DEF CapturePost
  <2> QED BY <2>1, <2>2 DEF GoTo, OrderType
<1>4. CASE req'[r].pc \notin {"post", "settle"}
  BY <1>4
<1> QED BY <1>1, <1>2, <1>3, <1>4, RequestMoves DEF RequestGoes, Idle

LEMMA AloneRefusals ==
  ASSUME \A r, q \in Requests : r = q, AloneAtWork
  PROVE  [RefusalsStand]_vars
<1> SUFFICES ASSUME NEW r \in Requests, CaptureSettle(r)
             PROVE  /\ ~Taken(req[r].order)
                    /\ \A q \in Requests : req[q].pc = "lock" => FALSE
  BY DEF RefusalsStand
<1>1. req[r].pc = "settle"
  BY DEF CaptureSettle
<1>2. ASSUME NEW q \in Requests, req[q].pc = "lock" PROVE FALSE
  <2>1. q = r
    OBVIOUS
  <2> QED BY <1>1, <1>2, <2>1
<1> QED BY <1>1, <1>2 DEF AloneAtWork

LEMMA AloneStands ==
  ASSUME \A r, q \in Requests : r = q, "refused" \notin GetErrors
  PROVE  Spec => [][RefusalsStand]_vars
<1>1. Init => AloneAtWork
  BY DEF Init, Idle, AloneAtWork
<1>2. Ground /\ AloneAtWork /\ [Next]_vars => AloneAtWork'
  BY AloneStep
<1>3. Init => Ground
  BY InitHeldInv DEF HeldInv
<1>4. Ground /\ [Next]_vars => Ground'
  BY GroundStep
<1>5. AloneAtWork => [RefusalsStand]_vars
  BY AloneRefusals
<1> QED BY <1>1, <1>2, <1>3, <1>4, <1>5, PTL DEF Spec

(* A payer's requests one after another: then nothing else is assumed for   *)
(* the money to be held (capture_unsettled), against crashes, lost answers, *)
(* the worker, "Check PayPal order" and the organizers.                     *)
THEOREM MoneyIsHeldAlone ==
  ASSUME \A r, q \in Requests : r = q, "refused" \notin GetErrors
  PROVE  Spec => []UnrecordedMoneyHeld
BY AloneStands, MoneyIsHeld, PTL

(* Nor, unless a watch runs out or a payment is recorded by hand, for a     *)
(* held invoice to stay as it is and a cancelled one to hold no money,      *)
(* whatever the organizers edit (doc/payments.md, "Held while PayPal may    *)
(* pay it").                                                                *)
THEOREM HeldFromOrganizers ==
  ASSUME \A r, q \in Requests : r = q, "refused" \notin GetErrors,
         MaxLapses = 0, MaxHand = 0
  PROVE  Spec => HeldInvoiceFrozen /\ []CancelledHoldsNoMoney
<1>1. HeldInv => clerk = "idle" /\ clerk # "unnamed"
  BY DEF HeldInv, Ground, ClerkIdle
<1>2. Spec => [](clerk = "idle") /\ [](clerk # "unnamed")
  BY <1>1, AloneStands, HeldInvariant, PTL
<1> QED BY <1>2, AloneStands, NeverLapsed, HeldIsFrozen, CancelledIsEmpty, PTL

-----------------------------------------------------------------------------
(* Nobody edits the invoice, and PayPal turns no call away: then a request  *)
(* asks for the money of an order it may capture, and settles one that      *)
(* nobody may capture any more.                                             *)
UneditedWork ==
  \A r \in Requests :
    LET o == req[r].order
    IN  /\ req[r].pc = "post" => Payable(o)
        /\ req[r].pc = "settle" => \/ pp[o].st \in {"declined", "gone"}
                                   \/ pp[o].st = "approved" /\ ~Payable(o)

LEMMA UneditedPosting ==
  ASSUME Unedited, Ground, UneditedWork, [Next]_vars,
         NEW r \in Requests, req'[r].pc = "post"
  PROVE  Payable(req[r].order)' /\ req'[r].order = req[r].order
<1> USE DEF Ground, IInv, TypeOK
<1>1. UNCHANGED percent
  BY UneditedSteps DEF Unedited
<1>2. /\ req'[r].order = req[r].order /\ Payable(req[r].order)
      /\ req[r].order \in Orders /\ Later(req[r].order)
      /\ UNCHANGED <<invoice, paid>>
  <2>1. CASE req'[r] = req[r]
    BY <2>1, LockedInvoice DEF UneditedWork, AtWorkOnOrder, MakingOrders
  <2>2. CASE /\ req'[r].order = req[r].order /\ CaptureLock(r)
             /\ Payable(req[r].order)
    BY <2>2 DEF CaptureLock, AtWorkOnOrder, MakingOrders
  <2> QED BY <2>1, <2>2, RequestMoves DEF RequestGoes, Idle
<1>3. pp'[req[r].order].asks = pp[req[r].order].asks
  BY <1>2, MadeOnce DEF Later
<1>4. Due(invoice)' = Due(invoice) /\ OrderFee(invoice)' = OrderFee(invoice)
  BY <1>1, <1>2 DEF Due, OrderFee, OnlineFee, FeeAt
<1> QED BY <1>2, <1>3, <1>4 DEF Payable

LEMMA UneditedSettling ==
  ASSUME Unedited, "refused" \notin GetErrors \union PostAnswers,
         Ground, UneditedWork, [Next]_vars, NEW r \in Requests, req'[r].pc = "settle",
         NEW o \in Orders, req'[r].order = o
  PROVE  \/ pp'[o].st \in {"declined", "gone"}
         \/ pp'[o].st = "approved" /\ ~Payable(o)'
<1> USE DEF Ground, IInv, TypeOK
<1>1. /\ req[r].order = o /\ Later(o)
      /\ req'[r] = req[r] \/ CaptureLock(r) \/ CapturePost(r)
  <2>1. /\ req[r].order = o /\ req[r].pc \in {"lock", "post", "record", "settle"}
        /\ req'[r] = req[r] \/ CaptureLock(r) \/ CapturePost(r)
    BY RequestMoves DEF RequestGoes, Idle
  <2> QED BY <2>1 DEF MakingOrders
<1>2. CASE req'[r] = req[r]
  <2>1. CASE pp[o].st \in {"declined", "gone"}
    <3>1. \/ pp'[o] = pp[o]
          \/ Goes(pp[o].st, pp'[o].st)
      BY <2>1, OrderMoves
    <3> QED BY <2>1, <3>1 DEF Goes
  <2>2. CASE pp[o].st = "approved" /\ ~Payable(o)
    <3>1. ASSUME NEW q \in Requests, CapturePost(q), req[q].order = o PROVE FALSE
      <4>1. req[q].pc = "post"
        BY <3>1 DEF CapturePost
      <4> QED BY <2>2, <3>1, <4>1 DEF UneditedWork
    <3>2. pp'[o].st \in {"approved", "gone"}
      BY <2>2, <3>1, OrderMoves DEF Goes
    <3>3. ASSUME pp'[o].st = "approved" PROVE ~Payable(o)'
      <4>1. CASE invoice'.pending = o
        BY <1>1, <2>2, <3>3, <4>1, RefusedStays DEF Capturable
      <4>2. CASE invoice'.pending # o
        BY <4>2 DEF Payable
      <4> QED BY <4>1, <4>2
    <3> QED BY <3>2, <3>3
  <2> QED BY <1>1, <1>2, <2>1, <2>2 DEF UneditedWork
<1>3. CASE CaptureLock(r)
  <2>1. /\ UNCHANGED <<pp, invoice, paid, percent>>
        /\ \/ pp[o].st \in {"offered", "declined", "gone"}
           \/ pp[o].st = "approved" /\ ~Payable(o)
    BY <1>1, <1>3 DEF CaptureLock, GoTo, Finish, Idle
  <2>2. Payable(o)' = Payable(o)
    BY <2>1 DEF Payable, Due, OrderFee, OnlineFee, FeeAt
  <2> QED BY <1>1, <2>1, <2>2 DEF Later
<1>4. CASE CapturePost(r)
  <2>1. \/ pp' = [pp EXCEPT ![o].st = "declined"]
        \/ UNCHANGED pp /\ pp[o].st = "gone"
        \/ \E pc \in {"record", "report"} : \E answer : GoTo(r, pc, o, answer)
    BY <1>1, <1>4 DEF CapturePost
  <2> QED BY <2>1 DEF GoTo, OrderType
<1> QED BY <1>1, <1>2, <1>3, <1>4

LEMMA UneditedStep ==
  ASSUME Unedited, "refused" \notin GetErrors \union PostAnswers,
         Ground, UneditedWork, [Next]_vars
  PROVE  UneditedWork'
<1>1. ASSUME NEW r \in Requests, req'[r].pc = "post" PROVE Payable(req[r].order)'
  <2>1. Payable(req[r].order)'
    BY <1>1, UneditedPosting
  <2> QED BY <2>1
<1>2. ASSUME NEW r \in Requests, req'[r].pc = "settle"
      PROVE  \/ pp'[req'[r].order].st \in {"declined", "gone"}
             \/ pp'[req'[r].order].st = "approved" /\ ~Payable(req[r].order)'
  <2>1. req'[r].order \in Orders
    BY <1>2, AtWorkStep DEF Ground, IInv, AtWorkOnOrder
  <2>2. PICK o \in Orders : req'[r].order = o
    BY <2>1
  <2>3. \/ pp'[o].st \in {"declined", "gone"}
        \/ pp'[o].st = "approved" /\ ~Payable(o)'
    BY <1>2, <2>2, UneditedSettling
  <2> QED BY <2>2, <2>3 DEF Payable
<1> QED BY <1>1, <1>2 DEF UneditedWork

LEMMA UneditedRefusals ==
  ASSUME Unedited, UneditedWork
  PROVE  [RefusalsStand]_vars
<1>1. ASSUME NEW r \in Requests, CaptureSettle(r)
      PROVE  /\ ~Taken(req[r].order)
             /\ Capturable(req[r].order) => Refused(req[r].order)
  <2>1. req[r].pc = "settle"
    BY <1>1 DEF CaptureSettle
  <2> QED BY <2>1 DEF UneditedWork, Taken, Capturable, Refused
<1> QED BY <1>1 DEF RefusalsStand

LEMMA UneditedStands ==
  ASSUME MaxEdits = 0, MaxHand = 0, "refused" \notin GetErrors \union PostAnswers
  PROVE  Spec => [][RefusalsStand]_vars
<1>1. Init => UneditedWork
  BY DEF Init, Idle, UneditedWork
<1>2. Ground /\ UneditedWork /\ [Next]_vars => UneditedWork'
  BY UneditedStep DEF Unedited
<1>3. Init => Ground
  BY InitHeldInv DEF HeldInv
<1>4. Ground /\ [Next]_vars => Ground'
  BY GroundStep
<1>5. UneditedWork => [RefusalsStand]_vars
  BY UneditedRefusals DEF Unedited
<1> QED BY <1>1, <1>2, <1>3, <1>4, <1>5, PTL DEF Spec

(* Any number of payers and requests, of whom PayPal turns none away, while *)
(* nobody edits the invoice or records a payment by hand: money PayPal took *)
(* is held until it is recorded (capture_unsettled).                        *)
THEOREM MoneyIsHeldUnedited ==
  ASSUME MaxEdits = 0, MaxHand = 0, "refused" \notin GetErrors \union PostAnswers
  PROVE  Spec => []UnrecordedMoneyHeld
BY UneditedStands, MoneyIsHeld, PTL

(* And unless a watch runs out, none of them is charged for what another    *)
(* has paid, and none's order takes the mark or the fee of another's that   *)
(* may have paid (create_paypal_order, #767, #804).                         *)
THEOREM PayersKeptApart ==
  ASSUME MaxEdits = 0, MaxHand = 0, MaxLapses = 0,
         "refused" \notin GetErrors \union PostAnswers
  PROVE  Spec => NoSecondCharge /\ MarkNotOverwritten /\ []ProcessingKeepsOrder
BY UneditedStands, NeverLapsed, ProcessingKept, ChargedOnce, MarkIsKept, PTL
=============================================================================
