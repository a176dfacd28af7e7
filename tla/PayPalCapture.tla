---------------------------- MODULE PayPalCapture ----------------------------
(***************************************************************************)
(* Paying one invoice through PayPal: the server's capture of an approved  *)
(* order, and everyone who may touch the invoice meanwhile.                *)
(*                                                                         *)
(* The server (src/server/camphoric/invoices.py) runs several requests at  *)
(* once over one database row, the Invoice, at READ COMMITTED with no      *)
(* transaction around a request.  A capture is a sequence of commits with  *)
(* PayPal's HTTP calls between them, and it can die at each: so it first   *)
(* commits a mark (`watch` below: paypal_capture_order_id, _started_at and *)
(* _pending_at) by which the worker's sweep and the registrar's "Check     *)
(* PayPal order" find what was never recorded, and which holds the invoice *)
(* (`capture_unsettled`) until the capture has an outcome.                 *)
(*                                                                         *)
(* The registration's row lock and the invoice's are always taken together *)
(* and in that order, so they are one lock here.  What waits for the row   *)
(* without taking it across a call to PayPal is one action enabled while   *)
(* the lock is free.  Times are abstracted to what the code compares them  *)
(* with: a mark is "new" for 15 minutes, then "due" until it "lapsed"      *)
(* (after a day, or a month when PayPal said it is pending).               *)
(*                                                                         *)
(* Assumed of the environment: a request still running is not outlived by  *)
(* the first 15 minutes of its mark (PayPal's client gives up after 30     *)
(* seconds), and what a call to PayPal does, it does before the call ends  *)
(* for the server.                                                         *)
(***************************************************************************)
EXTENDS Integers, FiniteSets

CONSTANTS
  Orders,       \* the PayPal orders that may be made for the invoice
  Requests,     \* requests of payers: browsers, tabs, double clicks
  NoOrder,
  NoRequest,
  Amounts,      \* what options and organizers may set the invoice to, in cents
  Percents,     \* the event's e-payment handling, in percent
  GetErrors,    \* how asking PayPal for an order may fail: "lost", "refused"
  PostAnswers,  \* how PayPal may answer a capture, see CapturePost
  HandKinds,    \* payments recorded by hand: "named" (their invoice), "unnamed"
  MaxAttempts,  \* bound: captures started
  MaxEdits,     \* bound: organizers' edits, cancels, reopens, percent changes
  MaxHand,      \* bound: payments recorded by hand
  MaxLapses     \* bound: watches that run out

ASSUME NullAssumption == NoOrder \notin Orders /\ NoRequest \notin Requests
ASSUME MoneyAssumption == Amounts \subseteq Nat /\ Percents \subseteq Nat
ASSUME AnswerAssumption ==
  /\ GetErrors \subseteq {"lost", "refused"}
  /\ PostAnswers \subseteq {"completed", "pending", "declined", "refused", "lost"}
  /\ HandKinds \subseteq {"named", "unnamed"}
ASSUME BoundAssumption ==
  MaxAttempts \in Nat /\ MaxEdits \in Nat /\ MaxHand \in Nat /\ MaxLapses \in Nat

VARIABLES
  invoice,   \* its row, but for the mark: what it asks, its pending order
  watch,     \* the row's mark: the order being captured, since when, how it stands
  percent,   \* the event's e-payment handling
  paid,      \* the net of the invoice's payments
  recorded,  \* the orders whose capture is a payment on it
  hand,      \* how many payments were recorded by hand
  pp,        \* each order, as PayPal has it
  lock,      \* the request holding the invoice's row across a call to PayPal
  req,       \* each payer's request: where it is, its order, PayPal's answer
  clerk,     \* a registrar recording a payment by hand
  check,     \* a registrar's "Check PayPal order"
  sweep,     \* the worker's check of one unrecorded capture
  reports,   \* the problem emails sent: <<what, order>>
  clock,     \* how many capture attempts were started: tells them apart
  edits,     \* how many times organizers changed something
  lapsed     \* the orders whose unanswered capture the worker gave up on

vars == <<invoice, watch, percent, paid, recorded, hand, pp, lock, req, clerk,
          check, sweep, reports, clock, edits, lapsed>>

NoFee == -1
NoWatch == [order |-> NoOrder, attempt |-> 0, age |-> "new",
            processing |-> FALSE, asked |-> "recent"]
Idle == [pc |-> "idle", order |-> NoOrder, answer |-> "none"]
NoSweep == [pc |-> "idle", order |-> NoOrder, attempt |-> 0,
            wasPending |-> FALSE, ended |-> FALSE, answer |-> "none"]

-----------------------------------------------------------------------------
(* What the invoice asks.                                                  *)

LargerOf(a, b) == IF a >= b THEN a ELSE b

(* Invoice.amount_due, of the row `inv`. *)
Due(inv) == LargerOf(0, inv.amount + inv.handling - paid)

(* A percent of an amount to the cent, a half cent up. *)
FeeAt(p, amount) == IF amount > 0 THEN (amount * p + 50) \div 100 ELSE 0
OnlineFee(amount) == FeeAt(percent, amount)

(* The fee an order for `inv` adds: the handling it doesn't have yet. *)
OrderFee(inv) == IF inv.handling = 0 THEN OnlineFee(Due(inv)) ELSE 0

HasPayments == recorded # {} \/ hand > 0

(* PayPal has the payer's money for the order, or may yet say so. *)
Taken(o) == pp[o].st \in {"completed", "pending"}

(* capture_processing, and capture_unsettled: the invoice is held. *)
Processing == watch.order # NoOrder /\ watch.processing
WatchedForGood == watch.order # NoOrder                    \* mutant
WatchedFifteenMinutes == watch.order # NoOrder /\ watch.age = "new"  \* mutant
Watched == watch.order # NoOrder /\ watch.age # "lapsed"
Held == Processing \/ Watched

-----------------------------------------------------------------------------
(* The mark.                                                               *)

(* A capture of the order begins at this moment: nobody has been asked yet. *)
NewWatch(o) == [order |-> o, attempt |-> clock + 1, age |-> "new",
                processing |-> FALSE, asked |-> "recent"]

(* _capture_settled without started_at: whatever attempt on the order. *)
SettledOrder(o) == IF watch.order = o THEN NoWatch ELSE watch

(* _capture_settled with started_at: the attempt the caller read, only. *)
SettledAttempt(o, n) ==
  IF watch.order = o /\ watch.attempt = n THEN NoWatch ELSE watch

(* _capture_pending: the order is watched, and is the invoice's pending one. *)
MarkPending(o) ==
  LET fresh == watch.order # o \/ ~Watched
      kept == IF fresh THEN NewWatch(o) ELSE watch
  IN  /\ watch' = [kept EXCEPT !.processing = TRUE, !.asked = "recent"]
      /\ clock' = IF fresh THEN clock + 1 ELSE clock
      /\ invoice' = [invoice EXCEPT !.pending = o]

(* The due that, with its fee, makes the captured amount: the code tries the *)
(* seven around amount / (1 + percent / 100).  At most one does: a due with  *)
(* its fee grows with the due.                                               *)
DuesAsking(amount) ==
  LET guess == (200 * amount + 100 + percent) \div (2 * (100 + percent))
  IN  {d \in (guess - 3)..(guess + 3) : d > 0 /\ d + OnlineFee(d) = amount}

FeeOfDueNow(o) == OnlineFee(Due(invoice))                  \* mutant

(* _fee_captured *)
FeeCaptured(o) ==
  LET amount == pp[o].asks
      due == Due(invoice)
  IN  IF invoice.fee # NoFee /\ invoice.pending = o THEN invoice.fee
      ELSE IF amount = due + OnlineFee(due) THEN OnlineFee(due)
      ELSE IF DuesAsking(amount) # {}
             THEN OnlineFee(CHOOSE d \in DuesAsking(amount) : TRUE)
      ELSE LET beyond == LargerOf(0, amount - due)
           IN  IF beyond <= OnlineFee(due) THEN beyond ELSE OnlineFee(due)

RecordCaptureAsRefund(o) ==                                \* mutant
  /\ invoice' = [invoice EXCEPT !.pending = NoOrder, !.fee = NoFee]
  /\ paid' = paid - pp[o].asks
  /\ recorded' = recorded \union {o}
  /\ watch' = SettledOrder(o)

(* record_capture, then _capture_settled, in the caller's transaction. *)
RecordCapture(o) ==
  /\ IF o \in recorded
       THEN UNCHANGED <<invoice, paid, recorded>>
       ELSE /\ invoice' = [invoice EXCEPT
                  !.handling = IF @ = 0 THEN FeeCaptured(o) ELSE @,
                  !.pending = NoOrder, !.fee = NoFee]
            /\ paid' = paid + pp[o].asks
            /\ recorded' = recorded \union {o}
  /\ watch' = SettledOrder(o)

-----------------------------------------------------------------------------
InvoiceType == [amount: Nat, handling: Nat, cancelled: BOOLEAN, changed: BOOLEAN,
                pending: Orders \union {NoOrder}, fee: Nat \union {NoFee}]
WatchType == [order: Orders \union {NoOrder}, attempt: Nat,
              age: {"new", "due", "lapsed"}, processing: BOOLEAN,
              asked: {"recent", "stale", "late"}]
OrderState == {"none", "created", "offered", "approved", "completed", "pending",
               "declined", "gone"}
OrderType == [st: OrderState, asks: Nat, fee: Nat]
RequestType == [pc: {"idle", "save", "mark", "lock", "post", "record", "settle", "report"},
                order: Orders \union {NoOrder},
                answer: {"none", "completed", "pending"}]
CheckType == [pc: {"idle", "ask", "settle"}, order: Orders \union {NoOrder}]
SweepType == [pc: {"idle", "ask", "act"}, order: Orders \union {NoOrder},
              attempt: Nat, wasPending: BOOLEAN, ended: BOOLEAN,
              answer: OrderState \union {"error"}]
ReportType == {"capture", "capture_lost", "capture_denied", "capture_expired"} \X Orders

TypeOK ==
  /\ invoice \in InvoiceType /\ watch \in WatchType
  /\ percent \in Percents /\ paid \in Nat /\ hand \in Nat
  /\ recorded \subseteq Orders /\ lapsed \subseteq Orders
  /\ pp \in [Orders -> OrderType]
  /\ lock \in Requests \union {NoRequest}
  /\ req \in [Requests -> RequestType]
  /\ clerk \in {"idle", "named", "unnamed"}
  /\ check \in CheckType /\ sweep \in SweepType
  /\ reports \subseteq ReportType
  /\ clock \in Nat /\ edits \in Nat

(* A completed registration whose invoice asks some amount: the state a     *)
(* payment step or an organizer's "add invoice" leaves it in.               *)
Init ==
  /\ \E amount \in Amounts :
       invoice = [amount |-> amount, handling |-> 0, cancelled |-> FALSE,
                  changed |-> FALSE, pending |-> NoOrder, fee |-> NoFee]
  /\ watch = NoWatch
  /\ percent \in Percents
  /\ paid = 0 /\ recorded = {} /\ hand = 0
  /\ pp = [o \in Orders |-> [st |-> "none", asks |-> 0, fee |-> 0]]
  /\ lock = NoRequest
  /\ req = [r \in Requests |-> Idle]
  /\ clerk = "idle"
  /\ check = [pc |-> "idle", order |-> NoOrder]
  /\ sweep = NoSweep
  /\ reports = {} /\ clock = 0 /\ edits = 0 /\ lapsed = {}

-----------------------------------------------------------------------------
(* Making an order.                                                        *)

GoTo(r, pc, o, answer) ==
  req' = [req EXCEPT ![r] = [pc |-> pc, order |-> o, answer |-> answer]]

Finish(r) == req' = [req EXCEPT ![r] = Idle]

(* PayPal makes the order, for what `inv` asks now. *)
Ordered(o, inv, st) ==
  [pp EXCEPT ![o] = [st |-> st, asks |-> Due(inv) + OrderFee(inv), fee |-> OrderFee(inv)]]

(* The pay page's order: the invoice is looked at with nothing locked, and  *)
(* PayPal makes the order.                                                  *)
PayPageAsk(r, o) ==
  /\ req[r].pc = "idle" /\ pp[o].st = "none"
  /\ ~invoice.cancelled /\ ~Held /\ Due(invoice) > 0
  /\ pp' = Ordered(o, invoice, "created")
  /\ GoTo(r, "save", o, "none")
  /\ UNCHANGED <<invoice, watch, percent, paid, recorded, hand, lock, clerk, check,
                 sweep, reports, clock, edits, lapsed>>

PayPageSaveUnchecked(r) ==                                 \* mutant
  LET o == req[r].order
  IN  /\ req[r].pc = "save" /\ lock = NoRequest
      /\ invoice' = [invoice EXCEPT !.pending = o, !.fee = pp[o].fee]
      /\ pp' = [pp EXCEPT ![o].st = "offered"]
      /\ Finish(r)
      /\ UNCHANGED <<watch, percent, paid, recorded, hand, lock, clerk, check, sweep,
                     reports, clock, edits, lapsed>>

(* Then it is looked at again, held, and the order becomes its pending one: *)
(* only now does the payer get it.                                          *)
PayPageSave(r) ==
  LET o == req[r].order
  IN  /\ req[r].pc = "save" /\ lock = NoRequest
      /\ IF Held THEN UNCHANGED <<invoice, pp>>
         ELSE /\ invoice' = [invoice EXCEPT !.pending = o, !.fee = pp[o].fee]
              /\ pp' = [pp EXCEPT ![o].st = "offered"]
      /\ Finish(r)
      /\ UNCHANGED <<watch, percent, paid, recorded, hand, lock, clerk, check, sweep,
                     reports, clock, edits, lapsed>>

(* prepare_registration_invoice: the chosen option's amount, unless an      *)
(* organizer set the invoice's.                                             *)
Prepared(amount) ==
  [invoice EXCEPT !.pending = NoOrder,
                  !.amount = IF invoice.changed THEN @ ELSE amount,
                  !.handling = IF invoice.changed THEN @ ELSE 0]

Preparable == lock = NoRequest /\ ~HasPayments /\ ~invoice.cancelled /\ ~Held

(* The registration's payment step, PayPal or Card button: the invoice is   *)
(* rewritten and the order made and kept in one transaction.                *)
RegistrationOrder(o, amount) ==
  LET inv == Prepared(amount)
  IN  /\ Preparable /\ pp[o].st = "none" /\ Due(inv) > 0
      /\ pp' = Ordered(o, inv, "offered")
      /\ invoice' = [inv EXCEPT !.pending = o, !.fee = OrderFee(inv)]
      /\ UNCHANGED <<watch, percent, paid, recorded, hand, lock, req, clerk, check,
                     sweep, reports, clock, edits, lapsed>>

(* Pay by check, or a button whose order PayPal wouldn't make: rewritten    *)
(* only.                                                                    *)
ChooseOption(amount) ==
  /\ Preparable
  /\ invoice' = Prepared(amount)
  /\ UNCHANGED <<watch, percent, paid, recorded, hand, pp, lock, req, clerk, check,
                 sweep, reports, clock, edits, lapsed>>

-----------------------------------------------------------------------------
(* Capturing one: capture_paypal_order.                                    *)

Starting == Cardinality({r \in Requests : req[r].pc = "mark"})

(* The browser, told its payer approved the order, asks for its capture, and *)
(* may ask again.  A payment PayPal is processing is left alone.            *)
CaptureBegin(r, o) ==
  /\ req[r].pc = "idle" /\ pp[o].st \notin {"none", "created", "offered"}
  /\ ~Processing
  /\ clock + Starting < MaxAttempts
  /\ GoTo(r, "mark", o, "none")
  /\ UNCHANGED <<invoice, watch, percent, paid, recorded, hand, pp, lock, clerk, check,
                 sweep, reports, clock, edits, lapsed>>

(* The mark, committed before PayPal is asked for anything. *)
CaptureMark(r) ==
  LET o == req[r].order
  IN  /\ req[r].pc = "mark" /\ lock = NoRequest
      /\ IF invoice.pending = o /\ ~watch.processing
           THEN watch' = NewWatch(o) /\ clock' = clock + 1
           ELSE UNCHANGED <<watch, clock>>
      /\ GoTo(r, "lock", o, "none")
      /\ UNCHANGED <<invoice, percent, paid, recorded, hand, pp, lock, clerk, check,
                     sweep, reports, edits, lapsed>>

PayableWhateverAsked(o) ==                                 \* mutant
  invoice.pending = o /\ ~invoice.cancelled /\ Due(invoice) > 0

(* What the capture checks once it holds the row. *)
Payable(o) ==
  /\ invoice.pending = o /\ ~invoice.cancelled
  /\ Due(invoice) > 0
  /\ pp[o].asks = Due(invoice) + OrderFee(invoice)

(* The row is locked and PayPal asked for the order.  What ends the attempt *)
(* here lets go of the row at once; otherwise it is held for the next call. *)
CaptureLock(r) ==
  LET o == req[r].order
      Hold(pc, answer) == lock' = r /\ GoTo(r, pc, o, answer)
      End(pc) == UNCHANGED lock /\ GoTo(r, pc, o, "none")
  IN  /\ req[r].pc = "lock" /\ lock = NoRequest
      /\ \/ Processing /\ UNCHANGED lock /\ Finish(r)
         \/ ~Processing /\ "lost" \in GetErrors /\ End("report")
         \/ ~Processing /\ "refused" \in GetErrors /\ End("settle")
         \/ ~Processing /\ pp[o].st \in {"offered", "declined", "gone"} /\ End("settle")
         \/ ~Processing /\ Taken(o) /\ Hold("record", pp[o].st)
         \/ /\ ~Processing /\ pp[o].st = "approved"
            /\ IF Payable(o) THEN Hold("post", "none") ELSE End("settle")
      /\ UNCHANGED <<invoice, watch, percent, paid, recorded, hand, pp, clerk, check,
                     sweep, reports, clock, edits, lapsed>>

(* The money moves: PayPal completes the capture, holds it as pending, says *)
(* the capture was declined, refuses the call (the order stays approved, as *)
(* for a card it turns down), or its answer is lost, whatever it did.       *)
CapturePost(r) ==
  LET o == req[r].order
      Now(st) == pp' = [pp EXCEPT ![o].st = st]
      Hold(st) == UNCHANGED lock /\ GoTo(r, "record", o, st)
      End(pc) == lock' = NoRequest /\ GoTo(r, pc, o, "none")
      Done == PostAnswers \intersect {"completed", "pending", "declined"}
  IN  /\ req[r].pc = "post"
      /\ \/ /\ pp[o].st = "approved"
            /\ \/ \E st \in Done \ {"declined"} : Now(st) /\ Hold(st)
               \/ "declined" \in Done /\ Now("declined") /\ End("settle")
               \/ "lost" \in PostAnswers /\ \E st \in Done : Now(st) /\ End("report")
         \/ /\ "refused" \in PostAnswers \/ pp[o].st = "gone"
            /\ UNCHANGED pp /\ End("settle")
         \/ "lost" \in PostAnswers /\ UNCHANGED pp /\ End("report")
      /\ UNCHANGED <<invoice, watch, percent, paid, recorded, hand, clerk, check, sweep,
                     reports, clock, edits, lapsed>>

(* What PayPal did is recorded, in the transaction that held the row; or    *)
(* recording it fails, and the transaction is rolled back.                  *)
CaptureRecord(r) ==
  LET o == req[r].order
  IN  /\ req[r].pc = "record"
      /\ \/ /\ req[r].answer = "completed"
            /\ RecordCapture(o)
            /\ Finish(r)
            /\ UNCHANGED clock
         \/ /\ req[r].answer = "pending"
            /\ MarkPending(o)
            /\ Finish(r)
            /\ UNCHANGED <<paid, recorded>>
         \/ /\ GoTo(r, "report", o, "none")
            /\ UNCHANGED <<invoice, watch, paid, recorded, clock>>
      /\ lock' = NoRequest
      /\ UNCHANGED <<percent, hand, pp, clerk, check, sweep, reports, edits, lapsed>>

(* The attempt took no money: the mark goes, in a commit of its own. *)
CaptureSettle(r) ==
  /\ req[r].pc = "settle" /\ lock = NoRequest
  /\ watch' = SettledOrder(req[r].order)
  /\ Finish(r)
  /\ UNCHANGED <<invoice, percent, paid, recorded, hand, pp, lock, clerk, check, sweep,
                 reports, clock, edits, lapsed>>

CaptureReportSettled(r) ==                                 \* mutant
  /\ req[r].pc = "report" /\ lock = NoRequest
  /\ reports' = reports \union {<<"capture", req[r].order>>}
  /\ watch' = SettledOrder(req[r].order)
  /\ Finish(r)
  /\ UNCHANGED <<invoice, percent, paid, recorded, hand, pp, lock, clerk, check, sweep,
                 clock, edits, lapsed>>

(* It may have: the mark stays, and the event is emailed. *)
CaptureReport(r) ==
  /\ req[r].pc = "report"
  /\ reports' = reports \union {<<"capture", req[r].order>>}
  /\ Finish(r)
  /\ UNCHANGED <<invoice, watch, percent, paid, recorded, hand, pp, lock, clerk, check,
                 sweep, clock, edits, lapsed>>

(* The server process dies: what was not committed is gone, the row free. *)
Crash(r) ==
  /\ req[r].pc # "idle"
  /\ Finish(r)
  /\ lock' = IF lock = r THEN NoRequest ELSE lock
  /\ UNCHANGED <<invoice, watch, percent, paid, recorded, hand, pp, clerk, check, sweep,
                 reports, clock, edits, lapsed>>

-----------------------------------------------------------------------------
(* "Check PayPal order": which order is read with nothing locked; PayPal is *)
(* asked with the row held, so that and what follows are one step.          *)

(* order_to_check *)
OrderToCheck == IF Held THEN watch.order ELSE invoice.pending

CheckRead ==
  /\ check.pc = "idle" /\ OrderToCheck # NoOrder
  /\ check' = [pc |-> "ask", order |-> OrderToCheck]
  /\ UNCHANGED <<invoice, watch, percent, paid, recorded, hand, pp, lock, req, clerk,
                 sweep, reports, clock, edits, lapsed>>

CheckAsk ==
  LET o == check.order
      st == pp[o].st
      Done == check' = [pc |-> "idle", order |-> NoOrder]
  IN  /\ check.pc = "ask" /\ lock = NoRequest
      /\ \/ /\ GetErrors # {}
            /\ Done /\ UNCHANGED <<invoice, watch, paid, recorded, clock>>
         \/ /\ st = "gone"
            /\ check' = [check EXCEPT !.pc = "settle"]
            /\ UNCHANGED <<invoice, watch, paid, recorded, clock>>
         \/ /\ st = "pending"
            /\ MarkPending(o)
            /\ Done /\ UNCHANGED <<paid, recorded>>
         \/ /\ st = "completed"
            /\ RecordCapture(o)
            /\ Done /\ UNCHANGED clock
         \/ /\ st \in {"offered", "approved", "declined"}
            /\ watch' = SettledOrder(o)
            /\ invoice' = [invoice EXCEPT !.pending = IF @ = o THEN NoOrder ELSE @]
            /\ Done /\ UNCHANGED <<paid, recorded, clock>>
      /\ UNCHANGED <<percent, hand, pp, lock, req, clerk, sweep, reports, edits, lapsed>>

(* An order PayPal doesn't know: its capture is settled, once the           *)
(* transaction above was rolled back.                                       *)
CheckSettle ==
  /\ check.pc = "settle" /\ lock = NoRequest
  /\ watch' = SettledOrder(check.order)
  /\ check' = [pc |-> "idle", order |-> NoOrder]
  /\ UNCHANGED <<invoice, percent, paid, recorded, hand, pp, lock, req, clerk, sweep,
                 reports, clock, edits, lapsed>>

-----------------------------------------------------------------------------
(* The worker's sweep of unrecorded captures: it reads the mark and asks    *)
(* PayPal with nothing locked, then writes what it learned.                 *)

SweepableUnansweredOnly ==                                 \* mutant
  watch.order # NoOrder /\ ~watch.processing /\ watch.age = "due"

(* check_unrecorded_captures: an unanswered capture for a day from its 15th *)
(* minute; a pending one each half hour, and once after its month.          *)
Sweepable ==
  /\ watch.order # NoOrder
  /\ IF watch.processing THEN watch.asked = "stale" ELSE watch.age = "due"

SweepPick ==
  /\ sweep.pc = "idle" /\ Sweepable
  /\ sweep' = [pc |-> "ask", order |-> watch.order, attempt |-> watch.attempt,
               wasPending |-> watch.processing,
               ended |-> watch.processing /\ watch.age = "lapsed", answer |-> "none"]
  /\ UNCHANGED <<invoice, watch, percent, paid, recorded, hand, pp, lock, req, clerk,
                 check, reports, clock, edits, lapsed>>

SweepAsk ==
  /\ sweep.pc = "ask"
  /\ \E answer \in {pp[sweep.order].st} \union (IF GetErrors = {} THEN {} ELSE {"error"}) :
       sweep' = [sweep EXCEPT !.pc = "act", !.answer = answer]
  /\ UNCHANGED <<invoice, watch, percent, paid, recorded, hand, pp, lock, req, clerk,
                 check, reports, clock, edits, lapsed>>

(* The mark is still the one the sweep read. *)
SameAttempt == watch.order = sweep.order /\ watch.attempt = sweep.attempt

(* _asked: PayPal said pending (or nothing) now, of the attempt it read;    *)
(* asked past its watch, it is the last time, and the event is told.        *)
NoteAsked ==
  IF SameAttempt
    THEN /\ watch' = [watch EXCEPT !.processing = TRUE,
                                   !.asked = IF sweep.ended THEN "late" ELSE "recent"]
         /\ reports' = IF sweep.ended
                         THEN reports \union {<<"capture_expired", sweep.order>>}
                         ELSE reports
    ELSE UNCHANGED <<watch, reports>>

(* It won't come: the payer, told it was processing, should hear so.        *)
SettleSwept(what) ==
  /\ watch' = SettledAttempt(sweep.order, sweep.attempt)
  /\ reports' = IF SameAttempt /\ sweep.wasPending
                  THEN reports \union {<<what, sweep.order>>} ELSE reports

(* _record_unrecorded_capture, once it has PayPal's answer. *)
SweepAct ==
  LET Untouched == UNCHANGED <<invoice, paid, recorded>>
  IN  /\ sweep.pc = "act" /\ lock = NoRequest
      /\ \/ /\ sweep.answer = "error"
            /\ IF sweep.wasPending THEN NoteAsked ELSE UNCHANGED <<watch, reports>>
            /\ Untouched
         \/ sweep.answer = "gone" /\ SettleSwept("capture_lost") /\ Untouched
         \/ sweep.answer = "pending" /\ NoteAsked /\ Untouched
         \/ /\ sweep.answer \in {"offered", "approved", "declined"}
            /\ SettleSwept("capture_denied") /\ Untouched
         \/ sweep.answer = "completed" /\ RecordCapture(sweep.order) /\ UNCHANGED reports
      /\ sweep' = NoSweep
      /\ UNCHANGED <<percent, hand, pp, lock, req, clerk, check, clock, edits, lapsed>>

-----------------------------------------------------------------------------
(* The organizers.                                                         *)

OrganizerEdits == edits < MaxEdits /\ edits' = edits + 1

(* An edit of what it asks is refused while a capture holds the invoice. *)
EditInvoice(amount, handling) ==
  /\ OrganizerEdits /\ lock = NoRequest
  /\ <<amount, handling>> # <<invoice.amount, invoice.handling>>
  /\ ~Held
  /\ invoice' = [invoice EXCEPT !.amount = amount, !.handling = handling, !.changed = TRUE]
  /\ UNCHANGED <<watch, percent, paid, recorded, hand, pp, lock, req, clerk, check,
                 sweep, reports, clock, lapsed>>

CancelHeld ==                                              \* mutant
  /\ OrganizerEdits /\ lock = NoRequest
  /\ ~invoice.cancelled /\ paid = 0
  /\ invoice' = [invoice EXCEPT !.cancelled = TRUE, !.changed = TRUE]
  /\ UNCHANGED <<watch, percent, paid, recorded, hand, pp, lock, req, clerk, check,
                 sweep, reports, clock, lapsed>>

Cancel ==
  /\ OrganizerEdits /\ lock = NoRequest
  /\ ~invoice.cancelled /\ paid = 0 /\ ~Held
  /\ invoice' = [invoice EXCEPT !.cancelled = TRUE, !.changed = TRUE]
  /\ UNCHANGED <<watch, percent, paid, recorded, hand, pp, lock, req, clerk, check,
                 sweep, reports, clock, lapsed>>

Reopen ==
  /\ OrganizerEdits /\ lock = NoRequest
  /\ invoice.cancelled
  /\ invoice' = [invoice EXCEPT !.cancelled = FALSE, !.changed = TRUE]
  /\ UNCHANGED <<watch, percent, paid, recorded, hand, pp, lock, req, clerk, check,
                 sweep, reports, clock, lapsed>>

(* The event's page: nothing of the invoice is locked. *)
SetPercent(p) ==
  /\ OrganizerEdits /\ p # percent
  /\ percent' = p
  /\ UNCHANGED <<invoice, watch, paid, recorded, hand, pp, lock, req, clerk, check,
                 sweep, reports, clock, lapsed>>

(* A payment recorded by hand.  Naming the invoice, it is refused on a      *)
(* cancelled one, looked at unlocked, and on a held one, looked at locked.  *)
(* Naming none, it goes on one neither cancelled nor held with money due,   *)
(* looked at unlocked (invoice_for_payment).  The insert waits for the row. *)
HandPick(kind) ==
  /\ clerk = "idle" /\ hand < MaxHand
  /\ ~invoice.cancelled
  /\ kind = "unnamed" => Due(invoice) > 0 /\ ~Held
  /\ clerk' = kind
  /\ UNCHANGED <<invoice, watch, percent, paid, recorded, hand, pp, lock, req, check,
                 sweep, reports, clock, edits, lapsed>>

HandSave(amount) ==
  /\ clerk # "idle" /\ lock = NoRequest
  /\ IF clerk = "named" /\ Held
       THEN UNCHANGED <<paid, hand>>
       ELSE paid' = paid + amount /\ hand' = hand + 1
  /\ clerk' = "idle"
  /\ UNCHANGED <<invoice, watch, percent, recorded, pp, lock, req, check, sweep,
                 reports, clock, edits, lapsed>>

-----------------------------------------------------------------------------
(* The payer in PayPal's window, PayPal, and time.                         *)

PayPalMoves(o, from, to) ==
  /\ pp[o].st \in from
  /\ pp' = [pp EXCEPT ![o].st = to]
  /\ UNCHANGED <<invoice, watch, percent, paid, recorded, hand, lock, req, clerk, check,
                 sweep, reports, clock, edits, lapsed>>

Approve(o) == PayPalMoves(o, {"offered"}, "approved")

(* PayPal's review of a pending capture ends. *)
Complete(o) == PayPalMoves(o, {"pending"}, "completed")
Deny(o) == PayPalMoves(o, {"pending"}, "declined")

(* An order nobody captured expires, or one PayPal took nothing for goes.   *)
Expire(o) == PayPalMoves(o, {"offered", "approved", "declined"}, "gone")

(* A request at work on the mark's order, from its mark on. *)
InFlight == \E r \in Requests :
  /\ req[r].order = watch.order
  /\ req[r].pc \in {"lock", "post", "record"}

Tick(next) ==
  /\ watch' = next
  /\ UNCHANGED <<invoice, percent, paid, recorded, hand, pp, lock, req, clerk, check,
                 sweep, reports, clock, edits>>

FifteenMinutes ==
  /\ watch.order # NoOrder /\ watch.age = "new" /\ ~InFlight
  /\ Tick([watch EXCEPT !.age = "due"]) /\ UNCHANGED lapsed

HalfAnHour ==
  /\ Processing /\ watch.asked = "recent"
  /\ Tick([watch EXCEPT !.asked = "stale"]) /\ UNCHANGED lapsed

(* A day for a capture with no answer, a month for a pending one; the       *)
(* invoice stays held for the second.                                       *)
WatchEnds ==
  /\ watch.order # NoOrder /\ watch.age = "due"
  /\ Cardinality(lapsed) < MaxLapses
  /\ watch.processing => clock < MaxAttempts
  /\ Tick([watch EXCEPT !.age = "lapsed"])
  /\ lapsed' = IF watch.processing THEN lapsed ELSE lapsed \union {watch.order}

-----------------------------------------------------------------------------
Request(r) ==
  \/ \E o \in Orders : PayPageAsk(r, o) \/ CaptureBegin(r, o)
  \/ PayPageSave(r)
  \/ CaptureMark(r) \/ CaptureLock(r) \/ CapturePost(r) \/ CaptureRecord(r)
  \/ CaptureSettle(r) \/ CaptureReport(r)
  \/ Crash(r)

PaymentStep ==
  \E amount \in Amounts :
    \/ ChooseOption(amount)
    \/ \E o \in Orders : RegistrationOrder(o, amount)

Organizer ==
  \/ \E amount \in Amounts, handling \in {0, invoice.handling} :
       EditInvoice(amount, handling)
  \/ Cancel \/ Reopen
  \/ \E p \in Percents : SetPercent(p)
  \/ \E kind \in HandKinds : HandPick(kind)
  \/ \E amount \in Amounts : HandSave(amount)
  \/ CheckRead \/ CheckAsk \/ CheckSettle

Worker == SweepPick \/ SweepAsk \/ SweepAct

PayPal == \E o \in Orders : Approve(o) \/ Complete(o) \/ Deny(o) \/ Expire(o)

Time == FifteenMinutes \/ HalfAnHour \/ WatchEnds

Next ==
  \/ \E r \in Requests : Request(r)
  \/ PaymentStep \/ Organizer \/ Worker \/ PayPal \/ Time

Spec == Init /\ [][Next]_vars

(* A server that keeps running takes every request it began to its end; its *)
(* worker runs every minute; time passes.  Payers, organizers and PayPal    *)
(* need do nothing.                                                         *)
Continue(r) ==
  \/ PayPageSave(r) \/ CaptureMark(r) \/ CaptureLock(r) \/ CapturePost(r)
  \/ CaptureRecord(r) \/ CaptureSettle(r) \/ CaptureReport(r)

FairSpec ==
  /\ Spec
  /\ \A r \in Requests : SF_vars(Continue(r))
  /\ SF_vars(SweepPick) /\ WF_vars(SweepAsk) /\ SF_vars(SweepAct)
  /\ WF_vars(FifteenMinutes) /\ WF_vars(HalfAnHour) /\ WF_vars(WatchEnds)

-----------------------------------------------------------------------------
(* Properties.                                                             *)

(* Money PayPal took (or holds pending) and that is not yet a payment keeps  *)
(* the invoice held for its order: the worker and "Check PayPal order" find  *)
(* it, and nobody pays the invoice again meanwhile, whichever request died,  *)
(* lost its answer or raced another (invoices.py:757-766, capture_unsettled).*)
(* Until a capture's day of asking passes without an answer.                 *)
UnrecordedMoneyHeld ==
  lapsed = {} => \A o \in Orders : Taken(o) /\ o \notin recorded
                                     => watch.order = o /\ Held

(* The money moves only for the invoice's pending order, while it is not     *)
(* cancelled, and for exactly what it asks at that moment with the online    *)
(* fee (capture_paypal_order: "only for what the invoice asks now").         *)
MoneyOnlyForDue ==
  [][\A o \in Orders : ~Taken(o) /\ Taken(o)' =>
       /\ invoice.pending = o /\ ~invoice.cancelled /\ Due(invoice) > 0
       /\ \E p \in Percents \union {0} :
            pp[o].asks = Due(invoice) + FeeAt(p, Due(invoice))]_vars

(* The invoice is never charged twice: no order's money moves while another  *)
(* order's is taken and not recorded, two tabs, retries and the worker       *)
(* included (create_paypal_order looks again with the invoice held).         *)
NoSecondCharge ==
  [][\A o, q \in Orders :
       ~Taken(o) /\ Taken(o)' /\ o # q /\ Taken(q) => q \in recorded \union lapsed]_vars

(* A capture recorded pays its invoice exactly, days later too: what the     *)
(* invoice asks, the fee it kept and the percent have not made it under- or  *)
(* overpaid (_fee_captured; perform_update and PaymentSerializer.validate    *)
(* refuse a held invoice).                                                   *)
CapturePaysInvoice ==
  [][recorded' # recorded /\ lapsed = {}
       => paid' = invoice'.amount + invoice'.handling]_vars

(* A payment PayPal is processing stays the invoice's pending order, so that *)
(* its kept fee is still the order's and the registrant's pages find it      *)
(* (_capture_pending, #767).                                                 *)
ProcessingKeepsOrder ==
  Processing /\ lapsed = {} => /\ invoice.pending = watch.order
                               /\ invoice.fee = pp[watch.order].fee

(* While a capture holds the invoice nobody changes what it asks, cancels it *)
(* or adds to what was paid on it (doc/payments.md, "Held while PayPal may   *)
(* pay it").                                                                 *)
HeldInvoiceFrozen ==
  [][Held /\ Held' => /\ UNCHANGED paid
                      /\ invoice'.amount = invoice.amount
                      /\ invoice'.handling = invoice.handling
                      /\ invoice'.cancelled => invoice.cancelled]_vars

(* One capture's mark is never overwritten by another order's while it holds *)
(* the invoice: only its own outcome takes it away (capture_unsettled, "its  *)
(* mark isn't overwritten by another order's", #804).                        *)
MarkNotOverwritten ==
  [][Held => watch'.order \in {watch.order, NoOrder}]_vars

(* A payment the registrant was told is processing never stops being so      *)
(* unheard: it is recorded, or the event is emailed, or a registrar's check  *)
(* says so (_record_unrecorded_capture, "news that it isn't coming goes to   *)
(* the event too, unless "Check PayPal order" settled it").                  *)
PendingEndsHeard ==
  [][Processing /\ ~Processing' =>
       \/ watch.order \in recorded'
       \/ \E what \in {"capture_lost", "capture_denied"} :
            <<what, watch.order>> \in reports'
       \/ check.order = watch.order /\ check'.pc = "idle"]_vars

(* A cancelled invoice holds no money (views.py:985, "This invoice still     *)
(* holds money"; PaymentSerializer.validate, "That invoice is cancelled"):    *)
(* until a capture nobody heard of for a day is found on one cancelled since.*)
CancelledHoldsNoMoney == invoice.cancelled /\ lapsed = {} => paid = 0

(* Money PayPal completed is recorded in the end, though the request died at *)
(* any point, its answer was lost, or PayPal took days (#804, #767): if      *)
(* PayPal answers the worker before its watch ends.                          *)
MoneyRecorded == \A o \in Orders : pp[o].st = "completed" ~> o \in recorded

(* An invoice is not held for ever by a capture nobody heard of again.       *)
HoldReleased == Watched /\ ~Processing ~> ~Held \/ Processing
=============================================================================
