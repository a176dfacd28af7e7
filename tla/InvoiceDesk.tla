---------------------------- MODULE InvoiceDesk ----------------------------
(***************************************************************************)
(* A registrar's work on one registration's invoices and its payments by   *)
(* hand: the page (RegistrationInvoices, its cards and its dialogs), what  *)
(* the server does with each request, and the ledger both show.  Invoices  *)
(* are billed, edited, cancelled, reopened and deleted; payments recorded, *)
(* on one or on their own, moved, refunded, deleted and restored; the      *)
(* registration's price changes.                                           *)
(*                                                                         *)
(* What PayPal does to an invoice is PayPalCapture's, refunding through it *)
(* Refunds', and the version an edit starts from RecordEdit's.  Each       *)
(* request here is one transaction, made from a page that is up to date.   *)
(* Descriptions, memos, dates and types change nothing here.               *)
(***************************************************************************)
EXTENDS Integers, Sequences, FiniteSetsExt

CONSTANTS MaxInvoices, MaxPayments,
          MaxAmount,  \* bounds the price, and each amount asked or paid
          MaxTotal    \* bounds what an invoice asks

VARIABLES
  price,     \* what the registration costs
  invoices,  \* its invoices, oldest first
  payments,  \* its payments and refunds: on which invoice, of which payment (0: none)
  reasked    \* received invoices an organizer changed since their payments last were

deskVars == <<price, invoices, payments, reasked>>

Invoice == [origin : {"admin", "received"}, amount : Int, handling : 0..MaxAmount,
            cancelled : BOOLEAN, gone : BOOLEAN]
Payment == [on : 1..MaxInvoices, amount : (-MaxAmount)..MaxAmount, of : 0..MaxPayments,
            live : BOOLEAN]

DeskTypeOK ==
  /\ price \in 0..MaxAmount
  /\ Len(invoices) <= MaxInvoices /\ \A i \in DOMAIN invoices : invoices[i] \in Invoice
  /\ Len(payments) <= MaxPayments
  /\ \A p \in DOMAIN payments : payments[p] \in Payment /\ payments[p].on \in DOMAIN invoices
  /\ reasked \subseteq DOMAIN invoices

-----------------------------------------------------------------------------
(* The ledger *)

Live == {i \in DOMAIN invoices : ~invoices[i].gone}
Standing == {i \in Live : ~invoices[i].cancelled}

NetOf(pays, i) == MapThenSumSet(LAMBDA p : pays[p].amount,
                                {p \in DOMAIN pays : pays[p].live /\ pays[p].on = i})

AmountPaid(i) == NetOf(payments, i)

Total(i) == invoices[i].amount + invoices[i].handling

AmountDue(i) == Max({0, Total(i) - AmountPaid(i)})

HandlingCharges == MapThenSumSet(LAMBDA i : invoices[i].handling, Standing)

TotalPaid == MapThenSumSet(AmountPaid, Live)

Balance == price + HandlingCharges - TotalPaid

Due == MapThenSumSet(AmountDue, Standing)

\* What no open invoice asks for yet.
UninvoicedUnpaid ==                                                        \* mutant
  Max({0, Balance - MapThenSumSet(AmountDue, {i \in Standing : AmountPaid(i) = 0})})
Uninvoiced == Max({0, Balance - Due})

-----------------------------------------------------------------------------
(* Bills *)

Admin(amount) == [origin |-> "admin", amount |-> amount, handling |-> 0,
                  cancelled |-> FALSE, gone |-> FALSE]

Bill(amount) ==
  /\ Len(invoices) < MaxInvoices
  /\ invoices' = Append(invoices, Admin(amount))
  /\ UNCHANGED <<price, payments, reasked>>

\* NewInvoiceModal: the balance it offers, or another amount.
BillBalance == Uninvoiced \in 1..MaxTotal /\ Bill(Uninvoiced)

BillOther == \E amount \in 1..MaxAmount : Bill(amount)

Touched(i) == IF invoices[i].origin = "received" THEN reasked \cup {i} ELSE reasked

\* EditInvoiceModal: the card offers it on an invoice that is not cancelled.
Asks(i, amount, handling) ==
  /\ i \in Standing
  /\ invoices' = [invoices EXCEPT ![i].amount = amount, ![i].handling = handling]
  /\ reasked' = Touched(i)
  /\ UNCHANGED <<price, payments>>

\* "Use the balance".
AskBalance == \E i \in Standing :
  /\ Uninvoiced > 0 /\ invoices[i].amount + Uninvoiced \in 0..MaxTotal
  /\ Asks(i, invoices[i].amount + Uninvoiced, invoices[i].handling)

AskOther == \E i \in Standing, amount \in 0..MaxAmount, handling \in 0..1 : Asks(i, amount, handling)

\* cancel: an invoice that holds money is not.
MayCancel(i) == i \in Standing /\ AmountPaid(i) = 0

Cancel ==
  /\ \E i \in Live :
       MayCancel(i) /\ invoices' = [invoices EXCEPT ![i].cancelled = TRUE] /\ reasked' = Touched(i)
  /\ UNCHANGED <<price, payments>>

Reopen ==
  /\ \E i \in Live \ Standing :
       /\ invoices' = [invoices EXCEPT ![i].cancelled = FALSE]
       /\ reasked' = Touched(i)
  /\ UNCHANGED <<price, payments>>

\* Only an invoice nothing was ever paid on, deleted payments counting.
DeleteInvoice ==
  /\ \E i \in Live :
       /\ \A p \in DOMAIN payments : payments[p].on # i
       /\ invoices' = [invoices EXCEPT ![i].gone = TRUE]
  /\ UNCHANGED <<price, payments, reasked>>

-----------------------------------------------------------------------------
(* Payments by hand *)

\* match_received_invoice: it asks for exactly what its live payments net to, and is
\* cancelled with none left.
Matched(invs, pays, i) ==
  IF invs[i].origin # "received" THEN invs
  ELSE IF \E p \in DOMAIN pays : pays[p].on = i /\ pays[p].live
    THEN [invs EXCEPT ![i].amount = NetOf(pays, i), ![i].cancelled = FALSE]
    ELSE [invs EXCEPT ![i].cancelled = TRUE]

Takes(i) == i \in Standing

Pay(i, amount, of) == [on |-> i, amount |-> amount, of |-> of, live |-> TRUE]

\* RecordPaymentModal, applied to an invoice with money due as the page shows it.
RecordOn ==
  /\ Len(payments) < MaxPayments
  /\ \E i \in DOMAIN invoices, amount \in 0..MaxAmount :
       /\ Takes(i) /\ reasked' = reasked \ {i}
       /\ payments' = Append(payments, Pay(i, amount, 0))
       /\ invoices' = Matched(invoices, payments', i)
  /\ UNCHANGED price

\* On its own: a new "Payment received" invoice for exactly it.
RecordAlone ==
  /\ Len(payments) < MaxPayments /\ Len(invoices) < MaxInvoices
  /\ \E amount \in 0..MaxAmount :
       /\ invoices' = Append(invoices, [Admin(amount) EXCEPT !.origin = "received"])
       /\ payments' = Append(payments, Pay(Len(invoices) + 1, amount, 0))
  /\ UNCHANGED <<price, reasked>>

RefundsOf(p) == {r \in DOMAIN payments : payments[r].of = p /\ payments[r].live}

Refunded(p) == 0 - MapThenSumSet(LAMBDA r : payments[r].amount, RefundsOf(p))

IsPayment(p) == payments[p].live /\ payments[p].amount > 0

\* RefundModal, "Record a refund": on the payment's invoice, of no more than is left of it.
\* Nothing goes on a cancelled invoice.
RefundByHand ==
  /\ Len(payments) < MaxPayments
  /\ \E p \in DOMAIN payments, amount \in 1..MaxAmount :
       /\ IsPayment(p) /\ amount <= payments[p].amount - Refunded(p)
       /\ Takes(payments[p].on) /\ reasked' = reasked \ {payments[p].on}
       /\ payments' = Append(payments, Pay(payments[p].on, -amount, p))
       /\ invoices' = Matched(invoices, payments', payments[p].on)
  /\ UNCHANGED price

\* An edit of a payment: another amount, no less than was refunded, or another invoice if
\* nothing was.  Both invoices follow it.
MatchedBoth(old, pays, p) == Matched(Matched(invoices, pays, old), pays, pays[p].on)

EditPayment ==
  /\ \E p \in DOMAIN payments, i \in DOMAIN invoices, amount \in 1..MaxAmount :
       /\ IsPayment(p) /\ amount >= Refunded(p)
       /\ i # payments[p].on => Refunded(p) = 0 /\ Takes(i)
       /\ reasked' = reasked \ {payments[p].on, i}
       /\ payments' = [payments EXCEPT ![p].on = i, ![p].amount = amount]
       /\ invoices' = MatchedBoth(payments[p].on, payments', p)
  /\ UNCHANGED price

\* Deleting one with no refunds left, or a refund.
DeletePayment ==
  /\ \E p \in DOMAIN payments :
       /\ payments[p].live /\ RefundsOf(p) = {} /\ reasked' = reasked \ {payments[p].on}
       /\ payments' = [payments EXCEPT ![p].live = FALSE]
       /\ invoices' = Matched(invoices, payments', payments[p].on)
  /\ UNCHANGED price

\* A refund comes back while its payment stands and that much of it is left.
MayRestore(p) ==
  /\ ~payments[p].live
  /\ payments[p].of # 0 =>
       LET of == payments[p].of IN payments[of].live
                                   /\ -payments[p].amount <= payments[of].amount - Refunded(of)

RestorePayment ==
  /\ \E p \in DOMAIN payments :
       /\ MayRestore(p) /\ reasked' = reasked \ {payments[p].on}
       /\ payments' = [payments EXCEPT ![p].live = TRUE]
       /\ invoices' = Matched(invoices, payments', payments[p].on)
  /\ UNCHANGED price

\* The registration or its event's prices change.
Reprice == price' \in (0..MaxAmount) \ {price} /\ UNCHANGED <<invoices, payments, reasked>>

-----------------------------------------------------------------------------
DeskInit == price \in 0..MaxAmount /\ invoices = <<>> /\ payments = <<>> /\ reasked = {}

DeskNext ==
  \/ BillBalance \/ BillOther \/ AskBalance \/ AskOther \/ Cancel \/ Reopen \/ DeleteInvoice
  \/ RecordOn \/ RecordAlone \/ RefundByHand \/ EditPayment \/ DeletePayment \/ RestorePayment
  \/ Reprice

-----------------------------------------------------------------------------
\* Unless an organizer set what it asks, a "Payment received" invoice asks for exactly what
\* its payments net to, through recording, moving, refunding, deleting and restoring them,
\* and is cancelled when none is left (match_received_invoice).
ReceivedFollows ==
  \A i \in Live \ reasked : invoices[i].origin = "received" =>
    /\ invoices[i].cancelled <=> ~\E p \in DOMAIN payments : payments[p].on = i /\ payments[p].live
    /\ ~invoices[i].cancelled => invoices[i].amount = AmountPaid(i)

\* Billing the balance, on a new invoice or on one that stands, asks for what is owed and no
\* more: the open invoices then ask for no more than the balance, or than they did before.
BillsWhatIsOwed ==
  [][BillBalance \/ AskBalance => Due' <= Max({Due, Balance'})]_deskVars

\* What a "Payment received" invoice's own rule promises of every one.
ReceivedNeverOwes ==
  \A i \in Live : invoices[i].origin = "received" /\ ~invoices[i].cancelled =>
    invoices[i].amount = AmountPaid(i)
=============================================================================
