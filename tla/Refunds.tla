------------------------------ MODULE Refunds ------------------------------
(***************************************************************************)
(* Refunding an invoice's PayPal payments: the registrar's refund dialog   *)
(* (RefundModal, opened from an InvoiceCard), the server's refund through  *)
(* PayPal and by hand (invoices.py, serializers.py), and what PayPal gives *)
(* back.  A dialog makes one request id for each payment it refunds, so a  *)
(* retry gets the first refund again; the server holds the payment's row   *)
(* from its check of what is left until the refund is recorded.  PayPal's  *)
(* answers are lost or come to nothing, the server dies with money moved,  *)
(* answers to the browser are lost, and others record, change, delete and  *)
(* restore refunds meanwhile.                                              *)
(*                                                                         *)
(* Every payment is of Amount and was captured by PayPal.  A request id is *)
(* the number it was made as.  Two requests alike on their way at once are *)
(* one.  A refund's reason, date and type change nothing here.             *)
(***************************************************************************)
EXTENDS Integers, Sequences, FiniteSetsExt

CONSTANTS Nil, Payments, Amount,
          MaxOpenings,   \* bounds the times the dialog opens
          MaxRequests,   \* bounds the request ids made
          MaxAsks,       \* bounds the requests on their way at once
          MaxRefunds     \* bounds the refunds recorded

ASSUME RefundAssumption ==
  /\ Amount \in Nat /\ MaxOpenings \in Nat /\ MaxRequests \in Nat /\ MaxRefunds \in Nat
  /\ Nil \notin Payments

VARIABLES
  live,      \* which payments are not deleted
  refunds,   \* the refunds recorded, in order; `by' is the request it was made with, 0 by hand
  given,     \* what PayPal gave back for each request, or Nil
  late,      \* requests PayPal has, whose answer nobody waits for
  asks,      \* requests to the server, and how far each is
  made,      \* for whom each request id was made: which opening, which payment
  dialog,    \* the open dialog, or Nil
  openings,  \* how often the dialog was opened
  mishap,    \* whether an answer of PayPal's was lost or the server died: once at most
  told       \* requests the event was emailed about, or the server died over

refundVars == <<live, refunds, given, late, asks, made, dialog, openings, mishap, told>>

Requests == 1..MaxRequests
Refund == [of : Payments \cup {Nil}, amount : 1..Amount, by : 0..MaxRequests, live : BOOLEAN]
Ask == [req : Requests, of : Payments, amount : 1..Amount,
        at : {"sent", "asked", "gave", "refused"}]
Dialog == [opening : 1..MaxOpenings, target : Payments \cup {Nil},
           ids : [Payments -> 0..MaxRequests], waits : 0..MaxRequests]

RefundsTypeOK ==
  /\ live \in SUBSET Payments
  /\ Len(refunds) <= MaxRefunds /\ \A i \in DOMAIN refunds : refunds[i] \in Refund
  /\ given \in [Requests -> {Nil} \cup [of : Payments, amount : 1..Amount]]
  /\ late \subseteq [req : Requests, of : Payments, amount : 1..Amount]
  /\ asks \subseteq Ask
  /\ Len(made) <= MaxRequests
  /\ \A r \in DOMAIN made : made[r] \in [opening : 1..MaxOpenings, payment : Payments]
  /\ dialog \in {Nil} \cup Dialog
  /\ openings \in 0..MaxOpenings /\ mishap \in BOOLEAN
  /\ told \subseteq Requests

-----------------------------------------------------------------------------
(* What is left of a payment *)

\* What a list of amounts comes to, by its first, its first two, and so on.
Running(amounts) ==
  LET upto[n \in 0..Len(amounts)] == IF n = 0 THEN 0 ELSE upto[n - 1] + amounts[n]
  IN upto

Total(amounts) == Running(amounts)[Len(amounts)]

\* refunded: what its live refunds give back.
Refunded(p) == Total([i \in DOMAIN refunds |->
                        IF refunds[i].live /\ refunds[i].of = p THEN refunds[i].amount ELSE 0])

Refundable(p) == Max({0, Amount - Refunded(p)})

\* What PayPal gave back of it.
GivenBack(p) == Total([r \in Requests |->
                         IF given[r] # Nil /\ given[r].of = p THEN given[r].amount ELSE 0])

\* lock_payment: who holds its row until their refund is recorded or refused.
Held(p) == \E a \in asks : a.of = p /\ a.at # "sent"

RecordedBy(r) == {i \in DOMAIN refunds : refunds[i].by = r}

-----------------------------------------------------------------------------
(* The dialog.  The payments it offers, and how much of them, come from    *)
(* what the page last fetched, which may be old.  The amount, the way and  *)
(* the payment it says when a button is pressed are what matter.           *)

\* The dialog starts afresh, with no request ids: for one payment, or ("Refund the
\* difference") for any of the invoice's.
OpenRefund ==
  /\ dialog = Nil /\ openings < MaxOpenings
  /\ openings' = openings + 1
  /\ dialog' \in [opening : {openings + 1}, target : Payments \cup {Nil},
                  ids : {[p \in Payments |-> 0]}, waits : {0}]
  /\ UNCHANGED <<live, refunds, given, late, asks, made, mishap, told>>

InDialog == dialog # Nil /\ dialog.waits = 0

Source(p) == dialog.target \in {Nil, p}

\* The request id of the payment in this dialog, made if it has none yet.
RequestForEachPress(p) == Len(made) + 1                                    \* mutant
RequestFor(p) == IF dialog.ids[p] # 0 THEN dialog.ids[p] ELSE Len(made) + 1

\* save, through PayPal.
PressRefund ==
  /\ InDialog
  /\ \E p \in Payments, amount \in 1..Amount :
       LET r == RequestFor(p)
       IN /\ Source(p) /\ r <= MaxRequests /\ Cardinality(asks) < MaxAsks
          /\ made' = IF r > Len(made)
                       THEN Append(made, [opening |-> dialog.opening, payment |-> p]) ELSE made
          /\ asks' = asks \cup {[req |-> r, of |-> p, amount |-> amount, at |-> "sent"]}
          /\ dialog' = [dialog EXCEPT !.ids[p] = r, !.waits = r]
  /\ UNCHANGED <<live, refunds, given, late, openings, mishap, told>>

\* Its answer never comes: the dialog shows an error, and can be tried again.
AnswerNeverComes ==
  /\ dialog # Nil /\ dialog.waits # 0
  /\ dialog' = [dialog EXCEPT !.waits = 0]
  /\ UNCHANGED <<live, refunds, given, late, asks, made, openings, mishap, told>>

Close ==
  /\ dialog # Nil
  /\ dialog' = Nil
  /\ UNCHANGED <<live, refunds, given, late, asks, made, openings, mishap, told>>

\* The dialog that asked hears: done closes it, an error leaves it to be tried again.
Hears(d, r, done) ==
  IF d # Nil /\ d.waits = r
    THEN IF done THEN Nil ELSE [d EXCEPT !.waits = 0]
    ELSE d

-----------------------------------------------------------------------------
(* The server: a refund through PayPal *)

\* A retry of a refund already recorded, of its amount, gets it back.
AnswersRetry(a) == RecordedBy(a.req) # {}

Retried(a) == \E i \in RecordedBy(a.req) : refunds[i].of = a.of /\ refunds[i].amount = a.amount

\* What the server refuses before PayPal is asked.
RefusedFirst(a) == a.of \notin live \/ (~AnswersRetry(a) /\ a.amount > Refundable(a.of))

\* _refund, up to asking PayPal, with the payment's row held from here on.
StartRefund ==
  /\ \E a \in {x \in asks : x.at = "sent"} :
       /\ ~Held(a.of)
       /\ IF RefusedFirst(a) \/ AnswersRetry(a)
            THEN /\ asks' = asks \ {a}
                 /\ dialog' = Hears(dialog, a.req, ~RefusedFirst(a) /\ Retried(a))
            ELSE /\ asks' = (asks \ {a}) \cup {[a EXCEPT !.at = "asked"]}
                 /\ UNCHANGED dialog
  /\ UNCHANGED <<live, refunds, given, late, made, openings, mishap, told>>

\* PayPal gives back what a request id asked for once, and never more than it captured.
PayPalGives(r, p, amount) ==
  IF given[r] # Nil THEN given
  ELSE IF GivenBack(p) + amount <= Amount THEN [given EXCEPT ![r] = [of |-> p, amount |-> amount]]
  ELSE given

PayPalAnswers ==
  /\ \E a \in {x \in asks : x.at = "asked"} :
       LET after == PayPalGives(a.req, a.of, a.amount)
       IN /\ given' = after
          /\ asks' = (asks \ {a})
               \cup {[a EXCEPT !.at = IF after[a.req] = Nil THEN "refused" ELSE "gave"]}
  /\ UNCHANGED <<live, refunds, late, made, dialog, openings, mishap, told>>

\* PayPal's answer is lost, the request with it, on its way there or done: the outcome is
\* unknown, and the event is emailed.
PayPalUnheard ==
  /\ \E a \in {x \in asks : x.at \in {"asked", "gave"}} :
       /\ asks' = asks \ {a}
       /\ late' \in {late, late \cup {[req |-> a.req, of |-> a.of, amount |-> a.amount]}}
       /\ told' = told \cup {a.req}
       /\ dialog' = Hears(dialog, a.req, FALSE)
  /\ ~mishap /\ mishap' = TRUE
  /\ UNCHANGED <<live, refunds, given, made, openings>>

\* PayPal acts on a request after its asker gave up.
PayPalActsLate ==
  /\ \E l \in late : given' = PayPalGives(l.req, l.of, l.amount) /\ late' = late \ {l}
  /\ UNCHANGED <<live, refunds, asks, made, dialog, openings, mishap, told>>

\* record_refund: what PayPal says it gave back, unless it cannot be this payment's refund.
Fits(a) == given[a.req].of = a.of /\ given[a.req].amount <= Refundable(a.of)

RecordRefund ==
  /\ Len(refunds) < MaxRefunds
  /\ \E a \in {x \in asks : x.at = "gave"} :
       /\ asks' = asks \ {a}
       /\ IF Fits(a)
            THEN /\ refunds' = Append(refunds, [of |-> a.of, amount |-> given[a.req].amount,
                                                by |-> a.req, live |-> TRUE])
                 /\ dialog' \in {dialog, Hears(dialog, a.req, TRUE)}
                 /\ UNCHANGED told
            ELSE /\ told' = told \cup {a.req}
                 /\ dialog' = Hears(dialog, a.req, FALSE)
                 /\ UNCHANGED refunds
  /\ UNCHANGED <<live, given, late, made, openings, mishap>>

PayPalRefuses ==
  /\ \E a \in {x \in asks : x.at = "refused"} :
       asks' = asks \ {a} /\ dialog' = Hears(dialog, a.req, FALSE)
  /\ UNCHANGED <<live, refunds, given, late, made, openings, mishap, told>>

\* The server dies before its answer is recorded: the row is let go, and nobody is told.
ServerDies ==
  /\ \E a \in {x \in asks : x.at # "sent"} : asks' = asks \ {a} /\ told' = told \cup {a.req}
  /\ ~mishap /\ mishap' = TRUE
  /\ UNCHANGED <<live, refunds, given, late, made, dialog, openings>>

-----------------------------------------------------------------------------
(* The server: refunds by hand, deletes and restores *)

\* A refund by hand waits for the payment's row, and is for no more than is left.
MayRecord(p, amount) == p = Nil \/ (p \in live /\ ~Held(p) /\ amount <= Refundable(p))

ByHand(p, amount) == [of |-> p, amount |-> amount, by |-> 0, live |-> TRUE]

\* save, recording one; the dialog closes if its answer comes.
PressRecord ==
  /\ InDialog /\ Len(refunds) < MaxRefunds
  /\ \E p \in Payments \cup {Nil}, amount \in 1..Amount :
       /\ p = Nil => dialog.target = Nil
       /\ p # Nil => Source(p)
       /\ MayRecord(p, amount)
       /\ refunds' = Append(refunds, ByHand(p, amount))
       /\ dialog' \in {dialog, Nil}
  /\ UNCHANGED <<live, given, late, asks, made, openings, mishap, told>>

OtherRecords ==
  /\ Len(refunds) < MaxRefunds
  /\ \E p \in Payments, a \in 1..Amount :
       MayRecord(p, a) /\ refunds' = Append(refunds, ByHand(p, a))
  /\ UNCHANGED <<live, given, late, asks, made, dialog, openings, mishap, told>>

\* An edit of a refund made by hand; one of PayPal's keeps its amount.
EditRefund ==
  /\ \E i \in DOMAIN refunds, a \in 1..Amount :
       /\ refunds[i].live /\ refunds[i].by = 0 /\ refunds[i].of # Nil
       /\ ~Held(refunds[i].of)
       /\ a <= Refundable(refunds[i].of) + refunds[i].amount
       /\ refunds' = [refunds EXCEPT ![i].amount = a]
  /\ UNCHANGED <<live, given, late, asks, made, dialog, openings, mishap, told>>

\* Deleting the record of a refund undoes no refund.
DeleteRefund ==
  /\ \E i \in DOMAIN refunds : refunds[i].live /\ refunds' = [refunds EXCEPT ![i].live = FALSE]
  /\ UNCHANGED <<live, given, late, asks, made, dialog, openings, mishap, told>>

RestoreRefund ==
  /\ \E i \in DOMAIN refunds :
       /\ ~refunds[i].live
       /\ refunds[i].of = Nil \/ MayRecord(refunds[i].of, refunds[i].amount)
       /\ refunds' = [refunds EXCEPT ![i].live = TRUE]
  /\ UNCHANGED <<live, given, late, asks, made, dialog, openings, mishap, told>>

\* A payment goes once none of its refunds is left, its row held.
MayDelete(p) == p \in live /\ ~Held(p) /\ Refunded(p) = 0

DeletePayment ==
  /\ \E p \in Payments : MayDelete(p) /\ live' = live \ {p}
  /\ UNCHANGED <<refunds, given, late, asks, made, dialog, openings, mishap, told>>

RestorePayment ==
  /\ \E p \in Payments \ live : live' = live \cup {p}
  /\ UNCHANGED <<refunds, given, late, asks, made, dialog, openings, mishap, told>>

-----------------------------------------------------------------------------
RefundInit ==
  /\ live = Payments /\ refunds = <<>> /\ given = [r \in Requests |-> Nil]
  /\ late = {} /\ asks = {} /\ made = <<>> /\ dialog = Nil
  /\ openings = 0 /\ mishap = FALSE /\ told = {}

RefundNext ==
  \/ OpenRefund \/ PressRefund \/ PressRecord \/ AnswerNeverComes \/ Close
  \/ StartRefund \/ PayPalAnswers \/ PayPalUnheard \/ PayPalActsLate \/ RecordRefund
  \/ PayPalRefuses \/ ServerDies
  \/ OtherRecords \/ EditRefund \/ DeleteRefund \/ RestoreRefund \/ DeletePayment \/ RestorePayment

RefundSpec == RefundInit /\ [][RefundNext]_refundVars

-----------------------------------------------------------------------------
\* However often a dialog's refund of a payment is tried again, its answers lost, PayPal
\* gives the money back for it once (RefundModal.requestIds).
DialogRefundsOnce ==
  \A r, s \in DOMAIN made : r # s /\ given[r] # Nil /\ given[s] # Nil => made[r] # made[s]

\* The ledger never gives back more of a payment than was paid, nor of one that is deleted,
\* whoever records, edits and restores refunds while others ask PayPal (lock_payment).
LedgerWithinPaid ==
  \A p \in Payments : Refunded(p) <= IF p \in live THEN Amount ELSE 0

\* Money PayPal gave back is on the ledger, or in hand, or someone was emailed about it,
\* unless the server died over it; with no answer lost and no death, it is on the ledger.
GivenIsKnown ==
  \A r \in {x \in Requests : given[x] # Nil} :
    \/ RecordedBy(r) # {} \/ \E a \in asks : a.req = r /\ a.at = "gave"
    \/ mishap /\ r \in told

\* A refund tried again gives its money back once, no payment is refunded beyond what was
\* paid, and money given back is known of (RefundModal.tsx, invoices.py).
RefundsFit == DialogRefundsOnce /\ LedgerWithinPaid /\ GivenIsKnown
=============================================================================
