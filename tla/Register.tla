------------------------------ MODULE Register ------------------------------
(***************************************************************************)
(* Registering for an event (pages/register): a form whose answers are     *)
(* saved to the server as a draft while they are filled in and kept in     *)
(* this browser; sent, it gets a payment step; a payment button completes  *)
(* the registration, or sends its registrant back to the form.  One tab is *)
(* modelled whole, and another that sends the same browser's form.         *)
(*                                                                         *)
(* Answers are numbered, and 0 is the empty form.  Time is left out: a     *)
(* save's interval and back-off delay it, and waiting for one is given up  *)
(* at any moment.  Prices and refusals are a choice of answer.  A request  *)
(* to send or to pay reaches the server before its page goes, or never;    *)
(* draft saves and discards outlive it.                                    *)
(***************************************************************************)
EXTENDS Naturals, FiniteSetsExt

CONSTANTS None, Uuids,
          MaxAnswers,   \* the answers told apart
          MaxSent,      \* bounds the submissions
          MaxSaves,     \* bounds the draft saves on their way at once
          MaxMishaps    \* bounds what goes wrong in one run

VARIABLES
  page,      \* the tab: its step, the registration store and what it offers
  saver,     \* useDraftSaving's state
  saves,     \* draft saves on their way
  submit,    \* the form being sent
  pay,       \* a payment button's request
  discards,  \* drafts being discarded
  stored,    \* this browser's localStorage
  server,    \* what the server has under each uuid
  mishaps    \* how many reloads, deletions, sendings from another tab and failed saves there have been

registerVars == <<page, saver, saves, submit, pay, discards, stored, server, mishaps>>

Idle == [at |-> "idle"]
Mishap == mishaps < MaxMishaps /\ mishaps' = mishaps + 1
Answers == 0..MaxAnswers
Sent == {None} \cup [uuid : Uuids, answers : Answers]
\* What the server has: nothing (any more), a draft being filled in, one sent (its `sub'-th sending),
\* a registration, or one deleted.  `by' is whether this tab sent it, and has heard so.
Row == [st : {"none", "gone", "draft", "sent", "registered", "deleted"}, answers : Answers,
        sub : 0..MaxSent, by : {"me", "unheard", "other"}]

RegisterTypeOK ==
  /\ page \in [step : {"registration", "payment", "finished"}, answers : Answers,
               uuid : Uuids \cup {None}, stands : Answers, reopen : 0..MaxSent,
               offered : Sent, starting : BOOLEAN, paid : {"no", "ordered", "unpaid", "stopped"}]
  /\ saver \in [changed : BOOLEAN, paused : BOOLEAN]
  /\ saves \subseteq [uuid : Uuids \cup {None}, answers : Answers, reopen : 0..MaxSent,
                      at : {"sent", "saved"}, got : Uuids \cup {None},
                      mine : BOOLEAN, heard : BOOLEAN, overdue : {"no", "sending", "starting again"}]
  /\ submit = Idle \/ submit \in [at : {"waiting", "sent"}, answers : Answers,
                                  uuid : Uuids \cup {None}]
  /\ pay \in {"no", "check", "order", "capture", "finish"}
  /\ discards \subseteq Uuids
  /\ stored \in [answers : Answers, draft : Uuids \cup {None}, sent : Sent]
  /\ server \in [Uuids -> Row]
  /\ mishaps \in 0..MaxMishaps

Nothing == [st |-> "none", answers |-> 0, sub |-> 0, by |-> "other"]

\* No two sendings have one number, as no two have one time.
Gone(row) == [Nothing EXCEPT !.st = "gone", !.sub = row.sub]

\* A page newly at `step', its saver and its store as they start.
FreshSaver == [changed |-> FALSE, paused |-> FALSE]
FreshPage(step, answers, sent) ==
  [step |-> step, answers |-> answers, uuid |-> None, stands |-> 0, reopen |-> 0,
   offered |-> IF step = "registration" THEN sent ELSE None, starting |-> FALSE, paid |-> "no"]

RegisterInit ==
  /\ page = FreshPage("registration", 0, None)
  /\ saver = FreshSaver /\ saves = {} /\ submit = Idle /\ pay = "no" /\ discards = {}
  /\ stored = [answers |-> 0, draft |-> None, sent |-> None]
  /\ server = [u \in Uuids |-> Nothing]
  /\ mishaps = 0

-----------------------------------------------------------------------------
(* The form and its draft *)

AtForm == page.step = "registration"
Mine == {s \in saves : s.mine}
\* A uuid nobody has used yet.
Fresh == {u \in Uuids : /\ server[u] = Nothing /\ u # stored.draft /\ u \notin discards
                        /\ \A s \in saves : u \notin {s.uuid, s.got}}

\* What is in the form changes, and is kept in localStorage.
Change ==
  /\ AtForm
  /\ page.answers < MaxAnswers
  /\ page' = [page EXCEPT !.answers = @ + 1]
  /\ stored' = [stored EXCEPT !.answers = page.answers + 1]
  /\ saver' = [saver EXCEPT !.changed = TRUE]
  /\ UNCHANGED <<saves, submit, pay, discards, server, mishaps>>

\* send: the first save starts the draft, under a uuid kept before it goes where the
\* page may choose one.
SaveDraft ==
  /\ AtForm /\ page.offered = None
  /\ saver.changed /\ ~saver.paused /\ Mine = {}
  /\ Cardinality(saves) < MaxSaves
  /\ \E uuid \in IF stored.draft = None /\ Fresh # {} THEN Fresh \cup {None} ELSE {stored.draft} :
       /\ stored' = [stored EXCEPT !.draft = uuid]
       /\ saves' = saves \cup {[uuid |-> uuid, answers |-> page.answers, reopen |-> page.reopen,
                               at |-> "sent", got |-> uuid, mine |-> TRUE, heard |-> TRUE, overdue |-> "no"]}
  /\ saver' = [saver EXCEPT !.changed = FALSE]
  /\ UNCHANGED <<page, submit, pay, discards, server, mishaps>>

Answered(s, t) == saves' = (saves \ {s}) \cup (IF s.heard THEN {t} ELSE {})

TakesAnySave(row, s) == TRUE                                   \* mutant
\* A sent draft takes no save but one reopening that very sending of it.
Takes(row, s) == row.st = "draft" \/ (row.st = "sent" /\ s.reopen = row.sub)
Filled(row, s) ==
  IF row.st = "sent" /\ row.answers = s.answers THEN row
  ELSE [row EXCEPT !.st = "draft", !.answers = s.answers]

Known(uuid) == uuid # None /\ server[uuid].st \notin {"none", "gone"}

\* RegistrationDraftView.post
SaveArrives(s) ==
  /\ s.at = "sent"
  /\ \/ /\ Known(s.uuid)
        /\ server' = IF Takes(server[s.uuid], s)
                     THEN [server EXCEPT ![s.uuid] = Filled(@, s)] ELSE server
        /\ Answered(s, [s EXCEPT !.at = "saved"])
     \/ /\ ~Known(s.uuid)
        /\ \E got \in IF s.uuid = None THEN Fresh ELSE {s.uuid} :
             /\ server' = [server EXCEPT ![got].st = "draft", ![got].answers = s.answers]
             /\ Answered(s, [s EXCEPT !.at = "saved", !.got = got])
  /\ UNCHANGED <<page, saver, submit, pay, discards, stored, mishaps>>

\* Refused (too many drafts or requests), or it or its answer is lost.
SaveFails(s) ==
  /\ saves' = saves \ {s}
  /\ saver' = [saver EXCEPT !.changed = @ \/ s.mine]
  /\ Mishap
  /\ UNCHANGED <<page, submit, pay, discards, stored, server>>

\* A draft brought back after starting again, or begun under another uuid once given
\* up on, is discarded.
Discarded(s) ==
  IF s.overdue = "starting again" \/ (s.overdue = "sending" /\ s.got # s.uuid) THEN {s.got} ELSE {}

SaveHeard(s) ==
  /\ s.at = "saved"
  /\ saves' = saves \ {s}
  /\ stored' = IF s.overdue = "no" THEN [stored EXCEPT !.draft = s.got] ELSE stored
  /\ discards' = discards \cup Discarded(s)
  /\ UNCHANGED <<page, saver, submit, pay, server, mishaps>>

\* discardDraft: whoever holds a draft's uuid may delete it.
DiscardArrives(u) ==
  /\ discards' = discards \ {u}
  /\ server' = IF server[u].st \in {"draft", "sent"} THEN [server EXCEPT ![u] = Gone(@)] ELSE server
  /\ UNCHANGED <<page, saver, saves, submit, pay, stored, mishaps>>

\* Saves no longer awaited: those of the page's saver, for `why'.
GivenUp(why) == {IF s.mine THEN [s EXCEPT !.overdue = why] ELSE s : s \in saves}

-----------------------------------------------------------------------------
(* Sending the form *)

\* handleSubmit: what is in the form now is sent, after any save under way.
Press ==
  /\ AtForm /\ submit = Idle /\ page.answers # 0
  /\ submit' = [at |-> "waiting", answers |-> page.answers, uuid |-> None]
  /\ saver' = [saver EXCEPT !.paused = TRUE, !.changed = FALSE]
  /\ UNCHANGED <<page, saves, pay, discards, stored, server, mishaps>>

\* The save settled, or was waited for long enough.
SendForm ==
  /\ submit.at = "waiting"
  /\ submit' = [submit EXCEPT !.at = "sent", !.uuid = stored.draft]
  /\ saves' = GivenUp("sending")
  /\ UNCHANGED <<page, saver, pay, discards, stored, server, mishaps>>

NextSub == 1 + Max({server[u].sub : u \in Uuids})

\* The uuid a sending is saved under: its draft's, unless a registration has it.
Under(uuid) ==
  IF uuid # None /\ server[uuid].st \in {"none", "gone", "draft", "sent"} THEN {uuid} ELSE Fresh

SavesSending(u, answers, by) ==
  server' = [server EXCEPT ![u] = [st |-> "sent", answers |-> answers, sub |-> NextSub, by |-> by]]

\* The form's page goes: its saves are no longer its own, though they are still heard.
Left == {[s EXCEPT !.mine = FALSE] : s \in saves}

\* The `registration' step, whose payment step is kept and shown.
FormTaken ==
  /\ submit.at = "sent" /\ NextSub <= MaxSent
  /\ \E u \in Under(submit.uuid) :
       /\ SavesSending(u, submit.answers, "me")
       /\ stored' = [stored EXCEPT !.draft = u, !.sent = [uuid |-> u, answers |-> submit.answers]]
       /\ page' = [page EXCEPT !.step = "payment", !.uuid = u, !.stands = submit.answers,
                               !.reopen = 0, !.offered = None, !.starting = FALSE, !.paid = "no"]
  /\ saver' = FreshSaver /\ saves' = Left
  /\ submit' = Idle
  /\ UNCHANGED <<pay, discards, mishaps>>

\* Refused, or taken with its answer lost: saving goes on.
FormFails ==
  /\ submit.at = "sent"
  /\ \/ UNCHANGED <<server, mishaps>>
     \/ /\ NextSub <= MaxSent /\ Mishap
        /\ \E u \in Under(submit.uuid) : SavesSending(u, submit.answers, "unheard")
  /\ submit' = Idle
  /\ saver' = [changed |-> TRUE, paused |-> FALSE]
  /\ UNCHANGED <<page, saves, pay, discards, stored>>

\* Someone else's tab of the same browser sends the form it shares the draft of.
OtherTabSends ==
  /\ NextSub <= MaxSent
  /\ \E u \in Under(stored.draft), answers \in 1..MaxAnswers :
       /\ SavesSending(u, answers, "other")
       /\ stored' = [stored EXCEPT !.draft = u, !.sent = [uuid |-> u, answers |-> answers]]
  /\ Mishap
  /\ UNCHANGED <<page, saver, saves, submit, pay, discards>>

-----------------------------------------------------------------------------
(* A registration already sent from this browser *)

Resumed(sent) ==
  [page EXCEPT !.step = "payment", !.uuid = sent.uuid, !.answers = sent.answers, !.stands = sent.answers,
               !.reopen = 0, !.offered = None, !.starting = FALSE, !.paid = "no"]

ContinueSent ==
  /\ AtForm /\ page.offered # None /\ submit = Idle
  /\ page' = Resumed(page.offered)
  /\ saver' = FreshSaver /\ saves' = Left
  /\ UNCHANGED <<submit, pay, discards, stored, server, mishaps>>

StartOver ==
  /\ AtForm /\ page.offered # None /\ ~page.starting /\ submit = Idle
  /\ page' = [page EXCEPT !.starting = TRUE]
  /\ saver' = [saver EXCEPT !.changed = FALSE]
  /\ UNCHANGED <<saves, submit, pay, discards, stored, server, mishaps>>

\* Any save under way has settled or been given up on: everything is forgotten.
StartedOver ==
  /\ AtForm /\ page.starting
  /\ saves' = GivenUp("starting again")
  /\ discards' = discards \cup {IF stored.draft # None THEN stored.draft ELSE page.offered.uuid}
  /\ stored' = [answers |-> 0, draft |-> None, sent |-> None]
  /\ page' = FreshPage("registration", 0, None)
  /\ UNCHANGED <<saver, submit, pay, server, mishaps>>

\* PaymentStep with no payment step: resumed from what was stored, or back to the form.
ResumePayment ==
  /\ page.step = "payment" /\ page.uuid = None
  /\ page' = IF stored.sent # None
             THEN Resumed(stored.sent)
             ELSE [page EXCEPT !.step = "registration", !.offered = stored.sent]
  /\ UNCHANGED <<saver, saves, submit, pay, discards, stored, server, mishaps>>

\* Back from the payment step: what was sent is on offer.
BackToForm ==
  /\ page.step = "payment" /\ page.uuid # None
  /\ page' = [page EXCEPT !.step = "registration", !.offered = stored.sent, !.paid = "no"]
  /\ pay' = "no"
  /\ UNCHANGED <<saver, saves, submit, discards, stored, server, mishaps>>

\* Reloaded, or closed and come back to.
Reload ==
  /\ page' = FreshPage(IF page.step = "finished" THEN "registration" ELSE page.step, stored.answers, stored.sent)
  /\ saver' = FreshSaver
  /\ saves' = {[s EXCEPT !.mine = FALSE, !.heard = FALSE] : s \in {r \in saves : r.at = "sent"}}
  /\ submit' = Idle /\ pay' = "no"
  /\ Mishap
  /\ UNCHANGED <<discards, stored, server>>

-----------------------------------------------------------------------------
(* Paying *)

AtPayment == page.step = "payment" /\ page.uuid # None /\ pay = "no"

Ask(kind) ==
  /\ pay' = kind
  /\ UNCHANGED <<page, saver, saves, submit, discards, stored, server, mishaps>>

\* By check, or nothing to pay; PayPal's button; the order it made, once approved; and
\* finishing without paying now.
PayByCheck == AtPayment /\ page.paid # "stopped" /\ Ask("check")
CreateOrder == AtPayment /\ page.paid # "stopped" /\ Ask("order")
Capture == AtPayment /\ page.paid \in {"ordered", "unpaid"} /\ Ask("capture")
FinishNow == AtPayment /\ page.paid \in {"unpaid", "stopped"} /\ Ask("finish")

\* What the server has under the uuid its page shows.
Named == server[page.uuid]
Completes == pay \in {"check", "order"} /\ Named.st = "sent"
Registered == [server EXCEPT ![page.uuid].st = "registered"]

\* Forgotten and back to the form: the one stored, unless another tab's is there since.
Forget(reopen) ==
  LET kept == IF stored.sent # None /\ stored.sent.uuid = page.uuid THEN None ELSE stored.sent IN
  /\ stored' = [stored EXCEPT !.sent = kept]
  /\ page' = [FreshPage("registration", page.answers, kept) EXCEPT !.reopen = reopen]

Answer == pay # "no" /\ pay' = "no" /\ UNCHANGED <<saver, saves, submit, discards, mishaps>>

\* The registration is complete: the confirmation page forgets everything.
PayDone ==
  /\ Answer
  /\ pay # "order" /\ (Completes \/ Named.st = "registered")
  /\ server' = Registered
  /\ stored' = [answers |-> 0, draft |-> None, sent |-> None]
  /\ page' = FreshPage("finished", 0, None)

\* PayPal's order is made, the registration complete and unpaid.
OrderMade ==
  /\ Answer
  /\ pay = "order" /\ (Completes \/ Named.st = "registered")
  /\ server' = Registered
  /\ page' = [page EXCEPT !.paid = IF @ = "no" THEN "ordered" ELSE @]
  /\ UNCHANGED stored

\* Its lodging filled up before it was completed: nothing is saved, and its registrant chooses again.
LodgingTaken ==
  /\ Answer
  /\ Completes
  /\ Forget(Named.sub)
  /\ UNCHANGED server

RegistrationGone ==
  /\ Answer
  /\ Named.st \notin {"sent", "registered"}
  /\ Forget(0)
  /\ UNCHANGED server

\* PayPal's answer was lost, the payment is processing, or the invoice is cancelled:
\* nothing more may be paid from this page.
PayStopped ==
  /\ Answer
  /\ pay # "finish" /\ Named.st = "registered"
  /\ page' = [page EXCEPT !.paid = "stopped"]
  /\ UNCHANGED <<stored, server>>

\* Refused (what is due has changed, PayPal declined), or its answer is lost, the
\* registration being complete or not.
PayRefused ==
  /\ Answer
  /\ Named.st \in {"sent", "registered"}
  /\ server' \in {server} \cup (IF Completes THEN {Registered} ELSE {})
  /\ page' = [page EXCEPT !.paid = IF pay = "capture" THEN "unpaid" ELSE @]
  /\ UNCHANGED stored

\* PayPal's window is closed without paying, after its order completed the registration.
CancelPayPal ==
  /\ AtPayment /\ page.paid = "ordered"
  /\ page' = [page EXCEPT !.paid = "unpaid"]
  /\ UNCHANGED <<saver, saves, submit, pay, discards, stored, server, mishaps>>

\* An organizer deletes it, or the nightly clean-up purges a draft.
Deleted(u) ==
  /\ server[u].st \in {"draft", "sent", "registered"}
  /\ server' = [server EXCEPT ![u] = IF @.st = "registered" THEN [@ EXCEPT !.st = "deleted"] ELSE Gone(@)]
  /\ Mishap
  /\ UNCHANGED <<page, saver, saves, submit, pay, discards, stored>>

RegisterNext ==
  \/ Change
  \/ SaveDraft
  \/ \E s \in saves : SaveArrives(s) \/ SaveFails(s) \/ SaveHeard(s)
  \/ \E u \in Uuids : Deleted(u)
  \/ \E u \in discards : DiscardArrives(u)
  \/ Press \/ SendForm \/ FormTaken \/ FormFails \/ OtherTabSends
  \/ ContinueSent \/ StartOver \/ StartedOver \/ ResumePayment \/ BackToForm \/ Reload
  \/ PayByCheck \/ CreateOrder \/ Capture \/ FinishNow \/ CancelPayPal
  \/ PayDone \/ OrderMade \/ LodgingTaken \/ RegistrationGone \/ PayStopped \/ PayRefused

\* Waiting for a save ends, requests are answered and answers handled.
RegisterFairness ==
  WF_registerVars(SendForm) /\ WF_registerVars(FormTaken \/ FormFails)

RegisterSpec == RegisterInit /\ [][RegisterNext]_registerVars /\ RegisterFairness

-----------------------------------------------------------------------------
(* Properties *)

\* What a payment page asks to be paid for stays what was sent for it (unless it was sent
\* again by another tab, or without an answer): no draft save on its way when the form
\* went, and none reopening an earlier sending, changes it or turns it back into a draft.
PaymentStepStands ==
  page.step = "payment" /\ page.uuid # None /\ server[page.uuid].by = "me"
    => /\ server[page.uuid].st # "draft"
       /\ server[page.uuid].st \in {"sent", "registered"} => server[page.uuid].answers = page.stands

\* pages/register/PaymentStep says it "shows a read-only review of the submitted
\* registration": this says what the review shows is what was sent.
ReviewShowsSent == page.step = "payment" /\ page.uuid # None => page.answers = page.stands

\* Once a registration is finished, the browser forgets it: a form starting afresh never
\* goes on saving under the uuid of a completed registration, which would take none of it.
NextFormIsSaved ==
  page.step # "payment" /\ stored.sent = None /\ stored.draft # None
    => server[stored.draft].st # "registered"

\* A save under way never holds up the form: pressing the button ends in an answer.
FormIsAnswered == submit.at = "waiting" ~> submit = Idle
=============================================================================
