--------------------------- MODULE MCRegistrations ---------------------------
(* Registrations, their money, lodging and mail, each part on a small        *)
(* instance.  The parts share no state here: a run checks several of them,  *)
(* and in each behaviour only the part it starts as moves.                  *)
EXTENDS GroupEmail, GroupSend, Refunds, TLC

CONSTANTS
  Parts,  \* the parts a run checks
  u1, u2, p1, p2, m1, m2, w1, w2,
  Uuids, MaxAnswers, MaxSent, MaxSaves, MaxMishaps,
  MaxCapacity, MaxChanges,
  Admins, MaxDeletes,
  MaxInvoices, MaxPayments, MaxAmount, MaxTotal

VARIABLES
  part,
  page, saver, saves, submit, pay, discards, stored, server, mishaps,
  nodes, capacity, lodging, form, offered, request, changes,
  deleteLodgings, deleteCamper, deleteRegistration, deleteCapture, deleteDialog,
  deleteRequest, deletes,
  price, invoices, payments, reasked,
  rules, errors,
  invitation, inviteDraft, inviteRegistration, invitePage, txn, list, inviteForm,
  inviteDialog,
  listKind, listRows, listCached, listForm, listSaving, listDialog, inUse, listChanges,
  priced, storedPrice, priceDialog, write, priceLock, crossed, writes

Above == [a |-> "r", b |-> "r", a1 |-> "a"]

Line(var, fixed, answer, charges, lines) ==
  [var |-> var, fixed |-> fixed, answer |-> answer, charges |-> charges, vars |-> lines]
\* A gift of 1, and 2 for each camper with what they answer and are charged; a code of 3 for
\* each camper, or of all but 1 of the total.
GiftLines == <<Line("gift", 1, FALSE, FALSE, {}), Line("total", 0, FALSE, FALSE, {"gift"})>>
TuitionLines == <<Line("tuition", 2, TRUE, FALSE, {}), Line("total", 0, FALSE, TRUE, {"tuition"})>>
EachCamper == [scope |-> "camper", line |-> Line("promo", 3, FALSE, FALSE, {})]
WholePrice == [scope |-> "registration", line |-> Line("promo", 0 - 1, FALSE, FALSE, {"total"})]
PromoCodes == {EachCamper, WholePrice}
RegisteredAs(code, answer, gift) ==
  [answer |-> [c \in {"c", "d"} |-> answer], live |-> [c \in {"c", "d"} |-> TRUE],
   charge |-> [c \in {"c", "d"} |-> 0], code |-> code,
   override |-> <<None, "gift">> :> gift @@ <<"c", "tuition">> :> None @@ <<"d", "tuition">> :> None]
PriceStarts == {RegisteredAs(None, 0 - 3, None), RegisteredAs(EachCamper, 0 - 3, None),
                RegisteredAs(WholePrice, 0, [amount |-> 4, version |-> 1])}

\* A form with a oneOf beside a field whose name begins the same, and eleven campers.
FormPaths == {<<"lodging">>, <<"lodging_notes">>, <<"c", "1", "age">>, <<"c", "10", "age">>}
SegmentBegins ==
  {<<s, s>> : s \in {"lodging", "lodging_notes", "c", "1", "10", "age"}} \cup
  {<<"lodging", "lodging_notes">>, <<"1", "10">>}
MessageMaps ==
  {<<>>, <<<<"*">>, "required">> :> "x" @@ <<<<"c", "*", "age">>, "required">> :> "y" @@
         <<<<"c", "*", "age">>, "pattern">> :> "y"}

Form == INSTANCE Register
Tree == INSTANCE LodgingTree WITH Nodes <- {"r", "a", "b", "a1"}, Root <- "r", Parent <-
        Above, Guests <- {"g1", "g2"}
Delete == INSTANCE Deletes WITH Lodgings <- {"n1", "n2"}, Under <- [n1 |-> None, n2 |->
          "n1"], MaxEdits <- 1, Campers <- {"g1"}, lodgings <- deleteLodgings, camper <-
          deleteCamper, registration <- deleteRegistration, capture <- deleteCapture, dialog
          <- deleteDialog, request <- deleteRequest
Desk == INSTANCE InvoiceDesk
Said == INSTANCE ErrorMessages WITH Paths <- FormPaths, Indexes <- {"1", "10"}, Begins <-
        SegmentBegins, Rules <- MessageMaps, MaxErrors <- 3
Invites == INSTANCE Invitations WITH Codes <- {"i"}, Registrants <- {"r1", "r2"}, Beds <- 1,
           draft <- inviteDraft, registration <- inviteRegistration, page <- invitePage,
           dialog <- inviteDialog
Listing == INSTANCE ListEdit WITH Ids <- {"x", "y"}, Texts <- {"s", "t"}, MaxChanges <- 2,
           kind <- listKind, rows <- listRows, cached <- listCached, form <- listForm,
           saving <- listSaving, dialog <- listDialog, changes <- listChanges
Priced == INSTANCE Pricing WITH CamperIds <- <<"c", "d">>, RegLogic <- GiftLines, CampLogic
          <- TuitionLines, Answers <- {0 - 3, 0}, Charges <- {0 - 4}, Amounts <- {0 - 2, 4},
          Codes <- PromoCodes, Desks <- {"d1", "d2"}, MaxWrites <- 2, rows <- priced, price
          <- storedPrice, dialog <- priceDialog, lock <- priceLock

registerState == <<page, saver, saves, submit, pay, discards, stored, server, mishaps>>
treeState == <<nodes, capacity, lodging, form, offered, request, changes>>
deleteState == <<deleteLodgings, deleteCamper, deleteRegistration, deleteCapture,
                 deleteDialog, deleteRequest, deletes>>
deskState == <<price, invoices, payments, reasked>>
errorState == <<rules, errors>>
inviteState == <<invitation, inviteDraft, inviteRegistration, invitePage, txn, list,
                 inviteForm, inviteDialog>>
listState == <<listKind, listRows, listCached, listForm, listSaving, listDialog, inUse,
               listChanges>>
priceState == <<priced, storedPrice, priceDialog, write, priceLock, crossed, writes>>
allState == <<part, registerState, treeState, deleteState, refundVars, deskState, sendVars,
          errorState, inviteState, listState, priceState, allVars>>

PartsInit ==
  /\ part \in Parts
  \* each part's initial states, and one of them while it isn't the part that moves
  /\ Form!RegisterInit
  /\ Tree!TreeInit
  /\ Delete!DeletesInit
  /\ part # "delete" => \A c \in DOMAIN deleteCamper : deleteCamper[c].lodging = "n2"
  /\ RefundInit
  /\ Desk!DeskInit
  /\ part # "desk" => price = 0
  /\ SendInit
  /\ part # "send" => \A k \in DOMAIN person : person[k].wanted /\ person[k].address = "x"
  /\ part = "send" => person[1].address = "x" /\ person[2].wanted  \* the two addresses are alike
  /\ Said!ErrorsInit
  /\ part # "errors" => rules = <<>>
  /\ Invites!InviteInit
  /\ Listing!ListInit
  /\ part # "list" => listKind = "promo"
  /\ part # "price" => priced = RegisteredAs(None, 0, None)
  /\ part = "price" => priced \in PriceStarts
  /\ Priced!PricingInit
  /\ BatchInit

PartsNext ==
  /\ UNCHANGED part
  /\ part # "register" => UNCHANGED registerState
  /\ part # "tree" => UNCHANGED treeState
  /\ part # "delete" => UNCHANGED deleteState
  /\ part # "refund" => UNCHANGED refundVars
  /\ part # "desk" => UNCHANGED deskState
  /\ part # "send" => UNCHANGED sendVars
  /\ part # "errors" => UNCHANGED errorState
  /\ part # "invite" => UNCHANGED inviteState
  /\ part # "list" => UNCHANGED listState
  /\ part # "price" => UNCHANGED priceState
  /\ part # "batch" => UNCHANGED allVars
  /\ CASE part = "register" -> Form!RegisterNext
       [] part = "tree" -> Tree!TreeNext
       [] part = "delete" -> Delete!DeletesNext
       [] part = "refund" -> RefundNext
       [] part = "desk" -> Desk!DeskNext
       [] part = "send" -> SendNext
       [] part = "errors" -> Said!ErrorsNext
       [] part = "invite" -> Invites!InviteNext
       [] part = "list" -> Listing!ListNext
       [] part = "price" -> Priced!PricingNext
       [] part = "batch" -> BatchNext

PartsSpec == PartsInit /\ [][PartsNext]_allState

-----------------------------------------------------------------------------
(* What the runs check *)

\* Every part's state is what its module says it is.
RegistrationsTypeOK ==
  /\ part \in Parts
  /\ part = "register" => Form!RegisterTypeOK
  /\ part = "tree" => Tree!TreeTypeOK
  /\ part = "delete" => Delete!DeletesTypeOK
  /\ part = "refund" => RefundsTypeOK
  /\ part = "desk" => Desk!DeskTypeOK
  /\ part = "send" => SendTypeOK
  /\ part = "errors" => Said!ErrorsTypeOK
  /\ part = "invite" => Invites!InviteTypeOK
  /\ part = "list" => Listing!ListTypeOK
  /\ part = "price" => Priced!PricingTypeOK
  /\ part = "batch" => BatchTypeOK

\* What a registrant is shown while they fill in the form is what the server comes to, no total
\* is below zero, and the stored price is what its records come to, once nobody is saving, unless
\* something was added or restored during another save (calculatePrice.ts, pricing.py, models.py
\* recalculate_server_pricing).
PricesHold ==
  part = "price" => Priced!EnginesAgree /\ Priced!TotalsHold /\ Priced!PricedUnlessCrossed

\* What a registrant is asked to pay for is what they sent, the form they fill in next can
\* still be saved, and a form that can't be sent says why; an invitation is redeemed once, and
\* no bed is given twice; the account its email is sent through exists, and logs in where its
\* password was entered for; what they are asked to pay is priced as the records say
\* (pages/register, components/form/errorMessages.ts, views.py registration_from_draft,
\* serializers.py EmailAccountSerializer).
RegistrationStands ==
  /\ part = "register" => Form!PaymentStepStands /\ Form!NextFormIsSaved
  /\ part = "errors" => Said!BlockedIsExplained
  /\ part = "invite" => Invites!RedeemedOnce /\ Invites!BedsHold
  /\ part = "list" => Listing!PasswordStaysPut /\ Listing!UsedStays
  /\ PricesHold

\* The stored price is what its records come to, once nobody is saving; two overrides set at once
\* break what views.py:234 says of every write that reprices a registration.
PriceIsCurrent == part = "price" => Priced!PriceIsCurrent

\* No two writes each hold a row the other needs (views.py:235); deleting an invitation and
\* completing a registration sent with it meanwhile do.
NoneEachWait == part = "invite" => Invites!NoneEachWait

\* An error is blanked as noise only for one at or under the same object; the code's
\* startsWith takes a sibling's too (errorMessages.ts:189).
BlankedOnlyWithin == part = "errors" => Said!BlankedOnlyWithin

\* The lodging tree counts everyone once, keeps a capacity nobody typed over, and leads a
\* registrant's choices to a unit (store/augmented, pages/admin/lodging).
TreeAddsUp ==
  [](part = "tree" => Tree!CountsAddUp) /\ Tree!SavingKeepsCapacity /\ Tree!ChoiceLeadsToUnit

\* Nobody is left in a lodging that is deleted, and a registration doesn't go out of sight
\* under a capture; an invitation isn't deleted that was redeemed unseen, nor a promo code or
\* an email account deleted or saved over that was changed unseen, nor an override
\* replaced unseen (deletes.py, PromoCodesSettings.tsx, EmailSettings.tsx, OverrideModal.tsx).
DeletesAreSafe ==
  /\ [](part = "delete" => Delete!NobodyInGone) /\ Delete!DeleteWaitsForCapture
  /\ Invites!DeletesKnown /\ Listing!ReplacesWhatWasShown /\ Priced!OverrideAsSeen

\* Deleting a lodging changes nothing of a camper but where they are; views.py:265 has every
\* write start from the record as committed (deletes.py unassign_campers).
DeleteKeepsEdits == Delete!DeleteKeepsEdits

\* A "Payment received" invoice follows its payments, and billing the balance asks for no
\* more than is owed (invoices.py match_received_invoice, RegistrationInvoices.tsx).
LedgerFollows == [](part = "desk" => Desk!ReceivedFollows) /\ Desk!BillsWhatIsOwed
===========================================================================
