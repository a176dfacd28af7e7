------------------------------ MODULE Deletes ------------------------------
(***************************************************************************)
(* Deleting by a plan (server deletes.py and views.py; components/         *)
(* ConfirmDelete, store/deletes, DeletedPanel): a confirmation shows what  *)
(* the server says a delete would do, and the delete works that out again, *)
(* carries it out, or answers what is in its way.  A lodging goes with     *)
(* those under it, and its campers are left unassigned; campers and their  *)
(* registration are only marked deleted, and can be restored.              *)
(*                                                                         *)
(* One registration, whose invoice PayPal may be capturing.  An edit of a  *)
(* camper is one step: it holds the registration throughout.  `edits'      *)
(* counts a camper's, other than where they are.                           *)
(***************************************************************************)
EXTENDS Naturals, FiniteSets

CONSTANTS None, Admins, Campers, Lodgings, Under,
          MaxEdits,    \* bounds the edits of each camper
          MaxDeletes   \* bounds the confirmations opened and the restores

VARIABLES
  lodgings,      \* the event's lodging
  camper,        \* each camper's row
  registration,  \* the registration's: marked deleted, and its version
  capture,       \* the payer's request, and the mark of a capture on the invoice
  dialog,        \* each Admin's confirmation
  request,       \* the delete each has asked for
  deletes

deleteVars == <<lodgings, camper, registration, capture, dialog, request, deletes>>

Whole == "registration"
Targets == Lodgings \cup Campers \cup {Whole}
Row == [lodging : Lodgings \cup {None}, stay : BOOLEAN, edits : 0..MaxEdits, deleted : BOOLEAN]
NoDialog == [target |-> None, at |-> "closed"]
NoDelete == [target |-> None, at |-> "none", read |-> <<>>]

DeletesTypeOK ==
  /\ lodgings \subseteq Lodgings
  /\ camper \in [Campers -> Row]
  /\ registration \in [deleted : BOOLEAN, changed : BOOLEAN]
  /\ capture \in [payer : {"away", "paying"}, mark : BOOLEAN]
  /\ dialog \in [Admins -> [target : Targets \cup {None}, at : {"closed", "checking", "offered", "blocked", "failed"}]]
  /\ \A a \in Admins :
       \/ request[a] = NoDelete
       \/ /\ request[a].target \in Targets /\ request[a].at \in {"sent", "planned"}
          /\ request[a].read = <<>> \/ \E S \in SUBSET Campers : request[a].read \in [S -> Row]
  /\ deletes \in 0..MaxDeletes

-----------------------------------------------------------------------------
(* Plans *)

\* A lodging and those under it go together.
GoesWith[n \in Lodgings] == {n} \cup UNION {GoesWith[m] : m \in {k \in Lodgings : Under[k] = n}}

Campers_in(n) == {c \in Campers : camper[c].lodging \in GoesWith[n]}

Visible(c) == ~camper[c].deleted /\ ~registration.deleted

Exists(x) ==
  CASE x \in Lodgings -> x \in lodgings
    [] x \in Campers -> Visible(x)
    [] x = Whole -> ~registration.deleted

\* What stops a delete: PayPal may yet record a payment.
Blocked(x) == x = Whole /\ capture.mark

\* unassign_campers: the rows of those in it, deleted ones too, as they are read.
Planned(x) == IF x \in Lodgings THEN [c \in Campers_in(x) |-> camper[c]] ELSE <<>>

DeletesInit ==
  /\ lodgings = Lodgings
  /\ camper \in [Campers -> [lodging : Lodgings, stay : {TRUE}, edits : {0}, deleted : {FALSE}]]
  /\ registration = [deleted |-> FALSE, changed |-> FALSE]
  /\ capture = [payer |-> "away", mark |-> FALSE]
  /\ dialog = [a \in Admins |-> NoDialog]
  /\ request = [a \in Admins |-> NoDelete]
  /\ deletes = 0

-----------------------------------------------------------------------------
(* The confirmation *)

Counted == deletes < MaxDeletes /\ deletes' = deletes + 1

Ask(a, x) ==
  /\ dialog[a] = NoDialog /\ request[a] = NoDelete /\ Exists(x)
  /\ Counted
  /\ dialog' = [dialog EXCEPT ![a] = [target |-> x, at |-> "checking"]]
  /\ UNCHANGED <<lodgings, camper, registration, capture, request>>

\* The preview: Delete is offered once it is there and nothing is in the way.  It may be
\* fetched again, on focus.
Preview(a) ==
  /\ dialog[a] # NoDialog
  /\ \E at \in IF ~Exists(dialog[a].target) THEN {"failed"}
               ELSE {"failed", IF Blocked(dialog[a].target) THEN "blocked" ELSE "offered"} :
       dialog' = [dialog EXCEPT ![a].at = at]
  /\ UNCHANGED <<lodgings, camper, registration, capture, request, deletes>>

Cancel(a) ==
  /\ dialog[a] # NoDialog
  /\ dialog' = [dialog EXCEPT ![a] = NoDialog]
  /\ UNCHANGED <<lodgings, camper, registration, capture, request, deletes>>

\* Delete, with the version of the record as the page has it.
Confirm(a) ==
  /\ dialog[a].at = "offered"
  /\ request' = [request EXCEPT ![a] = [target |-> dialog[a].target, at |-> "sent", read |-> <<>>]]
  /\ dialog' = [dialog EXCEPT ![a] = NoDialog]
  /\ UNCHANGED <<lodgings, camper, registration, capture, deletes>>

-----------------------------------------------------------------------------
(* The server *)

Done(a) == request' = [request EXCEPT ![a] = NoDelete]

\* A delete holds the row it deletes, and its registration's.
Held(x) == \E a \in Admins : request[a].at = "planned" /\ request[a].target = x
Registration_held == \E a \in Admins : request[a].at = "planned" /\ request[a].target \notin Lodgings

\* Gone, changed since it was read (412), or something in its way (409).
Refuse(a) ==
  /\ request[a].at = "sent"
  /\ \/ ~Exists(request[a].target) \/ Blocked(request[a].target)
     \/ request[a].target \in Campers /\ camper[request[a].target].edits > 0
     \/ request[a].target = Whole /\ registration.changed
  /\ Done(a)
  /\ UNCHANGED <<lodgings, camper, registration, capture, dialog, deletes>>

PlanDelete(a) ==
  LET x == request[a].target IN
  /\ request[a].at = "sent" /\ Exists(x) /\ ~Blocked(x)
  /\ IF x \in Lodgings THEN ~Held(x) ELSE ~Registration_held
  /\ request' = [request EXCEPT ![a].at = "planned", ![a].read = Planned(x)]
  /\ UNCHANGED <<lodgings, camper, registration, capture, dialog, deletes>>

\* Two deletes of lodging, one under the other: the database makes the first wait for the
\* row the second holds, or finds them waiting for each other and ends one.
Overlaps(a) ==
  \E b \in Admins \ {a} : request[b].at = "planned" /\ request[b].target \in GoesWith[request[a].target]

Nested(x, y) == x # y /\ {x, y} \subseteq Lodgings /\ (x \in GoesWith[y] \/ y \in GoesWith[x])

Undone(a) ==
  /\ request[a].at = "planned" /\ request[a].target \in Lodgings
  /\ \E b \in Admins : request[b].at = "planned" /\ Nested(request[a].target, request[b].target)
  /\ Done(a)
  /\ UNCHANGED <<lodgings, camper, registration, capture, dialog, deletes>>

\* Its steps, then the delete: each planned camper is saved whole, unassigned; those who
\* have come under the lodging since only lose it.
CarryOutLodging(a) ==
  LET x == request[a].target
      read == request[a].read
      gone == GoesWith[x] IN
  /\ request[a].at = "planned" /\ x \in Lodgings
  /\ ~Registration_held /\ ~Overlaps(a)
  /\ camper' = [c \in Campers |->
       IF c \in DOMAIN read THEN [read[c] EXCEPT !.lodging = None, !.stay = FALSE]
       ELSE IF camper[c].lodging \in gone THEN [camper[c] EXCEPT !.lodging = None]
       ELSE camper[c]]
  /\ lodgings' = lodgings \ gone
  /\ Done(a)
  /\ UNCHANGED <<registration, capture, dialog, deletes>>

CarryOutCamper(a) ==
  LET x == request[a].target IN
  /\ request[a].at = "planned" /\ x \in Campers
  /\ camper' = [camper EXCEPT ![x].deleted = TRUE]
  /\ Done(a)
  /\ UNCHANGED <<lodgings, registration, capture, dialog, deletes>>

NotAsked == TRUE                                               \* mutant
\* Asked again with the invoice held, for a capture that started since the plan.
StillNone == ~capture.mark

CarryOutRegistration(a) ==
  /\ request[a].at = "planned" /\ request[a].target = Whole
  /\ IF StillNone THEN registration' = [registration EXCEPT !.deleted = TRUE]
                  ELSE UNCHANGED registration
  /\ Done(a)
  /\ UNCHANGED <<lodgings, camper, capture, dialog, deletes>>

\* From the deleted list.
RestoreCamper(c) ==
  /\ camper[c].deleted /\ ~registration.deleted
  /\ Counted
  /\ camper' = [camper EXCEPT ![c].deleted = FALSE]
  /\ UNCHANGED <<lodgings, registration, capture, dialog, request>>

RestoreRegistration ==
  /\ registration.deleted
  /\ Counted
  /\ registration' = [registration EXCEPT !.deleted = FALSE]
  /\ UNCHANGED <<lodgings, camper, capture, dialog, request>>

-----------------------------------------------------------------------------
(* Others meanwhile *)

\* An organizer saves a camper, or moves them to a lodging no delete holds; the
\* registration is held for it.
EditCamper(c) ==
  /\ Visible(c) /\ ~Registration_held
  /\ camper[c].edits < MaxEdits
  /\ camper' = [camper EXCEPT ![c].edits = @ + 1]
  /\ UNCHANGED <<lodgings, registration, capture, dialog, request, deletes>>

MoveCamper(c, n) ==
  /\ Visible(c) /\ ~Registration_held
  /\ n \in lodgings /\ ~Held(n) /\ n # camper[c].lodging
  /\ camper' = [camper EXCEPT ![c].lodging = n, ![c].stay = TRUE]
  /\ UNCHANGED <<lodgings, registration, capture, dialog, request, deletes>>

EditRegistration ==
  /\ ~registration.deleted /\ ~Registration_held /\ ~registration.changed
  /\ registration' = [registration EXCEPT !.changed = TRUE]
  /\ UNCHANGED <<lodgings, camper, capture, dialog, request, deletes>>

\* The payer's page finds the invoice, marks its capture, and the capture ends.
FindInvoice ==
  /\ ~registration.deleted /\ capture.payer = "away"
  /\ capture' = [capture EXCEPT !.payer = "paying"]
  /\ UNCHANGED <<lodgings, camper, registration, dialog, request, deletes>>

MarkCapture ==
  /\ capture.payer = "paying" /\ ~capture.mark
  /\ capture' = [payer |-> "away", mark |-> TRUE]
  /\ UNCHANGED <<lodgings, camper, registration, dialog, request, deletes>>

SettleCapture ==
  /\ capture.mark
  /\ capture' = [capture EXCEPT !.mark = FALSE]
  /\ UNCHANGED <<lodgings, camper, registration, dialog, request, deletes>>

DeletesNext ==
  \/ \E a \in Admins :
       \/ \E x \in Targets : Ask(a, x)
       \/ Preview(a) \/ Cancel(a) \/ Confirm(a)
       \/ Refuse(a) \/ PlanDelete(a) \/ Undone(a) \/ CarryOutLodging(a)
       \/ CarryOutCamper(a) \/ CarryOutRegistration(a)
  \/ \E c \in Campers :
       \/ RestoreCamper(c) \/ EditCamper(c)
       \/ \E n \in Lodgings : MoveCamper(c, n)
  \/ RestoreRegistration \/ EditRegistration \/ FindInvoice \/ MarkCapture \/ SettleCapture

DeletesSpec == DeletesInit /\ [][DeletesNext]_deleteVars

-----------------------------------------------------------------------------
(* Properties *)

\* Nobody, deleted or not, is left in a lodging that is gone, whoever is moved or restored
\* while it goes (deletes.py unassign_campers).
NobodyInGone == \A c \in Campers : camper[c].lodging \in lodgings \cup {None}

\* A registration doesn't go out of sight under a capture that has no outcome yet, not even
\* one that started after the delete was planned (deletes.py, still_none).
DeleteWaitsForCapture ==
  [][~registration.deleted /\ registration'.deleted => ~capture.mark]_deleteVars

\* Carrying out a delete changes nothing of a camper but where they are, and that only if
\* they are still in what it deletes: "Every write locks the row before reading it, so it
\* starts from the record as committed" (views.py:265).  A camper edited between the plan and its steps breaks it.
DeleteKeepsEdits ==
  [][\A c \in Campers : lodgings' # lodgings =>
       /\ camper'[c].edits = camper[c].edits /\ camper'[c].deleted = camper[c].deleted
       /\ camper[c].lodging \in lodgings' => camper'[c].lodging = camper[c].lodging]_deleteVars

\* No capture is left to be recorded on a registration out of sight.  A payer who found the
\* invoice before the delete breaks it.
NoCaptureOutOfSight == registration.deleted => ~capture.mark
=============================================================================
