---------------------------- MODULE Invitations ----------------------------
(***************************************************************************)
(* Inviting people to register (InvitationsPanel, InviteForm), and         *)
(* registering with an invitation: sending the form checks it, and         *)
(* completing the registration redeems it and takes a bed, each in a       *)
(* transaction that locks what it read (views.py RegisterView).  Deleting  *)
(* an invitation locks what may still use it first.                        *)
(*                                                                         *)
(* A transaction takes its locks one at a time, reads a row as it is       *)
(* committed when its lock is taken, and writes as it commits.  Of the     *)
(* form, the payment and the email only what these steps read is modelled, *)
(* and the emails themselves are the outbox's.                             *)
(***************************************************************************)
EXTENDS Naturals, Sequences, SequencesExt, FiniteSetsExt

CONSTANTS None, Codes, Registrants,
          Beds         \* the beds left in the lodging they may ask for

VARIABLES
  invitation,    \* the server's invitations
  draft,         \* each registrant's draft, and the invitation it was started with
  registration,  \* their registrations, with theirs
  page,          \* the step each registrant is at, and the invitation's link they have
  txn,           \* each registrant's and the organizer's transaction
  list,          \* the organizer's page's copy of the invitations
  inviteForm,    \* the form that creates one and sends it
  dialog         \* the question whether to delete one, as the page had it

inviteVars == <<invitation, draft, registration, page, txn, list, inviteForm, dialog>>

Organizer == "organizer"
Actors == Registrants \cup {Organizer}
Absent == [st |-> "none", version |-> 1, link |-> None]
Invitation == [st : {"none", "live", "deleted"}, version : 1..2, link : Registrants \cup {None}]
Started == Codes \cup {None}
\* The rows that are locked.
Rows == {<<"lodging", "lodging">>} \cup
        {"draft", "registration"} \X Registrants \cup {"invitation"} \X Codes
Idle == [does |-> "nothing", code |-> None, bed |-> FALSE, wants |-> <<>>, held |-> {}, then |-> "commit"]

InviteTypeOK ==
  /\ invitation \in [Codes -> Invitation] /\ list \in [Codes -> Invitation]
  /\ draft \in [Registrants -> [st : {"none", "sent", "gone"}, code : Started, bed : BOOLEAN]]
  /\ registration \in [Registrants -> [made : BOOLEAN, code : Started, bed : BOOLEAN]]
  /\ page \in [Registrants -> [at : {"form", "payment", "done"}, code : Started]]
  /\ \A a \in Actors :
       /\ txn[a].does \in {"nothing", "send", "complete", "delete"} /\ txn[a].code \in Started /\ txn[a].bed \in BOOLEAN
       /\ txn[a].wants \in Seq(Rows) /\ txn[a].held \subseteq Rows
       /\ txn[a].then \in {"registrations", "invitation", "cascade", "commit", "refuse"}
  /\ inviteForm \in [at : {"closed", "open", "sending"}, code : Started]
  /\ dialog \in {None} \cup (Codes \X (1..2))

InviteInit ==
  /\ invitation = [c \in Codes |-> Absent]
  /\ draft = [r \in Registrants |-> [st |-> "none", code |-> None, bed |-> FALSE]]
  /\ registration = [r \in Registrants |-> [made |-> FALSE, code |-> None, bed |-> FALSE]]
  /\ page = [r \in Registrants |-> [at |-> "form", code |-> None]]
  /\ txn = [a \in Actors |-> Idle]
  /\ list = invitation
  /\ inviteForm = [at |-> "closed", code |-> None]
  /\ dialog = None

-----------------------------------------------------------------------------
(* The organizer's page *)

OpenForm ==
  /\ inviteForm.at = "closed"
  /\ inviteForm' = [at |-> "open", code |-> None]
  /\ UNCHANGED <<invitation, draft, registration, page, txn, list, dialog>>

\* Send invite creates the invitation, then sends it; pressed again after a failed send, it
\* creates another.
Create(code) ==
  /\ inviteForm.at = "open"
  /\ invitation[code].st = "none"
  /\ invitation' = [invitation EXCEPT ![code].st = "live"]
  /\ inviteForm' = [at |-> "sending", code |-> code]
  /\ UNCHANGED <<draft, registration, page, txn, list, dialog>>

\* Queuing the email closes the form; a request that fails leaves it open.
Send(code) ==
  /\ inviteForm.at = "sending" /\ inviteForm.code = code
  /\ \/ /\ invitation[code].st = "live"
        /\ inviteForm' = [at |-> "closed", code |-> None]
     \/ inviteForm' = [at |-> "open", code |-> None]
  /\ UNCHANGED <<invitation, draft, registration, page, txn, list, dialog>>

\* The list is fetched again: after a change, and every couple of seconds while an invitation
\* in it is being sent.
Refetch ==
  /\ list # invitation
  /\ list' = invitation
  /\ UNCHANGED <<invitation, draft, registration, page, txn, inviteForm, dialog>>

AskDelete(code) ==
  /\ dialog = None /\ txn[Organizer] = Idle
  /\ list[code].st = "live"
  /\ dialog' = <<code, list[code].version>>
  /\ UNCHANGED <<invitation, draft, registration, page, txn, list, inviteForm>>

Cancel ==
  /\ dialog # None /\ txn[Organizer] = Idle
  /\ dialog' = None
  /\ UNCHANGED <<invitation, draft, registration, page, txn, list, inviteForm>>

-----------------------------------------------------------------------------
(* Transactions *)

Free(a, row) == \A b \in Actors \ {a} : row \notin txn[b].held

Lodging == <<"lodging", "lodging">>

\* A registration step locks its draft, then the lodging if it asks for a bed, then the
\* invitation it comes with.
LocksOf(r, code, bed) ==
  <<<<"draft", r>>>> \o (IF bed THEN <<Lodging>> ELSE <<>>)
                    \o (IF code = None THEN <<>> ELSE <<<<"invitation", code>>>>)

Begin(a, does, code, bed, wants, then) ==
  txn' = [txn EXCEPT ![a] = [does |-> does, code |-> code, bed |-> bed, wants |-> wants,
                             held |-> {}, then |-> then]]

\* Following an invitation's link, or without one.
OpenLink(r, code) ==
  /\ page[r].at = "form" /\ page[r].code = None /\ txn[r] = Idle
  /\ invitation[code].st = "live" /\ invitation[code].link = None
  /\ page' = [page EXCEPT ![r].code = code]
  /\ UNCHANGED <<invitation, draft, registration, txn, list, inviteForm, dialog>>

\* post_registration
SendForm(r, bed) ==
  /\ page[r].at = "form" /\ txn[r] = Idle
  /\ Begin(r, "send", page[r].code, bed, LocksOf(r, page[r].code, bed), "commit")
  /\ UNCHANGED <<invitation, draft, registration, page, list, inviteForm, dialog>>

\* A payment button: registration_from_draft
Complete(r) ==
  /\ page[r].at = "payment" /\ txn[r] = Idle
  /\ LET d == draft[r] IN
     Begin(r, "complete", d.code, d.bed, LocksOf(r, d.code, d.bed), "commit")
  /\ UNCHANGED <<invitation, draft, registration, page, list, inviteForm, dialog>>

InOrder(kind, rs) == SetToSeq({<<kind, r>> : r \in rs})

DraftsOf(code) == {r \in Registrants : draft[r].st = "sent" /\ draft[r].code = code}
RegistrationsOf(code) == {r \in Registrants : registration[r].made /\ registration[r].code = code}

\* A delete, confirmed: lock_registration_first takes the drafts started with the invitation.
Delete ==
  /\ dialog # None /\ txn[Organizer] = Idle
  /\ Begin(Organizer, "delete", dialog[1], FALSE, InOrder("draft", DraftsOf(dialog[1])), "registrations")
  /\ UNCHANGED <<invitation, draft, registration, page, list, inviteForm, dialog>>

\* version_conflict, under the lock.
Known == invitation[dialog[1]].version = dialog[2]

\* Then what they may have become, then the invitation itself; deleting it clears it from what
\* names it by then.
DeleteGoesOn ==
  LET t == txn[Organizer] IN
  /\ t.does = "delete" /\ t.wants = <<>> /\ t.then \in {"registrations", "invitation", "cascade"}
  /\ txn' = [txn EXCEPT
       ![Organizer].wants =
         CASE t.then = "registrations" -> InOrder("registration", RegistrationsOf(t.code))
           [] t.then = "invitation" -> <<<<"invitation", t.code>>>>
           [] t.then = "cascade" -> IF Known THEN InOrder("draft", DraftsOf(t.code)) ELSE <<>>,
       ![Organizer].then =
         CASE t.then = "registrations" -> "invitation"
           [] t.then = "invitation" -> "cascade"
           [] t.then = "cascade" -> IF Known THEN "commit" ELSE "refuse"]
  /\ UNCHANGED <<invitation, draft, registration, page, list, inviteForm, dialog>>

Taken == Cardinality({r \in Registrants : registration[r].made /\ registration[r].bed})

\* What a transaction finds as it locks a row that makes it go no further.
Refused(a, row) ==
  LET t == txn[a] IN
  \/ row = Lodging /\ Taken >= Beds
  \/ /\ row[1] = "invitation" /\ t.does = "send"
     /\ invitation[t.code].st # "live" \/ RegistrationsOf(t.code) # {}
  \/ row[1] = "invitation" /\ t.does = "complete" /\ RegistrationsOf(t.code) # {}

Lock(a) ==
  LET t == txn[a] IN
  /\ t.wants # <<>>
  /\ Free(a, Head(t.wants))
  /\ txn' = [txn EXCEPT ![a].held = @ \cup {Head(t.wants)},
                        ![a].wants = IF Refused(a, Head(t.wants)) THEN <<>> ELSE Tail(@),
                        ![a].then = IF Refused(a, Head(t.wants)) THEN "refuse" ELSE @]
  /\ UNCHANGED <<invitation, draft, registration, page, list, inviteForm, dialog>>

Ready(a, then) == txn[a].does # "nothing" /\ txn[a].wants = <<>> /\ txn[a].then = then

\* A refusal leaves everything as it was; a payment page goes back to the form when the lodging
\* has gone.
Refuse(a) ==
  /\ Ready(a, "refuse")
  /\ txn' = [txn EXCEPT ![a] = Idle]
  /\ IF a = Organizer THEN dialog' = None /\ UNCHANGED page
     ELSE /\ page' = [page EXCEPT ![a].at = IF Lodging \in txn[a].held /\ Taken >= Beds THEN "form" ELSE @]
          /\ UNCHANGED dialog
  /\ UNCHANGED <<invitation, draft, registration, list, inviteForm>>

Sent(r) ==
  /\ Ready(r, "commit") /\ txn[r].does = "send"
  /\ draft' = [draft EXCEPT ![r] = [st |-> "sent", code |-> txn[r].code, bed |-> txn[r].bed]]
  /\ page' = [page EXCEPT ![r].at = "payment"]
  /\ txn' = [txn EXCEPT ![r] = Idle]
  /\ UNCHANGED <<invitation, registration, list, inviteForm, dialog>>

\* redeem_invitation links it, if it is still there.
Completed(r) ==
  /\ Ready(r, "commit") /\ txn[r].does = "complete"
  /\ registration' = [registration EXCEPT ![r] = [made |-> TRUE, code |-> draft[r].code, bed |-> draft[r].bed]]
  /\ invitation' = IF draft[r].code = None \/ invitation[draft[r].code].st # "live" THEN invitation
                   ELSE [invitation EXCEPT ![draft[r].code].link = r, ![draft[r].code].version = @ + 1]
  /\ draft' = [draft EXCEPT ![r] = [st |-> "gone", code |-> None, bed |-> FALSE]]
  /\ page' = [page EXCEPT ![r].at = "done"]
  /\ txn' = [txn EXCEPT ![r] = Idle]
  /\ UNCHANGED <<list, inviteForm, dialog>>

Deleted ==
  /\ Ready(Organizer, "commit")
  /\ LET code == txn[Organizer].code IN
     /\ invitation' = [invitation EXCEPT ![code].st = "deleted", ![code].link = None]
     /\ draft' = [r \in Registrants |-> IF draft[r].code = code THEN [draft[r] EXCEPT !.code = None] ELSE draft[r]]
     /\ registration' = [r \in Registrants |->
          IF registration[r].code = code THEN [registration[r] EXCEPT !.code = None] ELSE registration[r]]
  /\ txn' = [txn EXCEPT ![Organizer] = Idle]
  /\ dialog' = None
  /\ UNCHANGED <<page, list, inviteForm>>

\* The actors a waits for: those holding the row it wants.
WaitsFor(a) ==
  {b \in Actors \ {a} : txn[a].wants # <<>> /\ Head(txn[a].wants) \in txn[b].held}

EachWaits(a, b) == b \in WaitsFor(a) /\ a \in WaitsFor(b)

\* Two that each wait for the other: the database ends one of them.
Undo(a) ==
  /\ \E b \in Actors : EachWaits(a, b)
  /\ txn' = [txn EXCEPT ![a] = Idle]
  /\ dialog' = IF a = Organizer THEN None ELSE dialog
  /\ UNCHANGED <<invitation, draft, registration, page, list, inviteForm>>

InviteNext ==
  \/ OpenForm \/ Refetch \/ Cancel \/ Delete \/ DeleteGoesOn \/ Deleted
  \/ \E code \in Codes :
       \/ Create(code) \/ Send(code) \/ AskDelete(code)
       \/ \E r \in Registrants : OpenLink(r, code)
  \/ \E r \in Registrants : (\E bed \in BOOLEAN : SendForm(r, bed)) \/ Complete(r) \/ Sent(r) \/ Completed(r)
  \/ \E a \in Actors : Lock(a) \/ Refuse(a) \/ Undo(a)

InviteSpec == InviteInit /\ [][InviteNext]_inviteVars

-----------------------------------------------------------------------------
(* Properties *)

\* An invitation is redeemed by one registration at most, the one it links to, however many
\* were started with it and complete at once.
RedeemedOnce ==
  \A c \in Codes : /\ Cardinality(RegistrationsOf(c)) <= 1
                   /\ invitation[c].st = "live" => RegistrationsOf(c) = {invitation[c].link} \ {None}

\* No more registrations that ask for a bed are completed than there are beds.
BedsHold == Taken <= Beds

\* An invitation redeemed since the organizer's page had it isn't deleted unseen.
DeletesKnown ==
  [][\A c \in Codes : invitation[c].st = "live" /\ invitation'[c].st = "deleted" =>
       invitation[c].version = dialog[2]]_inviteVars

\* views.py:235 says each write takes its locks in an order that keeps two at once from each
\* holding a row the other needs; a form sent while an invitation is being deleted adds a draft
\* the delete comes to need.
NoneEachWait == \A a, b \in Actors : ~EachWaits(a, b)
=============================================================================
