----------------------------- MODULE EditLease -----------------------------
(***************************************************************************)
(* A form's edit lease on its record (hooks/useEditLease, store/leases and *)
(* the server's leases.py), beside other tabs that take, take over, give   *)
(* up and let lapse the same lease.  The form takes it when it has unsaved *)
(* changes, renews it, and gives it up when they are saved or dropped or   *)
(* the form closes, even one still being taken; it looks at the lease      *)
(* every so often.  Its requests and their answers pass each other and are *)
(* lost.  Leases never stop a save: RecordEdit's versions do.              *)
(*                                                                         *)
(* Numbering takes is modelled by what it is for: an answer is `overtaken' *)
(* once a later take's has been heard.  A remembered id is "row" while it  *)
(* is the server's row's, and "old" once that row is deleted.  One user is *)
(* signed in, who may change data.  The fetch of the record once nobody    *)
(* else holds it is RecordEdit's Refetch.                                  *)
(***************************************************************************)
EXTENDS Naturals, Sequences, FiniteSets

CONSTANTS Nothing,
          MaxFlight   \* bounds the takes, and the releases, on their way at once

ASSUME LeaseAssumption ==
  /\ MaxFlight \in Nat
  /\ Nothing \notin {"row", "old", "me", "other"} \cup [who : {"me", "other"}, live : BOOLEAN]

VARIABLES
  lease,      \* the server's row: whose it is, and whether it has yet to lapse; or Nothing
  form,       \* the form and what its hook remembers
  takes,      \* takes on their way, in the order they were sent
  releases,   \* the ids named by releases on their way
  strayed     \* whether a take or release was lost, or a take reached the server out of order

leaseVars == <<lease, form, takes, releases, strayed>>

Who == {"me", "other"}
Ids == {"row", "old"}
Take == [over : BOOLEAN, at : {"sent", "granted", "held"}, id : Ids \cup {Nothing}, overtaken : BOOLEAN]

LeaseTypeOK ==
  /\ lease \in {Nothing} \cup [who : Who, live : BOOLEAN]
  /\ form \in [page : {"open", "closed", "gone"}, dirty : BOOLEAN, tookOver : BOOLEAN,
               refused : BOOLEAN, held : Ids \cup {Nothing}, data : Who \cup {Nothing},
               look : {<<>>} \cup {<<w>> : w \in Who \cup {Nothing}}]
  /\ Len(takes) <= MaxFlight /\ \A i \in DOMAIN takes : takes[i] \in Take
  /\ releases \in SUBSET Ids
  /\ strayed \in BOOLEAN

-----------------------------------------------------------------------------
(* What the form makes of what it knows *)

\* Someone else's lease, as far as the form knows.
Other(f) == f.data = "other" \/ f.refused

Wants(f) == f.page = "open" /\ (f.dirty \/ f.tookOver) /\ ~f.refused

ViewOnly == Other(form) /\ ~form.dirty

Sent(over) == [over |-> over, at |-> "sent", id |-> Nothing, overtaken |-> FALSE]

\* show: a lease shown now drops a look still on its way.
Shows(f, who) == [f EXCEPT !.data = who, !.look = <<>>]

\* A lease seen to end clears a refusal.
Noticed(f) == IF f.data = Nothing /\ form.data # Nothing THEN [f EXCEPT !.refused = FALSE] ELSE f

\* The form becomes `f', with `onTheirWay' of its takes left: a lease newly wanted is taken.
FormBecomes(f, onTheirWay) ==
  /\ form' = Noticed(f)
  /\ takes' = IF Wants(Noticed(f)) /\ ~Wants(form) THEN Append(onTheirWay, Sent(FALSE)) ELSE onTheirWay
  /\ Len(takes') <= MaxFlight

\* release: only a lease this form holds.
Released(f) == IF f.held = Nothing THEN f ELSE Shows([f EXCEPT !.held = Nothing], Nothing)
Releasing(id) == releases \cup ({id} \ {Nothing})

LeaseInit ==
  /\ lease \in {Nothing} \cup [who : {"other"}, live : BOOLEAN]
  /\ form = [page |-> "open", dirty |-> FALSE, tookOver |-> FALSE, refused |-> FALSE,
             held |-> Nothing, data |-> Nothing, look |-> <<>>]
  /\ takes = <<>>
  /\ releases = {}
  /\ strayed = FALSE

-----------------------------------------------------------------------------
(* The form's user *)

EditForm ==
  /\ form.page = "open" /\ ~form.dirty /\ ~ViewOnly
  /\ FormBecomes([form EXCEPT !.dirty = TRUE], takes)
  /\ UNCHANGED <<lease, releases, strayed>>

\* Saved or dropped: let the lease go.
Finish ==
  /\ form.page = "open" /\ form.dirty
  /\ releases' = Releasing(form.held)
  /\ FormBecomes(Released([form EXCEPT !.dirty = FALSE, !.tookOver = FALSE]), takes)
  /\ UNCHANGED <<lease, strayed>>

TakeOver ==
  /\ form.page = "open" /\ Other(form)
  /\ Len(takes) < MaxFlight
  /\ takes' = Append(takes, Sent(TRUE))
  /\ UNCHANGED <<lease, form, releases, strayed>>

\* The form closes, or the page: the hook stays only to give up what is still being
\* taken, and nothing is left of a closed page to hear an answer.
Close ==
  /\ form.page = "open"
  /\ releases' = Releasing(form.held)
  /\ \E page \in {"closed", "gone"} :
       form' = [form EXCEPT !.page = page, !.dirty = FALSE, !.tookOver = FALSE, !.refused = FALSE,
                            !.held = Nothing, !.data = Nothing, !.look = <<>>]
  /\ UNCHANGED <<lease, takes, strayed>>

Renew ==
  /\ Wants(form)
  /\ Len(takes) < MaxFlight
  /\ takes' = Append(takes, Sent(FALSE))
  /\ UNCHANGED <<lease, form, releases, strayed>>

-----------------------------------------------------------------------------
(* The server *)

\* The row is deleted: whoever remembers its id remembers an old one.
Old(id) == IF id = "row" THEN "old" ELSE id
DeleteRow(rest) ==
  /\ lease' = Nothing
  /\ releases' = {Old(id) : id \in rest}
  /\ form' = [form EXCEPT !.held = Old(@)]
  /\ takes' = [i \in DOMAIN takes |-> [takes[i] EXCEPT !.id = Old(@)]]

HeldByOther == lease # Nothing /\ lease.live /\ lease.who = "other"

\* acquire: refused while another's lease lasts, unless it is taken over.
Acquire(i) ==
  /\ takes[i].at = "sent"
  /\ IF HeldByOther /\ ~takes[i].over
     THEN takes' = [takes EXCEPT ![i].at = "held"] /\ UNCHANGED lease
     ELSE /\ lease' = [who |-> "me", live |-> TRUE]
          /\ takes' = [takes EXCEPT ![i].at = "granted", ![i].id = "row"]
  /\ strayed' = (strayed \/ \E j \in 1..i - 1 : takes[j].at = "sent")
  /\ UNCHANGED <<form, releases>>

\* release: deletes the row if this form's page still holds it.
Release(id) ==
  /\ IF id = "row" /\ lease # Nothing /\ lease.who = "me"
     THEN DeleteRow(releases \ {id})
     ELSE releases' = releases \ {id} /\ UNCHANGED <<lease, form, takes>>
  /\ UNCHANGED strayed

\* Not renewed for its time: a page whose requests fail, or sleeps.
LeaseLapses ==
  /\ lease # Nothing /\ lease.live
  /\ lease' = [lease EXCEPT !.live = FALSE]
  /\ UNCHANGED <<form, takes, releases, strayed>>

\* purge_lapsed, nightly.
Purge ==
  /\ lease # Nothing /\ ~lease.live
  /\ DeleteRow(releases)
  /\ UNCHANGED strayed

\* Another tab takes the lease, or takes it over.
OtherTakes ==
  /\ ~HeldByOther
  /\ lease' = [who |-> "other", live |-> TRUE]
  /\ UNCHANGED <<form, takes, releases, strayed>>

\* The other tab has saved or dropped its changes.
OtherReleases ==
  /\ HeldByOther
  /\ DeleteRow(releases)
  /\ UNCHANGED strayed

-----------------------------------------------------------------------------
(* Answers *)

Without(i) == SubSeq(takes, 1, i - 1) \o SubSeq(takes, i + 1, Len(takes))

\* The answer to take i is heard: those to earlier takes no longer count.
Heard(i) ==
  [j \in 1..Len(takes) - 1 |-> IF j < i THEN [takes[j] EXCEPT !.overtaken = TRUE] ELSE takes[j + 1]]

UnwantedIfClosed(take) == form.page # "open"                   \* mutant
Unwanted(take) == form.page # "open" \/ (~take.over /\ ~Wants(form))

\* Granted, but saved, dropped, refused or closed while it was on its way: given up.
GrantLate(i) ==
  /\ form.page # "gone" /\ takes[i].at = "granted" /\ Unwanted(takes[i])
  /\ releases' = Releasing(takes[i].id)
  /\ takes' = Without(i)
  /\ UNCHANGED <<lease, form, strayed>>

Grant(i) ==
  /\ takes[i].at = "granted" /\ ~Unwanted(takes[i])
  /\ IF takes[i].overtaken
     THEN takes' = Without(i) /\ UNCHANGED form
     ELSE FormBecomes(Shows([form EXCEPT !.held = takes[i].id, !.refused = FALSE,
                                     !.tookOver = @ \/ takes[i].over], "me"), Heard(i))
  /\ UNCHANGED <<lease, releases, strayed>>

\* 409: someone else has it.
Refusal(i) ==
  /\ form.page # "gone" /\ takes[i].at = "held"
  /\ IF takes[i].overtaken \/ form.page = "closed"
     THEN takes' = Without(i) /\ UNCHANGED form
     ELSE FormBecomes(Shows([form EXCEPT !.held = Nothing, !.refused = TRUE, !.tookOver = FALSE], "other"),
                  Heard(i))
  /\ UNCHANGED <<lease, releases, strayed>>

\* A take, its answer or a release is lost; a page that is gone hears no answer.
LoseTake(i) ==
  /\ takes' = Without(i)
  /\ strayed' = TRUE
  /\ UNCHANGED <<lease, form, releases>>

LoseRelease(id) ==
  /\ releases' = releases \ {id}
  /\ strayed' = TRUE
  /\ UNCHANGED <<lease, form, takes>>

\* useRecordLease: the lease as the server has it when it answers...
Look ==
  /\ form.page = "open" /\ form.look = <<>>
  /\ form' = [form EXCEPT !.look = <<IF lease # Nothing /\ lease.live THEN lease.who ELSE Nothing>>]
  /\ UNCHANGED <<lease, takes, releases, strayed>>

\* ...which the form hears later, unless something newer was shown meanwhile.
Looked ==
  /\ form.look # <<>>
  /\ FormBecomes(Shows(form, form.look[1]), takes)
  /\ UNCHANGED <<lease, releases, strayed>>

HearAnswer(i) == GrantLate(i) \/ Grant(i) \/ Refusal(i)

LeaseNext ==
  \/ EditForm \/ Finish \/ TakeOver \/ Close \/ Renew \/ Look \/ Looked
  \/ \E i \in DOMAIN takes : Acquire(i) \/ LoseTake(i) \/ GrantLate(i) \/ Grant(i) \/ Refusal(i)
  \/ \E id \in releases : Release(id) \/ LoseRelease(id)
  \/ LeaseLapses \/ Purge \/ OtherTakes \/ OtherReleases

\* Requests are answered, however many are lost; while a lease shows, it is looked at every
\* 15 seconds (without the live feed, always); a wanted lease is renewed; one nobody renews
\* lapses.
LeaseFairness ==
  /\ WF_leaseVars(Look /\ form.data # Nothing) /\ WF_leaseVars(Looked)
  /\ WF_leaseVars(takes = <<>> /\ Renew)
  /\ SF_leaseVars(takes # <<>> /\ Acquire(1)) /\ SF_leaseVars(takes # <<>> /\ HearAnswer(1))
  /\ WF_leaseVars(form.page = "gone" /\ takes # <<>> /\ LoseTake(1))
  /\ WF_leaseVars(lease # Nothing /\ lease.who = "me" /\ ~Wants(form) /\ LeaseLapses)
  /\ WF_leaseVars(\E id \in releases : Release(id))

LeaseSpec == LeaseInit /\ [][LeaseNext]_leaseVars /\ LeaseFairness

-----------------------------------------------------------------------------
(* Properties *)

Quiet == takes = <<>> /\ releases = {} /\ ~strayed

\* A form that no longer wants the lease doesn't keep it: with nothing of its on its way
\* or gone astray, the server's live lease isn't that of a form that has closed, or has
\* nothing unsaved and didn't choose to take over.
NothingLeftHeld ==
  Quiet /\ form.page # "gone" /\ ~form.dirty /\ ~form.tookOver
    => ~(lease # Nothing /\ lease.live /\ lease.who = "me")

\* With every request answered in order, a form told that someone else holds the lease
\* isn't the one whose lease the server keeps.
RefusedHoldsNone ==
  Quiet /\ form.refused => ~(lease # Nothing /\ lease.live /\ lease.who = "me")

\* An edit lease nobody wants any more isn't kept, nor one whose form was told it is
\* someone else's (hooks/useEditLease.ts).
LeaseIsGivenUp == NothingLeftHeld /\ RefusedHoldsNone

\* A form kept from being edited by someone else's lease opens for editing once nobody else
\* takes the lease again.
ViewerFreed == <>[](form.page = "open" /\ ~HeldByOther) => []<>(~ViewOnly)

\* Once the form goes on being edited and nobody else takes the lease, the form comes to
\* hold it, again and again, whatever was lost or refused before.
EditorHolds ==
  <>[](form.page = "open" /\ form.dirty /\ ~HeldByOther)
    => []<>(lease # Nothing /\ lease.who = "me")
=============================================================================
