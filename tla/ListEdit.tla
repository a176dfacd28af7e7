------------------------------ MODULE ListEdit -----------------------------
(***************************************************************************)
(* A list of records with one form, in a modal, for adding one or editing  *)
(* one: an event's promo codes (PromoCodesSettings), an organization's     *)
(* email accounts and the one the event sends through (EmailSettings), and *)
(* the organizations (OrganizationChooser).  One tab, against the API's    *)
(* other clients, which needn't send the version they read.                *)
(*                                                                         *)
(* A record has one text: a promo code's code, where and as whom an email  *)
(* account logs in, an organization's name.  `secret' is the text an       *)
(* account's stored password was entered for.  A save and a delete aren't  *)
(* under way at once here.                                                 *)
(***************************************************************************)
EXTENDS Naturals, FiniteSets

CONSTANTS None, Ids, Texts,
          MaxChanges   \* bounds the changes to the records

VARIABLES
  kind,     \* which of the lists
  rows,     \* the server's records
  cached,   \* the live ones, as the list has them
  form,     \* the form, if open: the record it starts from (None when adding), and what it has
  saving,   \* the save under way
  dialog,   \* the confirmation of a delete, or the delete under way
  inUse,    \* the account the event sends through, the organization that has events
  changes

listVars == <<kind, rows, cached, form, saving, dialog, inUse, changes>>

Kinds == {"promo", "account", "organization"}

Row == [st : {"none", "live", "deleted", "gone"}, version : 1..(MaxChanges + 1), text : Texts,
        secret : Texts \cup {None}]
Edit == [of : Ids \cup {None}, from : Row, text : Texts, password : BOOLEAN]
Closed == [of |-> None, at |-> "closed"]
Idle == [at |-> "idle"]

ListTypeOK ==
  /\ kind \in Kinds
  /\ rows \in [Ids -> Row] /\ cached \in [Ids -> Row]
  /\ form \in Edit \cup {Closed}
  /\ saving \in {Idle} \cup [at : {"sent", "saved", "conflict", "failed"}, edit : Edit]
  /\ dialog \in {Idle} \cup [at : {"asking", "sent"}, of : Ids, from : Row]
  /\ inUse \in SUBSET Ids
  /\ changes \in 0..MaxChanges

Blank == [st |-> "none", version |-> 1, text |-> CHOOSE t \in Texts : TRUE, secret |-> None]

\* One record to begin with.  An organization either has events or has none.
ListInit ==
  \E first \in {CHOOSE i \in Ids : TRUE}, used \in BOOLEAN, password \in BOOLEAN :
    /\ kind \in Kinds
    /\ kind # "account" => ~password
    /\ kind # "organization" => ~used
    /\ rows = [i \in Ids |-> IF i # first THEN Blank
                             ELSE [Blank EXCEPT !.st = "live", !.secret = IF password THEN Blank.text ELSE None]]
    /\ cached = rows
    /\ form = Closed
    /\ saving = Idle
    /\ dialog = Idle
    /\ inUse = IF used THEN {first} ELSE {}
    /\ changes = 0

-----------------------------------------------------------------------------
(* The form *)

\* A modal covers the page.
Free == form = Closed /\ dialog.at # "asking"

OpenOn(id) ==
  form' = [of |-> id, from |-> IF id = None THEN Blank ELSE cached[id],
           text |-> IF id = None THEN Blank.text ELSE cached[id].text, password |-> FALSE]

EditRow(id) ==
  /\ Free /\ cached[id].st = "live"
  /\ OpenOn(id)
  /\ UNCHANGED <<kind, rows, cached, saving, dialog, inUse, changes>>

Add ==
  /\ Free
  /\ OpenOn(None)
  /\ UNCHANGED <<kind, rows, cached, saving, dialog, inUse, changes>>

Type(text) ==
  /\ form # Closed /\ text # form.text
  /\ form' = [form EXCEPT !.text = text]
  /\ UNCHANGED <<kind, rows, cached, saving, dialog, inUse, changes>>

TypePassword ==
  /\ form # Closed /\ kind = "account" /\ ~form.password
  /\ form' = [form EXCEPT !.password = TRUE]
  /\ UNCHANGED <<kind, rows, cached, saving, dialog, inUse, changes>>

Cancel ==
  /\ form # Closed
  /\ form' = Closed
  /\ UNCHANGED <<kind, rows, cached, saving, dialog, inUse, changes>>

\* A promo code's form shows a newer version while nothing in it is unsaved, and keeps the last
\* one of a code that was deleted; the other forms are of the record as it was opened.
Followed(f, list) ==
  IF f # Closed /\ f.of # None /\ kind = "promo" /\ list[f.of].st = "live"
     /\ list[f.of].version > f.from.version /\ f.text = f.from.text
  THEN [f EXCEPT !.from = list[f.of], !.text = list[f.of].text] ELSE f

Refetch ==
  /\ cached # rows
  /\ cached' = rows
  /\ form' = Followed(form, cached')
  /\ UNCHANGED <<kind, rows, saving, dialog, inUse, changes>>

-----------------------------------------------------------------------------
(* Saving *)

\* The account's form asks for the password again when where it logs in changes.
Complete(edit) ==
  kind = "account" /\ edit.of # None /\ edit.from.secret # None /\ edit.text # edit.from.text => edit.password

\* Save is offered while no save is under way; here, nor a delete.
Press ==
  /\ form # Closed /\ saving = Idle /\ dialog = Idle /\ Complete(form)
  /\ saving' = [at |-> "sent", edit |-> form]
  /\ UNCHANGED <<kind, rows, cached, form, dialog, inUse, changes>>

\* Two live codes of an event can't have the same text.
Clashes(id, text) == kind = "promo" /\ \E i \in Ids \ {id} : rows[i].st = "live" /\ rows[i].text = text

\* A stored password is only for where it was entered.
NeedsPassword(id, text, password) == rows[id].secret # None /\ text # rows[id].text => password

Fits(id, text, password) ==
  /\ rows[id].st = "live"
  /\ ~Clashes(id, text)
  /\ NeedsPassword(id, text, password)

Stored(id, text, password) ==
  /\ changes < MaxChanges
  /\ changes' = changes + 1
  /\ rows' = [rows EXCEPT ![id].version = @ + 1, ![id].text = text,
                          ![id].secret = IF password THEN text ELSE @]

Current(edit) == rows[edit.of].version = edit.from.version

ServeUpdate ==
  /\ saving.at = "sent" /\ saving.edit.of # None
  /\ LET e == saving.edit
         answer(at) == saving' = [saving EXCEPT !.at = at] /\ UNCHANGED <<rows, changes>> IN
     \/ /\ rows[e.of].st = "live" /\ Current(e) /\ Fits(e.of, e.text, e.password)
        /\ Stored(e.of, e.text, e.password)
        /\ saving' = [saving EXCEPT !.at = "saved"]
     \/ /\ rows[e.of].st = "live" /\ ~Current(e)
        /\ answer("conflict")
     \/ /\ rows[e.of].st # "live" \/ (Current(e) /\ ~Fits(e.of, e.text, e.password))
        /\ answer("failed")
  /\ UNCHANGED <<kind, cached, form, dialog, inUse>>

ServeCreate ==
  /\ saving.at = "sent" /\ saving.edit.of = None
  /\ LET e == saving.edit IN
     \/ /\ ~Clashes(None, e.text)
        /\ changes < MaxChanges
        /\ changes' = changes + 1
        /\ \E id \in Ids :
             /\ rows[id].st = "none"
             /\ rows' = [rows EXCEPT ![id] = [Blank EXCEPT !.st = "live", !.text = e.text,
                                              !.secret = IF e.password THEN e.text ELSE None]]
        /\ saving' = [saving EXCEPT !.at = "saved"]
     \/ /\ Clashes(None, e.text)
        /\ saving' = [saving EXCEPT !.at = "failed"]
        /\ UNCHANGED <<rows, changes>>
  /\ UNCHANGED <<kind, cached, form, dialog, inUse>>

\* The answer never comes.
Lose ==
  /\ saving.at \in {"sent", "saved"}
  /\ saving' = [saving EXCEPT !.at = "failed"]
  /\ UNCHANGED <<kind, rows, cached, form, dialog, inUse, changes>>

\* A save's end closes whichever form is open by then; an organization's stays after a conflict.
TakeAnswer ==
  /\ saving.at \in {"saved", "conflict", "failed"}
  /\ saving' = Idle
  /\ form' = IF saving.at = "saved" \/ (saving.at = "conflict" /\ kind # "organization") THEN Closed ELSE form
  /\ UNCHANGED <<kind, rows, cached, dialog, inUse, changes>>

-----------------------------------------------------------------------------
(* Deleting and restoring, and the account the event sends through *)

AskDelete(id) ==
  /\ Free /\ dialog = Idle /\ saving = Idle /\ cached[id].st = "live"
  /\ dialog' = [at |-> "asking", of |-> id, from |-> cached[id]]
  /\ UNCHANGED <<kind, rows, cached, form, saving, inUse, changes>>

\* Delete is offered once the server says nothing is in the way.
Confirm ==
  /\ dialog.at = "asking"
  /\ \/ dialog.of \notin inUse /\ dialog' = [dialog EXCEPT !.at = "sent"]
     \/ dialog' = Idle
  /\ UNCHANGED <<kind, rows, cached, form, saving, inUse, changes>>

Deletable(id) == rows[id].st = "live" /\ id \notin inUse

Deleted(id) ==
  /\ changes < MaxChanges
  /\ changes' = changes + 1
  /\ rows' = [rows EXCEPT ![id].st = IF kind = "promo" THEN "deleted" ELSE "gone", ![id].version = @ + 1]

ServeDelete ==
  /\ dialog.at = "sent"
  /\ IF Deletable(dialog.of) /\ Current(dialog) THEN Deleted(dialog.of) ELSE UNCHANGED <<rows, changes>>
  /\ dialog' = Idle
  /\ UNCHANGED <<kind, cached, form, saving, inUse>>

Restore(id) ==
  /\ Free /\ cached[id].st = "deleted"
  /\ rows[id].st = "deleted" /\ ~Clashes(id, rows[id].text)
  /\ changes < MaxChanges
  /\ changes' = changes + 1
  /\ rows' = [rows EXCEPT ![id].st = "live", ![id].version = @ + 1]
  /\ UNCHANGED <<kind, cached, form, saving, dialog, inUse>>

ChooseAccount(id) ==
  /\ Free /\ kind = "account"
  /\ id # None => cached[id].st = "live" /\ rows[id].st = "live"
  /\ inUse' = {id} \ {None}
  /\ inUse' # inUse
  /\ UNCHANGED <<kind, rows, cached, form, saving, dialog, changes>>

\* Another client's save or delete, which names no version.
SaveElsewhere(id, text, password) ==
  /\ password => kind = "account"
  /\ Fits(id, text, password)
  /\ Stored(id, text, password)
  /\ UNCHANGED <<kind, cached, form, saving, dialog, inUse>>

DeleteElsewhere(id) ==
  /\ Deletable(id)
  /\ Deleted(id)
  /\ UNCHANGED <<kind, cached, form, saving, dialog, inUse>>

ListNext ==
  \/ \E id \in Ids :
       \/ EditRow(id) \/ AskDelete(id) \/ Restore(id) \/ DeleteElsewhere(id)
       \/ \E text \in Texts, password \in BOOLEAN : SaveElsewhere(id, text, password)
  \/ \E id \in Ids \cup {None} : ChooseAccount(id)
  \/ \E text \in Texts : Type(text)
  \/ Add \/ TypePassword \/ Cancel \/ Refetch \/ Press \/ ServeUpdate \/ ServeCreate \/ Lose \/ TakeAnswer
  \/ Confirm \/ ServeDelete

ListSpec == ListInit /\ [][ListNext]_listVars

-----------------------------------------------------------------------------
(* Properties *)

\* A save or a delete replaces only what its user was shown, whatever else came between: the
\* text the form was begun from, the row as Delete was pressed.
ReplacesWhatWasShown ==
  [][\A id \in Ids : rows'[id] # rows[id] =>
       /\ saving.at = "sent" /\ saving'.at = "saved" /\ saving.edit.of = id =>
            saving.edit.from.text = rows[id].text
       /\ dialog.at = "sent" /\ dialog' = Idle => dialog.from.text = rows[id].text]_listVars

\* A stored password is never sent to a server, or as a user, other than the one it was entered
\* for, whichever client changed it (serializers.py, DR-126).
PasswordStaysPut == \A id \in Ids : rows[id].secret \in {None, rows[id].text}

\* What an event sends through, and what has events, isn't deleted while it does.
UsedStays == \A id \in inUse : rows[id].st = "live"
=============================================================================
