----------------------------- MODULE DraftSaves ----------------------------
(***************************************************************************)
(* One Save for a record and the email templates edited with it: the       *)
(* event and its confirmation and invoice emails (EventAdminHome), a       *)
(* registration type and its invitation (RegistrationTypeForm).  The       *)
(* record's changes are saved first, then each template's draft            *)
(* (hooks/useTemplateDraft) from the version it was begun from, and what   *)
(* isn't saved stops the rest.                                             *)
(*                                                                         *)
(* A record or template has one text, which a merge takes whole.  `seen',  *)
(* `kept' and `told' only remember what was done, for the properties.      *)
(***************************************************************************)
EXTENDS Naturals, Sequences, SequencesExt, FiniteSetsExt

CONSTANTS None, Texts,
          Emails,    \* the templates edited with the record, in the order they are saved
          MaxSaves   \* bounds the saves in a run

VARIABLES
  page,    \* which page: "home" or "type"
  stored,  \* the server's record and templates
  cached,  \* the page's copies
  open,    \* the form is open (Home always is)
  main,    \* the record's form: what its save starts from, what it shows and has
  drafts,  \* each template's edit, if it was changed
  saving,  \* the save under way, with what was being edited as Save was pressed
  seen,    \* the newest version of each that the user was shown
  kept,    \* what was changed as Save was pressed, and isn't stored yet, is FALSE
  told     \* what the page last said of the edits

draftVars == <<page, stored, cached, open, main, drafts, saving, seen, kept, told>>

Templates == ToSet(Emails)
Docs == {"record"} \cup Templates
\* In the order they are saved.
Order == <<"record">> \o Emails

Copy == [version : 1..(MaxSaves + 1), text : Texts]
Edit == [from : Copy, text : Texts]
Idle == [at |-> "idle"]
Attempt == [at : {"sent", "saved", "refused", "asking"}, doc : DOMAIN Order, edits : [Docs -> Edit \cup {None}],
            current : Copy, touched : BOOLEAN, gone : BOOLEAN]

DraftsTypeOK ==
  /\ page \in {"home", "type"}
  /\ stored \in [Docs -> Copy] /\ cached \in [Docs -> Copy]
  /\ open \in BOOLEAN /\ (page = "home" => open)
  /\ main \in [from : Copy, shown : Copy, text : Texts]
  /\ drafts \in [Templates -> Edit \cup {None}]
  /\ saving \in {Idle} \cup Attempt
  /\ seen \in [Docs -> 1..(MaxSaves + 1)]
  /\ kept \in [Docs -> BOOLEAN]
  /\ told \in {"nothing", "saved", "discarded"}

-----------------------------------------------------------------------------
(* The form *)

FromRecord(copy) == [from |-> copy, shown |-> copy, text |-> copy.text]

DraftsInit ==
  \E text \in {CHOOSE t \in Texts : TRUE} :
    /\ page \in {"home", "type"}
    /\ stored = [d \in Docs |-> [version |-> 1, text |-> text]]
    /\ cached = stored
    /\ open = (page = "home")
    /\ main = FromRecord(stored["record"])
    /\ drafts = [t \in Templates |-> None]
    /\ saving = Idle
    /\ seen = [d \in Docs |-> 1]
    /\ kept = [d \in Docs |-> TRUE]
    /\ told = "nothing"

\* A conflict's modal covers the form.
Free == open /\ saving.at # "asking"

Changed(edits) == \E t \in Templates : edits[t] # None
EmailChanged == Changed(drafts)

\* What the form shows of a template: its draft, else the saved text.
DraftText(t) == IF drafts[t] = None THEN cached[t].text ELSE drafts[t].text

\* Home's event follows a newer version while it is unchanged; a type's form while its
\* email is unchanged too.
Unchanged(m, edits) == m.text = m.shown.text /\ (page = "type" => ~Changed(edits))

Following(m, edits, copy) ==
  IF copy.version > m.shown.version /\ Unchanged(m, edits) THEN FromRecord(copy) ELSE m

\* The form becomes `m' and `edits', with `copies' to follow and `d' as at `version' shown.
ShowForm(m, edits, copies, d, version) ==
  LET shown == Following(m, edits, copies["record"]) IN
  /\ main' = shown
  /\ drafts' = edits
  /\ seen' = [e \in Docs |->
       Max({seen[e], IF e = d THEN version ELSE 1,
            IF e = "record" THEN shown.shown.version
            ELSE IF edits[e] = None THEN copies[e].version ELSE 1})]

Touch == saving' = IF saving = Idle \/ saving.gone THEN saving ELSE [saving EXCEPT !.touched = TRUE]

TypeRecord(text) ==
  /\ Free /\ text # main.text
  /\ ShowForm([main EXCEPT !.text = text], drafts, cached, "record", 1)
  /\ Touch
  /\ told' = "nothing"
  /\ UNCHANGED <<page, stored, cached, open, kept>>

\* The first change to a template remembers the version it began from.
EditOf(t, text) ==
  IF drafts[t] = None THEN [from |-> cached[t], text |-> text] ELSE [drafts[t] EXCEPT !.text = text]

TypeTemplate(t, text) ==
  /\ Free /\ text # DraftText(t)
  /\ drafts' = [drafts EXCEPT ![t] = EditOf(t, text)]
  /\ told' = "nothing"
  /\ UNCHANGED <<page, stored, cached, open, main, saving, seen, kept>>

\* The page's copy of a record or template is fetched again, and shown if nothing is unsaved.
Refetch(d) ==
  /\ cached[d] # stored[d]
  /\ cached' = [cached EXCEPT ![d] = stored[d]]
  /\ IF open THEN ShowForm(main, drafts, cached', d, 1) ELSE UNCHANGED <<main, drafts, seen>>
  /\ UNCHANGED <<page, stored, open, saving, kept, told>>

\* A type's form is opened as the page has the type; and closed, asking first if its email
\* is changed.
Open ==
  /\ ~open
  /\ open' = TRUE
  /\ ShowForm(FromRecord(cached["record"]), [t \in Templates |-> None], cached, "record", 1)
  /\ UNCHANGED <<page, stored, cached, saving, kept, told>>

Close ==
  /\ page = "type" /\ Free
  /\ open' = FALSE
  /\ told' = IF EmailChanged THEN "discarded" ELSE "nothing"
  /\ saving' = IF saving = Idle THEN Idle ELSE [saving EXCEPT !.gone = TRUE]
  /\ UNCHANGED <<page, stored, cached, main, drafts, seen, kept>>

-----------------------------------------------------------------------------
(* Save *)

Doc == Order[saving.doc]

\* What the save works on: the edits as they were when Save was pressed.
Pressed ==
  [d \in Docs |-> IF d # "record" THEN drafts[d]
                  ELSE IF main.text = main.from.text THEN None
                  ELSE [from |-> main.from, text |-> main.text]]

\* The next of `edits' after the first n: one unchanged isn't sent.
Remaining(edits, n) == {i \in DOMAIN Order : i > n /\ edits[Order[i]] # None}

\* The save goes on after the first n, or ends: everything is saved, and a type's form closes,
\* whichever is open by now.
GoOn(edits, n, gone) ==
  IF Remaining(edits, n) # {}
  THEN /\ saving' = [at |-> "sent", doc |-> Min(Remaining(edits, n)), edits |-> edits,
                     current |-> main.from, touched |-> FALSE, gone |-> gone]
       /\ UNCHANGED open
       /\ told' = "nothing"
  ELSE /\ saving' = Idle
       /\ open' = (page = "home")
       /\ told' = "saved"

Stop ==
  /\ saving' = Idle
  /\ UNCHANGED <<open, told>>

\* A type whose name and label aren't sent goes back to those of the version it shows.
Press ==
  /\ Free /\ saving = Idle
  /\ GoOn(Pressed, 0, FALSE)
  /\ kept' = [d \in Docs |-> Pressed[d] = None]
  /\ main' = IF page = "type" /\ Pressed["record"] = None THEN [main EXCEPT !.text = main.shown.text] ELSE main
  /\ UNCHANGED <<page, stored, cached, drafts, seen>>

Stored == MapThenSumSet(LAMBDA d : stored[d].version - 1, Docs)

Answer ==
  /\ saving.at = "sent"
  /\ LET d == Doc
         edit == saving.edits[d] IN
     \/ /\ edit.from.version = stored[d].version
        /\ Stored < MaxSaves
        /\ stored' = [stored EXCEPT ![d] = [version |-> @.version + 1, text |-> edit.text]]
        /\ kept' = [kept EXCEPT ![d] = TRUE]
        /\ saving' = [saving EXCEPT !.at = "saved", !.current = stored'[d]]
     \/ /\ edit.from.version # stored[d].version
        /\ saving' = [saving EXCEPT !.at = "refused", !.current = stored[d]]
        /\ UNCHANGED <<stored, kept>>
  /\ UNCHANGED <<page, cached, open, main, drafts, seen, told>>

\* A save that fails, or whose answer is lost, stops the rest.
Fail ==
  /\ saving.at \in {"sent", "saved"}
  /\ Stop
  /\ UNCHANGED <<page, stored, cached, main, drafts, seen, kept>>

GoOnIfSaved(saved) == IF saved THEN GoOn(saving.edits, saving.doc, saving.gone) ELSE Stop

\* What the form becomes when a save ends with `copy': what was saved, or theirs.
Ended(copy, saved) ==
  LET d == Doc IN
  /\ GoOnIfSaved(saved)
  /\ IF saving.gone THEN UNCHANGED <<main, drafts, seen>>
     ELSE IF d = "record"
     THEN LET text == IF saved /\ page = "home" /\ saving.touched THEN main.text ELSE copy.text IN
          ShowForm([FromRecord(copy) EXCEPT !.text = text], drafts, cached, d, copy.version)
     ELSE ShowForm(main, [drafts EXCEPT ![d] = None], cached, d, 1)

TakeSaved ==
  /\ saving.at = "saved"
  /\ Ended(saving.current, TRUE)
  /\ UNCHANGED <<page, stored, cached, kept>>

\* Put on top of theirs, and sent again.
Rebase ==
  LET d == Doc
      edit == [from |-> saving.current, text |-> saving.edits[d].text] IN
  /\ saving' = [saving EXCEPT !.at = "sent", !.edits[d] = edit, !.touched = FALSE]
  /\ IF saving.gone THEN UNCHANGED <<main, drafts>> /\ seen' = [seen EXCEPT ![d] = Max({@, saving.current.version})]
     ELSE IF d = "record"
     THEN ShowForm([from |-> edit.from, text |-> edit.text,
                    shown |-> IF page = "home" THEN edit.from ELSE main.shown],
                   drafts, cached, d, edit.from.version)
     ELSE ShowForm(main, [drafts EXCEPT ![d] = edit], cached, d, edit.from.version)

TakeRefusal ==
  /\ saving.at = "refused"
  /\ LET edit == saving.edits[Doc] IN
     \/ /\ saving.current.text = edit.text
        /\ Ended(saving.current, TRUE)
        /\ kept' = [kept EXCEPT ![Doc] = TRUE]
     \/ /\ saving.current.text # edit.text /\ saving.current.text = edit.from.text
        /\ Rebase
        /\ UNCHANGED <<open, kept, told>>
     \/ /\ saving.current.text # edit.text /\ saving.current.text # edit.from.text
        /\ saving' = [saving EXCEPT !.at = "asking"]
        /\ UNCHANGED <<open, main, drafts, seen, kept, told>>
  /\ UNCHANGED <<page, stored, cached>>

Reapply ==
  /\ saving.at = "asking"
  /\ Rebase
  /\ UNCHANGED <<page, stored, cached, open, kept, told>>

Discard ==
  /\ saving.at = "asking"
  /\ Ended(saving.current, FALSE)
  /\ UNCHANGED <<page, stored, cached, kept>>

\* Someone else saves one of them: its text, or something else of it.
SaveElsewhere(d, text) ==
  /\ Stored < MaxSaves
  /\ stored' = [stored EXCEPT ![d] = [version |-> @.version + 1, text |-> text]]
  /\ UNCHANGED <<page, cached, open, main, drafts, saving, seen, kept, told>>

DraftsNext ==
  \/ \E text \in Texts :
       \/ TypeRecord(text)
       \/ \E t \in Templates : TypeTemplate(t, text)
       \/ \E d \in Docs : SaveElsewhere(d, text)
  \/ \E d \in Docs : Refetch(d)
  \/ Open \/ Close
  \/ Press \/ Answer \/ Fail \/ TakeSaved \/ TakeRefusal \/ Reapply \/ Discard

DraftsSpec == DraftsInit /\ [][DraftsNext]_draftVars

-----------------------------------------------------------------------------
(* Properties *)

\* "Saved" is said only once everything that was changed as Save was pressed is stored:
\* one part failing, or dropped for someone else's, is never said to be saved.
SaidSavedIsSaved == told = "saved" => \A i \in DOMAIN Order : kept[Order[i]]

\* A save overwrites only a text its user was shown, in the form or in an edit conflict,
\* whichever of them it is and whenever its draft was begun.
DraftsOverwriteSeen ==
  [][\A d \in Docs : saving.at = "sent" /\ saving'.at = "saved" /\ stored'[d] # stored[d] =>
       stored'[d].text = stored[d].text \/ seen[d] = stored[d].version]_draftVars

\* RegistrationTypeForm.tsx:9 says closing it with the email changed and unsaved asks first;
\* its own save, ending, closes it over what was typed meanwhile.
ClosingAsks ==
  [][open /\ ~open' /\ EmailChanged => told' = "discarded"]_draftVars
=============================================================================
