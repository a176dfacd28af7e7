------------------------------ MODULE Reports ------------------------------
(***************************************************************************)
(* The Reports page (EventAdminReports) and its form (ReportEditForm): one *)
(* user's page, whose selection is in the URL, against others' saves.  The *)
(* form shows newer versions while nothing in it is unsaved                *)
(* (useLatestWhileUnchanged), saves from the version it shows, asking when *)
(* someone else saved first (useConflictAwareSave), and leaving it asks    *)
(* about unsaved changes (useUnsavedChanges).                              *)
(*                                                                         *)
(* A report is where its variables come from, its output format, of which  *)
(* only Handlebars (hbs) is told apart, and a text, for all the rest.  An  *)
(* answer to a modal is given in the step that opens it, but the edit      *)
(* conflict's.                                                             *)
(***************************************************************************)
EXTENDS Naturals, FiniteSetsExt

CONSTANTS None, Ids, Texts,
          MaxSaves   \* bounds the saves in a run

VARIABLES
  reports,  \* the server's, by id; None until it is created
  list,     \* the page's copies
  page,     \* its mode, the report in its URL, and whether leaving was let go unasked
  form,     \* the form, when one shows
  saving    \* the save under way: what was edited, from which version

reportVars == <<reports, list, page, form, saving>>

ReportFields == [source : {"server", "client"}, output : {"csv", "hbs"}, text : Texts]
Report == [id : Ids, version : 1..(MaxSaves + 1), fields : ReportFields]
NoForm == [at |-> "none"]
Idle == [at |-> "idle"]
\* The report it has and its fields as its save starts from them (None for a new one), those
\* unsaved changes are measured from, and the version of the report that it last showed (None
\* if it never did).
Form == [report : Report \cup {None}, start : Report \cup {None},
         initial : ReportFields, fields : ReportFields,
         shown : Report \cup {None}]
Attempt == [at : {"sent", "saved", "refused", "asking"}, start : Report \cup {None},
            fields : ReportFields,
            shown : Report \cup {None}, current : Report \cup {None}, gone : BOOLEAN]

ReportsTypeOK ==
  /\ \A i \in Ids : reports[i] \in Report \cup {None} /\ list[i] \in Report \cup {None}
  /\ page \in [mode : {"view", "edit", "create"}, at : Ids \cup {None}, released : BOOLEAN]
  /\ form \in {NoForm} \cup Form
  /\ saving \in {Idle} \cup Attempt

NewReport == [source |-> "server", output |-> "csv", text |-> CHOOSE t \in Texts : TRUE]
Legacy == [NewReport EXCEPT !.source = "client"]

\* A report from before the server had variables, and those to create.
ReportsInit ==
  /\ reports = [i \in Ids |-> IF i = (CHOOSE old \in Ids : TRUE)
                              THEN [id |-> i, version |-> 1, fields |-> Legacy] ELSE None]
  /\ list = reports
  /\ page = [mode |-> "view", at |-> None, released |-> FALSE]
  /\ form = NoForm
  /\ saving = Idle

-----------------------------------------------------------------------------
(* What the page shows *)

FormOf(fields, report) ==
  [report |-> report, start |-> report, initial |-> fields, fields |-> fields, shown |-> report]

FormOn(report) == FormOf(report.fields, report)

Dirty(f) == f # NoForm /\ f.fields # f.initial

Shows(mode, id, copies) == mode = "create" \/ (mode = "edit" /\ id # None /\ copies[id] # None)

\* The form, told of another report, saves to that one and still shows what it showed.
Moved(f, report) ==
  IF f.report # None /\ f.report.id = report.id THEN f
  ELSE [f EXCEPT !.report = report, !.start = report, !.shown = None]

\* A newer version is shown while nothing is unsaved.
Following(f, copies) ==
  IF f.report # None /\ ~Dirty(f) /\ copies[f.report.id].version > f.report.version
  THEN FormOn(copies[f.report.id]) ELSE f

\* The page comes to be in `mode' at `id', its form being `f' if it stays open.
Show(mode, id, f, released, copies) ==
  LET next == IF ~Shows(mode, id, copies) THEN NoForm
              ELSE IF mode = "create" THEN IF f = NoForm THEN FormOf(NewReport, None) ELSE f
              ELSE IF f = NoForm THEN FormOn(copies[id])
              ELSE Following(Moved(f, copies[id]), copies) IN
  /\ page' = [mode |-> mode, at |-> id, released |-> released /\ Dirty(next)]
  /\ form' = next

Unmount == saving' = IF saving = Idle THEN Idle ELSE [saving EXCEPT !.gone = TRUE]

Refetch ==
  /\ list # reports
  /\ list' = reports
  /\ Show(page.mode, page.at, form, page.released, list')
  /\ UNCHANGED <<reports, saving>>

-----------------------------------------------------------------------------
(* Going about the page.  The conflict's modal covers it. *)

Free == saving.at # "asking"

\* Leaving with unsaved changes asks, unless it was let go already; the user discards them.
Released == page.released \/ Dirty(form)

Select(id) ==
  /\ Free /\ list[id] # None /\ <<page.mode, page.at>> # <<"view", id>>
  /\ Show("view", id, NoForm, FALSE, list)
  /\ Unmount
  /\ UNCHANGED <<reports, list>>

Edit ==
  /\ Free /\ page.mode = "view" /\ page.at # None /\ list[page.at] # None
  /\ Show("edit", page.at, NoForm, FALSE, list)
  /\ UNCHANGED <<reports, list, saving>>

\* A form already there for a new report stays as it is, whatever was answered.
New ==
  /\ Free
  /\ IF page.mode = "create"
     THEN Show("create", None, form, Released, list) /\ UNCHANGED saving
     ELSE Show("create", None, NoForm, FALSE, list) /\ Unmount
  /\ UNCHANGED <<reports, list>>

Cancel ==
  /\ Free /\ form # NoForm
  /\ Show("view", IF page.mode = "create" THEN None ELSE page.at, NoForm, FALSE, list)
  /\ Unmount
  /\ UNCHANGED <<reports, list>>

\* The browser's back and forward change the URL's report, and not the mode.
Back(id) ==
  /\ Free /\ id # page.at
  /\ Show(page.mode, id, form, Released, list)
  /\ IF form' = NoForm THEN Unmount ELSE UNCHANGED saving
  /\ UNCHANGED <<reports, list>>

\* Changing to the server's variables leaves Handlebars, which it doesn't offer.
Sourced(fields, source) ==
  [fields EXCEPT !.source = source, !.output = IF source = "server" THEN "csv" ELSE @]

Typed(fields) ==
  {Sourced(fields, s) : s \in {"server", "client"}}
    \cup {[fields EXCEPT !.output = o] : o \in {"csv"} \cup IF fields.source = "client" THEN {"hbs"} ELSE {}}
    \cup {[fields EXCEPT !.text = t] : t \in Texts}

Type(fields) ==
  /\ Free /\ form # NoForm /\ fields # form.fields
  /\ LET next == [form EXCEPT !.fields = fields] IN
       IF next.report = None THEN form' = next ELSE form' = Following(next, list)
  /\ page' = [page EXCEPT !.released = @ /\ Dirty(form')]
  /\ UNCHANGED <<reports, list, saving>>

-----------------------------------------------------------------------------
(* Saving *)

Total == MapThenSumSet(LAMBDA i : IF reports[i] = None THEN 0 ELSE reports[i].version, Ids)

\* The server refuses Handlebars with its own variables, whichever of them was sent.
Fits(base, fields) == ~(fields.source = "server" /\ fields.output = "hbs")

\* `base' with the changes that `fields' makes to `from'.
Patched(base, from, fields) ==
  [f \in DOMAIN base |-> IF fields[f] = from[f] THEN base[f] ELSE fields[f]]

\* One save at a time.  Nothing changed isn't sent, and leaves the form.
Press ==
  /\ Free /\ form # NoForm /\ saving = Idle
  /\ IF form.report # None /\ form.fields = form.start.fields
     THEN /\ Show("view", page.at, NoForm, FALSE, list)
          /\ UNCHANGED saving
     ELSE /\ saving' = [at |-> "sent", start |-> form.start, fields |-> form.fields,
                        shown |-> form.shown, current |-> None, gone |-> FALSE]
          /\ UNCHANGED <<page, form>>
  /\ UNCHANGED <<reports, list>>

ServeUpdate ==
  /\ saving.at = "sent" /\ saving.start # None
  /\ LET now == reports[saving.start.id]
         next == [now EXCEPT !.version = @ + 1, !.fields = Patched(@, saving.start.fields, saving.fields)] IN
     \/ /\ now.version = saving.start.version /\ Fits(now.fields, next.fields)
        /\ Total <= MaxSaves
        /\ reports' = [reports EXCEPT ![now.id] = next]
        /\ saving' = [saving EXCEPT !.at = "saved", !.current = next]
     \/ /\ now.version = saving.start.version /\ ~Fits(now.fields, next.fields)
        /\ saving' = Idle
        /\ UNCHANGED reports
     \/ /\ now.version # saving.start.version
        /\ saving' = [saving EXCEPT !.at = "refused", !.current = now]
        /\ UNCHANGED reports
  /\ UNCHANGED <<list, page, form>>

ServeCreate ==
  /\ saving.at = "sent" /\ saving.start = None
  /\ Fits(saving.fields, saving.fields)
  /\ Total <= MaxSaves
  /\ \E i \in Ids :
       /\ reports[i] = None
       /\ reports' = [reports EXCEPT ![i] = [id |-> i, version |-> 1, fields |-> saving.fields]]
       /\ saving' = [saving EXCEPT !.at = "saved", !.current = reports'[i]]
  /\ UNCHANGED <<list, page, form>>

\* The save fails, or its answer is lost: the form stays as it is.
Fail ==
  /\ saving.at \in {"sent", "saved"}
  /\ saving' = Idle
  /\ UNCHANGED <<reports, list, page, form>>

\* A save ends by viewing the report; a created one is selected, if its form is still there.
\* A saved one closes whichever form is open by then.
Saved ==
  IF saving.start # None THEN Show("view", page.at, NoForm, FALSE, list)
  ELSE IF saving.gone THEN UNCHANGED <<page, form>>
  ELSE Show("view", saving.current.id, NoForm, FALSE, list)

TakeSaved ==
  /\ saving.at = "saved"
  /\ Saved
  /\ saving' = Idle
  /\ UNCHANGED <<reports, list>>

\* Someone else saved first: theirs is what was wanted, or is asked about.
TakeRefusal ==
  /\ saving.at = "refused"
  /\ IF saving.current.fields = saving.fields
     THEN Saved /\ saving' = Idle
     ELSE saving' = [saving EXCEPT !.at = "asking"] /\ UNCHANGED <<page, form>>
  /\ UNCHANGED <<reports, list>>

\* Put on top of theirs, which the modal shows, and saved again.
Reapply ==
  /\ saving.at = "asking"
  /\ LET merged == Patched(saving.current.fields, saving.start.fields, saving.fields) IN
     /\ saving' = [saving EXCEPT !.at = "sent", !.start = saving.current, !.shown = saving.current,
                                 !.fields = merged]
     /\ form' = IF saving.gone \/ form.report.id # saving.start.id THEN form
                ELSE [form EXCEPT !.start = saving.current, !.shown = saving.current, !.fields = merged]
     /\ page' = [page EXCEPT !.released = @ /\ Dirty(form')]
  /\ UNCHANGED <<reports, list>>

Discard ==
  /\ saving.at = "asking"
  /\ form' = IF saving.gone \/ form.report.id # saving.start.id THEN form
             ELSE Following(FormOn(saving.current), list)
  /\ page' = [page EXCEPT !.released = @ /\ Dirty(form')]
  /\ saving' = Idle
  /\ UNCHANGED <<reports, list>>

\* Someone else saves a report, as its form would.
SaveElsewhere(id, fields) ==
  /\ reports[id] # None /\ fields # reports[id].fields /\ Fits(reports[id].fields, fields)
  /\ Total <= MaxSaves
  /\ reports' = [reports EXCEPT ![id].version = @ + 1, ![id].fields = fields]
  /\ UNCHANGED <<list, page, form, saving>>

ReportsNext ==
  \/ \E id \in Ids :
       \/ Select(id)
       \/ reports[id] # None /\ \E fields \in Typed(reports[id].fields) : SaveElsewhere(id, fields)
  \/ \E id \in Ids \cup {None} : Back(id)
  \/ form # NoForm /\ \E fields \in Typed(form.fields) : Type(fields)
  \/ Refetch \/ Edit \/ New \/ Cancel
  \/ Press \/ ServeUpdate \/ ServeCreate \/ Fail \/ TakeSaved \/ TakeRefusal \/ Reapply \/ Discard

ReportsSpec == ReportsInit /\ [][ReportsNext]_reportVars

-----------------------------------------------------------------------------
(* Properties *)

\* A Handlebars report renders in the browser, with the browser's variables: no saves that cross
\* make one the server has the variables of (serializers.py ReportSerializer.validate).
HandlebarsIsLegacy == \A i \in Ids : reports[i] # None => Fits(reports[i].fields, reports[i].fields)

ShownAsStored == saving.shown # None /\ saving.shown = reports[saving.start.id]
Overwrites == saving.at = "sent" /\ saving'.at = "saved" /\ saving.start # None

\* What a save replaces, its form or the edit conflict had shown, as long as its page stayed on
\* the report it opened: nobody's change is lost unseen.
OwnOverwritesSeen == [][Overwrites /\ saving.shown # None => ShownAsStored]_reportVars

\* ReportEditForm.tsx:247 says a change someone else saved meanwhile is never overwritten
\* unseen; after Back, a report's changes are overwritten with another report's text.
ReportsOverwriteSeen == [][Overwrites => ShownAsStored]_reportVars

\* EventAdminReports.tsx:6 says leaving a form with unsaved changes asks first; once New report
\* was pressed over a new report's and they were discarded, it doesn't ask again.
LeavingAsks ==
  [][Dirty(form) /\ form' = NoForm /\ list' = list /\ saving.at \notin {"saved", "refused"} =>
       ~page.released]_reportVars
=============================================================================
