----------------------------- MODULE RecordEdit -----------------------------
(***************************************************************************)
(* Editing one record in several browser tabs (hooks/useEditableRecord):   *)
(* a form follows its record while nothing in it is unsaved, and its save  *)
(* sends the changed fields with the version they were made from.  A save  *)
(* refused because someone else saved first is merged onto theirs and sent *)
(* again, after asking when they changed any field the form covers.        *)
(*                                                                         *)
(* A field is taken whole; the merge inside a field's JSON is left out.    *)
(* `seen' and `typed' only serve to state what a save may change.          *)
(***************************************************************************)
EXTENDS Naturals, FiniteSets

CONSTANTS Tabs, Fields, Values,
          MaxVersion    \* bounds the saves of the record in a run

ASSUME VersionAssumption == MaxVersion \in Nat \ {0}
ASSUME ValuesAssumption == Values # {}
ASSUME TabsAssumption == IsFiniteSet(Tabs)

VARIABLES
  record,   \* the server's record: its version, fields and whether it exists
  cached,   \* each tab's copy of the record, in its query cache
  edit,     \* each tab's form: the fields and version it started from, and the form
  saving,   \* each tab's save under way
  seen,     \* the last saved fields each tab's user was shown
  typed     \* the fields each tab's user typed in, or a save's end left unsaved, since the
            \* form last showed just the record

recordVars == <<record, cached, edit, saving, seen, typed>>

Form == [Fields -> Values]
Versions == 1..MaxVersion
Copy == [version : Versions, fields : Form]
Idle == [at |-> "idle"]
\* What a save works on (the loop's base, version and form), the record its answer
\* came with, and whether the form was changed since it was last sent (`sent').
Attempt == [at : {"sent", "saved", "lost", "failed", "refused", "asking"}, base : Form,
            version : Versions, form : Form, current : Copy, touched : BOOLEAN]

RecordTypeOK ==
  /\ record \in [version : Versions, fields : Form, exists : BOOLEAN]
  /\ cached \in [Tabs -> Copy]
  /\ edit \in [Tabs -> [base : Form, version : Versions, form : Form]]
  /\ saving \in [Tabs -> {Idle} \cup Attempt]
  /\ seen \in [Tabs -> Form]
  /\ typed \in [Tabs -> SUBSET Fields]

-----------------------------------------------------------------------------
(* The form *)

FromRecord(copy) == [base |-> copy.fields, version |-> copy.version, form |-> copy.fields]

Dirty(e) == e.base # e.form

IsNewer(copy, e) == copy.version > e.version

KeepsForm(e, copy) == e                                        \* mutant
\* The form follows the record while there is nothing to lose.
Following(e, copy) == IF IsNewer(copy, e) /\ ~Dirty(e) THEN FromRecord(copy) ELSE e

MergedMine(base, mine, theirs) == mine                         \* mutant
\* The fields a three-way merge takes from mine: those I changed.
Merged(base, mine, theirs) ==
  [f \in Fields |-> IF mine[f] = base[f] THEN theirs[f] ELSE mine[f]]

\* The PATCH: the changed fields over the record's.
Patched(fields, base, form) ==
  [f \in Fields |-> IF form[f] # base[f] THEN form[f] ELSE fields[f]]

Current == [version |-> record.version, fields |-> record.fields]

\* The form of tab t becomes `e', with `mine' of its user's own in it.  A save under
\* way sees that the form is no longer the one it sent.
ShowForm(t, e, mine) ==
  /\ edit' = [edit EXCEPT ![t] = e]
  /\ seen' = [seen EXCEPT ![t] = e.base]
  /\ typed' = [typed EXCEPT ![t] = IF Dirty(e) \/ saving[t] # Idle THEN mine ELSE {}]

Touch(t) ==
  saving' = IF saving[t] = Idle THEN saving ELSE [saving EXCEPT ![t].touched = TRUE]

RecordInit ==
  \E form \in {[f \in Fields |-> CHOOSE v \in Values : TRUE]} :
    /\ record = [version |-> 1, fields |-> form, exists |-> TRUE]
    /\ cached = [t \in Tabs |-> [version |-> 1, fields |-> form]]
    /\ edit = [t \in Tabs |-> FromRecord([version |-> 1, fields |-> form])]
    /\ saving = [t \in Tabs |-> Idle]
    /\ seen = [t \in Tabs |-> form]
    /\ typed = [t \in Tabs |-> {}]

\* setField: a modal that asks about a conflict covers the form.  (Bound: a save can follow.)
Type(t, f, v) ==
  /\ saving[t].at # "asking"
  /\ record.version < MaxVersion
  /\ v # edit[t].form[f]
  /\ ShowForm(t, Following([edit[t] EXCEPT !.form[f] = v], cached[t]), typed[t] \cup {f})
  /\ Touch(t)
  /\ UNCHANGED <<record, cached>>

\* The cache refetches the record, and the form follows it.
Refetch(t) ==
  /\ record.exists
  /\ cached[t] # Current
  /\ cached' = [cached EXCEPT ![t] = Current]
  /\ LET e == Following(edit[t], Current) IN
     IF e = edit[t] THEN UNCHANGED <<edit, saving, seen, typed>>
     ELSE ShowForm(t, e, typed[t]) /\ Touch(t)
  /\ UNCHANGED record

IsStale(t) == Dirty(edit[t]) /\ IsNewer(cached[t], edit[t])

LoadLatest(t) ==
  /\ IsStale(t)
  /\ saving[t].at # "asking"
  /\ ShowForm(t, FromRecord(cached[t]), typed[t])
  /\ Touch(t)
  /\ UNCHANGED <<record, cached>>

-----------------------------------------------------------------------------
(* Saving: saveResolvingConflicts *)

\* Save, with its button at rest: send the changed fields and the version.
Save(t) ==
  /\ saving[t] = Idle
  /\ Dirty(edit[t])
  /\ record.version + Cardinality({u \in Tabs : saving[u] # Idle}) < MaxVersion
  /\ saving' = [saving EXCEPT ![t] =
       [at |-> "sent", base |-> edit[t].base, version |-> edit[t].version,
        form |-> edit[t].form, touched |-> FALSE,
        current |-> [version |-> edit[t].version, fields |-> edit[t].base]]]
  /\ UNCHANGED <<record, cached, edit, seen, typed>>

MatchesVersion(s) == s.version = record.version

\* The server: saves, or refuses a save made from another version with the record as it is.
Answer(t) ==
  /\ saving[t].at = "sent"
  /\ LET s == saving[t]
         fields == Patched(record.fields, s.base, s.form) IN
     \/ /\ ~record.exists
        /\ saving' = [saving EXCEPT ![t].at = "failed"]
        /\ UNCHANGED record
     \/ /\ record.exists /\ ~MatchesVersion(s)
        /\ saving' = [saving EXCEPT ![t].at = "refused", ![t].current = Current]
        /\ UNCHANGED record
     \/ /\ record.exists /\ MatchesVersion(s)
        /\ record' = [record EXCEPT !.version = @ + 1, !.fields = fields]
        /\ \/ saving' = [saving EXCEPT ![t].at = "saved",
                           ![t].current = [version |-> record.version + 1, fields |-> fields]]
           \/ saving' = [saving EXCEPT ![t].at = "lost"]   \* the answer is lost on its way back
  /\ UNCHANGED <<cached, edit, seen, typed>>

\* The request never reaches the server, or its answer never comes back.
Fail(t) ==
  /\ saving[t].at \in {"sent", "lost", "failed"}
  /\ saving' = [saving EXCEPT ![t] = Idle]
  /\ typed' = [typed EXCEPT ![t] = IF Dirty(edit[t]) THEN @ ELSE {}]
  /\ UNCHANGED <<record, cached, edit, seen>>

\* save's ending: the form is the saved record's, unless it was changed meanwhile, and
\* then what it holds else than the saved record is unsaved.
Saved(t, copy) ==
  LET e == [base |-> copy.fields, version |-> copy.version,
            form |-> IF saving[t].touched THEN edit[t].form ELSE copy.fields] IN
  /\ ShowForm(t, Following(e, cached[t]), {f \in Fields : e.form[f] # e.base[f]})
  /\ saving' = [saving EXCEPT ![t] = Idle]

TakeSaved(t) ==
  /\ saving[t].at = "saved"
  /\ Saved(t, saving[t].current)
  /\ UNCHANGED <<record, cached>>

\* The edit put on top of theirs becomes the form, and is sent again.
Rebase(t) ==
  LET s == saving[t]
      form == Merged(s.base, s.form, s.current.fields)
      e == [base |-> s.current.fields, version |-> s.current.version, form |-> form] IN
  /\ saving' = [saving EXCEPT ![t] = [at |-> "sent", base |-> e.base, version |-> e.version,
                                      form |-> form, current |-> s.current,
                                      touched |-> Following(e, cached[t]) # e]]
  /\ ShowForm(t, Following(e, cached[t]), typed[t])

\* The record already holds just what this edit wanted.
AlreadyThere(s) == s.current.fields = s.form

TheyChanged(s) == s.current.fields # s.base

TakeRefusal(t) ==
  /\ saving[t].at = "refused"
  /\ LET s == saving[t] IN
     \/ AlreadyThere(s) /\ Saved(t, s.current)
     \/ /\ ~AlreadyThere(s) /\ TheyChanged(s)
        /\ saving' = [saving EXCEPT ![t].at = "asking"]
        /\ seen' = [seen EXCEPT ![t] = s.current.fields]
        /\ UNCHANGED <<edit, typed>>
     \/ ~AlreadyThere(s) /\ ~TheyChanged(s) /\ Rebase(t)
  /\ UNCHANGED <<record, cached>>

Reapply(t) ==
  /\ saving[t].at = "asking"
  /\ Rebase(t)
  /\ UNCHANGED <<record, cached>>

Discard(t) ==
  /\ saving[t].at = "asking"
  /\ ShowForm(t, Following(FromRecord(saving[t].current), cached[t]), {})
  /\ saving' = [saving EXCEPT ![t] = Idle]
  /\ UNCHANGED <<record, cached>>

\* Someone deletes the record (from a list, say).
Delete ==
  /\ record.exists
  /\ record' = [record EXCEPT !.exists = FALSE]
  /\ UNCHANGED <<cached, edit, saving, seen, typed>>

TakeAnswer(t) == TakeSaved(t) \/ TakeRefusal(t)
Choose(t) == Reapply(t) \/ Discard(t)

RecordNext ==
  \/ \E t \in Tabs :
       \/ \E f \in Fields, v \in Values : Type(t, f, v)
       \/ Refetch(t) \/ LoadLatest(t)
       \/ Save(t) \/ Answer(t) \/ Fail(t)
       \/ TakeSaved(t) \/ TakeRefusal(t) \/ Reapply(t) \/ Discard(t)
  \/ Delete

\* Requests are answered, answers handled, a modal with no other way out answered,
\* and a stale query refetched (on focus, by the live feed, after a 412).
RecordFairness ==
  \A t \in Tabs :
    /\ WF_recordVars(Answer(t)) /\ WF_recordVars(Fail(t) /\ saving[t].at # "sent")
    /\ WF_recordVars(TakeAnswer(t)) /\ WF_recordVars(Choose(t)) /\ WF_recordVars(Refetch(t))

RecordSpec == RecordInit /\ [][RecordNext]_recordVars /\ RecordFairness

-----------------------------------------------------------------------------
(* Properties *)

\* A save overwrites only what its user saw: whenever a save changes a field of the
\* record, the tab that sent it had shown its user the value it replaces, in the form
\* or in the edit conflict.
OverwritesSeen ==
  [][\A t \in Tabs : saving'[t].at \in {"saved", "lost"} /\ saving[t].at = "sent" =>
       \A f \in Fields : record'.fields[f] # record.fields[f] => seen[t][f] = record.fields[f]]_recordVars

\* A save changes only what its user typed since the form last showed just the record, or
\* the last save's end left unsaved: following, merging and sending again never make it
\* write someone else's field back.
OnlyOwnChanges ==
  [][\A t \in Tabs : saving'[t].at \in {"saved", "lost"} /\ saving[t].at = "sent" =>
       \A f \in Fields : record'.fields[f] # record.fields[f] => f \in typed[t]]_recordVars

\* What is typed while a save is under way, and isn't what the save stored, is still in
\* the form when the save has gone through without asking, or failed.
SavedKeepsTyping ==
  [][\A t \in Tabs : saving[t].at \in {"saved", "lost", "failed"} /\ saving'[t] = Idle =>
       \A f \in Fields : \/ edit[t].form[f] = saving[t].current.fields[f]
                         \/ edit'[t].form[f] = edit[t].form[f]]_recordVars

\* A save overwrites only what its user saw and changes only what they typed, and keeps
\* what they type while it is under way (hooks/useEditableRecord.ts).
SavesLoseNothing == OverwritesSeen /\ OnlyOwnChanges /\ SavedKeepsTyping

\* hooks/useEditableRecord says typing that goes on while a save is under way is kept;
\* this says so of a save that is merged onto someone else's and sent again, too.
TypingKept ==
  [][\A t \in Tabs : saving[t].at \in {"saved", "refused", "asking"} /\ saving'[t].at = "sent" =>
       \A f \in Fields : edit[t].form[f] # saving[t].form[f]
                            => edit'[t].form[f] = edit[t].form[f]]_recordVars

\* hooks/useEditableRecord's loadLatest says it drops the edits for the record as it is:
\* a form that shows just the record has nothing unsaved after its save's end, either.
DroppedStaysDropped ==
  [][\A t \in Tabs : /\ saving[t].at \in {"saved", "refused"} /\ saving'[t] = Idle
                     /\ ~Dirty(edit[t])
       => ~Dirty(edit'[t])]_recordVars

\* A save under way ends, however often others save first.
SavesEnd == \A t \in Tabs : saving[t] # Idle ~> saving[t] = Idle

\* A form with nothing unsaved comes to show the record as it is, unless it is edited
\* or the record changes or goes.
ShowsLatest ==
  \A t \in Tabs : <>[](record.exists /\ ~Dirty(edit[t]) /\ saving[t] = Idle)
                     => <>[](edit[t].form = record.fields)
=============================================================================
