----------------------------- MODULE ErrorRules -----------------------------
(***************************************************************************)
(* Editing an event's validation messages (pages/admin/                    *)
(* ErrorMessagesSettings and ErrorMessageRuleForm): messages are added,    *)
(* changed and deleted in a list, or as JSON, and saved together from the  *)
(* version they are shown from.  A newer version is shown while nothing is *)
(* unsaved (useLatestWhileUnchanged), and a save that others came before   *)
(* is merged onto theirs (useConflictAwareSave, threeWayMerge).            *)
(*                                                                         *)
(* One page is modelled; the others are the saves they make.  A message is *)
(* kept by its field and kind.  `mine', `swept' and `told' only remember   *)
(* what was done, for the properties.                                      *)
(***************************************************************************)
EXTENDS Naturals

CONSTANTS None, Fields, Kinds, Texts,
          MaxSaves   \* bounds the saves of the event in a run

VARIABLES
  event,    \* the server's: its version and messages
  shown,    \* the version the page shows
  start,    \* the version its next save is made from
  rules,    \* the messages as the page has them
  dirty,    \* "Unsaved changes"
  json,     \* "list", or as JSON: whether the text stands for `rules' or is broken
  ruleForm, \* the form, and the message it was opened on
  confirm,  \* the question whether to delete a message, with the messages it was asked over
  saving,   \* the save under way
  mine,     \* the messages its user changed since it showed just the event
  swept,    \* those the page changed besides
  told      \* those an edit conflict said both sides changed

rulesVars == <<event, shown, start, rules, dirty, json, ruleForm, confirm, saving, mine, swept, told>>

Keys == Fields \X Kinds
Messages == [Keys -> Texts \cup {None}]
Version == [version : 1..(MaxSaves + 1), rules : Messages]

Idle == [at |-> "idle"]
Closed == [at |-> "closed"]

RulesTypeOK ==
  /\ event \in Version /\ shown \in Version /\ start \in Version
  /\ rules \in Messages
  /\ dirty \in BOOLEAN
  /\ json \in {"list", "parsed", "broken"}
  /\ ruleForm \in {Closed} \cup [at : {"open"}, previous : Keys \cup {None}]
  /\ confirm \in {Closed} \cup [at : {"open"}, key : Keys, over : Messages]
  /\ saving = Idle \/
       saving \in [at : {"sent", "saved", "refused", "asking"}, from : Version,
                  form : Messages, current : Version]
  /\ mine \subseteq Keys /\ swept \subseteq Keys /\ told \subseteq Keys

RulesInit ==
  /\ event = [version |-> 1, rules |-> [k \in Keys |-> None]]
  /\ shown = event /\ start = event
  /\ rules = event.rules
  /\ dirty = FALSE
  /\ json = "list"
  /\ ruleForm = Closed /\ confirm = Closed
  /\ saving = Idle
  /\ mine = {} /\ swept = {} /\ told = {}

Differ(a, b) == {k \in Keys : a[k] # b[k]}

\* A form, a question or an edit conflict covers the page.
Free == ruleForm = Closed /\ confirm = Closed /\ saving.at # "asking"

\* `change': the messages become `next', of which its user named `own'.
Change(next, own) ==
  /\ rules' = next
  /\ dirty' = TRUE
  /\ mine' = mine \cup own
  /\ swept' = swept \cup (Differ(next, rules) \ own)
  /\ UNCHANGED <<event, shown, start, saving, told>>

Reparsed == json' = IF json = "list" THEN "list" ELSE "parsed"

\* showVersion: the version's messages, and nothing then counts as unsaved; the next save is
\* made from `base'.
ShowVersion(version, base) ==
  /\ shown' = version
  /\ rules' = version.rules
  /\ Reparsed
  /\ dirty' = FALSE
  /\ mine' = {}
  /\ swept' = Differ(version.rules, base.rules)
  /\ told' = {}

-----------------------------------------------------------------------------
(* The list, the form and the JSON *)

\* Add message, or Edit on one.
OpenForm(previous) ==
  /\ Free /\ json = "list"
  /\ previous = None \/ previous \in {k \in Keys : rules[k] # None}
  /\ ruleForm' = [at |-> "open", previous |-> previous]
  /\ UNCHANGED <<event, shown, start, rules, dirty, json, confirm, saving, mine, swept, told>>

\* The field has a message of this kind already, besides the one being edited.
Taken(key) == rules[key] # None /\ key # ruleForm.previous

\* setRule, replacing the one the form was opened on.
SetRule(from, key, text, previous) ==
  [k \in Keys |-> IF k = key THEN text ELSE IF k = previous THEN None ELSE from[k]]

Submit(key, text) ==
  /\ ruleForm.at = "open"
  /\ ~Taken(key)
  /\ Change(SetRule(rules, key, text, ruleForm.previous), {key, ruleForm.previous} \ {None})
  /\ ruleForm' = Closed
  /\ UNCHANGED <<json, confirm>>

Cancel ==
  /\ ruleForm # Closed \/ confirm # Closed
  /\ ruleForm' = Closed
  /\ confirm' = Closed
  /\ UNCHANGED <<event, shown, start, rules, dirty, json, saving, mine, swept, told>>

\* Delete on a message: what confirming it does is made as it is asked.
AskDelete(key) ==
  /\ Free /\ json = "list"
  /\ rules[key] # None
  /\ confirm' = [at |-> "open", key |-> key, over |-> rules]
  /\ UNCHANGED <<event, shown, start, rules, dirty, json, ruleForm, saving, mine, swept, told>>

ConfirmDelete ==
  /\ confirm.at = "open"
  /\ LET c == confirm IN Change([c.over EXCEPT ![c.key] = None], {c.key})
  /\ confirm' = Closed
  /\ UNCHANGED <<json, ruleForm>>

\* Edit as JSON, and back to the list while the text is good.
Switch ==
  /\ Free /\ json # "broken"
  /\ json' = IF json = "list" THEN "parsed" ELSE "list"
  /\ UNCHANGED <<event, shown, start, rules, dirty, ruleForm, confirm, saving, mine, swept, told>>

\* editJson: text that doesn't parse, or has problems, leaves the last good messages.
EditJson ==
  /\ json # "list" /\ Free
  /\ \/ /\ \E key \in Keys, text \in Texts \cup {None} :
             Change([rules EXCEPT ![key] = text], {key})
        /\ json' = "parsed"
     \/ /\ json # "broken"
        /\ Change(rules, {})
        /\ json' = "broken"
  /\ UNCHANGED <<ruleForm, confirm>>

-----------------------------------------------------------------------------
(* Following, saving and merging *)

\* useLatestWhileUnchanged, by what the page calls unchanged.
Follows == ~dirty

\* The event is fetched again, and shown.
Follow ==
  /\ event.version > shown.version
  /\ Follows
  /\ ShowVersion(event, event)
  /\ start' = event
  /\ UNCHANGED <<event, ruleForm, confirm, saving>>

Blocked == json = "broken"

\* Save: messages no different from those the save is made from aren't sent, and the page
\* goes back to the version it shows.
Save ==
  /\ Free /\ saving = Idle
  /\ dirty /\ ~Blocked
  /\ IF rules = start.rules
     THEN ShowVersion(shown, start) /\ UNCHANGED saving
     ELSE /\ saving' = [at |-> "sent", from |-> start, form |-> rules, current |-> start]
          /\ UNCHANGED <<shown, rules, dirty, json, mine, swept, told>>
  /\ UNCHANGED <<event, start, ruleForm, confirm>>

\* The server stores it, or refuses it with the event as it is.
Answer ==
  /\ saving.at = "sent"
  /\ \/ /\ saving.from.version = event.version
        /\ event.version <= MaxSaves
        /\ event' = [version |-> event.version + 1, rules |-> saving.form]
        /\ saving' = [saving EXCEPT !.at = "saved", !.current = event']
     \/ /\ saving.from.version # event.version
        /\ saving' = [saving EXCEPT !.at = "refused", !.current = event]
        /\ UNCHANGED event
  /\ UNCHANGED <<shown, start, rules, dirty, json, ruleForm, confirm, mine, swept, told>>

\* The save fails, or its answer is lost.
Fail ==
  /\ saving.at \in {"sent", "saved"}
  /\ saving' = Idle
  /\ UNCHANGED <<event, shown, start, rules, dirty, json, ruleForm, confirm, mine, swept, told>>

\* Someone else saves the event: one of its messages, or something else of it.
SaveElsewhere ==
  /\ event.version <= MaxSaves
  /\ \E k \in Keys, text \in Texts \cup {None} :
       event' = [version |-> event.version + 1, rules |-> [event.rules EXCEPT ![k] = text]]
  /\ UNCHANGED <<shown, start, rules, dirty, json, ruleForm, confirm, saving, mine, swept, told>>

\* The save ends with a version to show: what was saved, or the one taken instead.
End(version) ==
  /\ ShowVersion(version, version)
  /\ start' = version
  /\ saving' = Idle

TakeSaved ==
  /\ saving.at = "saved"
  /\ End(saving.current)
  /\ UNCHANGED <<event, ruleForm, confirm>>

\* A field's messages are merged kind by kind; a field that has none left is a key removed.
Has(messages, field) == \E kind \in Kinds : messages[<<field, kind>>] # None

SameAt(a, b, field) == \A kind \in Kinds : a[<<field, kind>>] = b[<<field, kind>>]

\* A field both changed, and one of them emptied: mine is taken whole.
Whole(base, my, their, field) ==
  /\ ~SameAt(my, base, field) /\ ~SameAt(their, base, field) /\ ~SameAt(my, their, field)
  /\ ~(Has(my, field) /\ Has(their, field))

MergedWhole(base, my, their) == my                             \* mutant
\* threeWayMerge.
Merged(base, my, their) ==
  [k \in Keys |-> IF my[k] = base[k] /\ ~Whole(base, my, their, k[1]) THEN their[k] ELSE my[k]]

\* The paths the merge lists as changed by both.
Conflicts(base, my, their) ==
  {k \in Keys : \/ Whole(base, my, their, k[1])
                \/ my[k] # base[k] /\ their[k] # base[k] /\ my[k] # their[k]}

\* onRebase: mine on top of theirs is shown and sent again.
Rebase ==
  LET s == saving
      form == Merged(s.from.rules, s.form, s.current.rules) IN
  /\ saving' = [at |-> "sent", from |-> s.current, form |-> form, current |-> s.current]
  /\ start' = s.current
  /\ rules' = form
  /\ Reparsed
  /\ told' = told \cup Conflicts(s.from.rules, s.form, s.current.rules)
  /\ UNCHANGED <<event, shown, dirty, ruleForm, confirm, mine, swept>>

TakeRefusal ==
  /\ saving.at = "refused"
  /\ LET s == saving IN
     \/ /\ s.current.rules = s.form
        /\ End(s.current)
        /\ UNCHANGED <<event, ruleForm, confirm>>
     \/ /\ s.current.rules # s.form /\ s.current.rules = s.from.rules
        /\ Rebase
     \/ /\ s.current.rules # s.form /\ s.current.rules # s.from.rules
        /\ saving' = [saving EXCEPT !.at = "asking"]
        /\ UNCHANGED <<event, shown, start, rules, dirty, json, ruleForm, confirm, mine, swept, told>>

Reapply == saving.at = "asking" /\ Rebase

Discard ==
  /\ saving.at = "asking"
  /\ End(saving.current)
  /\ UNCHANGED <<event, ruleForm, confirm>>

RulesNext ==
  \/ \E previous \in Keys \cup {None} : OpenForm(previous)
  \/ \E key \in Keys, text \in Texts : Submit(key, text)
  \/ \E key \in Keys : AskDelete(key)
  \/ ConfirmDelete \/ Cancel \/ Switch \/ EditJson
  \/ Follow \/ Save \/ Answer \/ Fail
  \/ TakeSaved \/ TakeRefusal \/ Reapply \/ Discard
  \/ SaveElsewhere

RulesSpec == RulesInit /\ [][RulesNext]_rulesVars

-----------------------------------------------------------------------------
(* Properties *)

Stores == saving.at = "sent" /\ saving'.at = "saved"

\* Saving changes only messages its user changed, or an edit conflict said both sides had,
\* or the page swept: following, merging and editing as JSON lose nobody's.
OthersMessagesKept ==
  [][Stores => Differ(event'.rules, event.rules) \subseteq mine \cup told \cup swept]_rulesVars

\* While the page says nothing is unsaved, nothing is.
UnsavedIsSaid == ~dirty => rules = shown.rules /\ json # "broken"

\* ErrorMessagesSettings.tsx:8 says changes are saved from the version they were made from;
\* a deletion confirmed after a newer version is shown is made over the older one.
SavedFromWhereMade ==
  [][Stores => Differ(event'.rules, event.rules) \subseteq mine \cup told]_rulesVars
=============================================================================
