-------------------------- MODULE RecordEditProofs --------------------------
(***************************************************************************)
(* Proofs about RecordEdit: whatever is saved, refused, merged and sent     *)
(* again by any number of tabs, a save overwrites only what its user saw.   *)
(* And about ChangeFeed: however long a stream's queue may grow before it  *)
(* is emptied, whatever is lost on the way, the tab is told of it.  About  *)
(* EditLease: one nobody wants any more is given up, for any number of     *)
(* takes on their way.                                                     *)
(***************************************************************************)
EXTENDS ChangeFeed, RecordEdit, EditLease, FiniteSetTheorems, SequenceTheorems, TLAPS

EditType == [base : Form, version : Versions, form : Form]

(* The saves that may yet make a version of the record.                    *)
OpenSaves == {t \in Tabs : saving[t].at \in {"sent", "refused", "asking"}}

RecordTypes ==
  /\ RecordTypeOK
  /\ record.version + Cardinality(OpenSaves) <= MaxVersion

-----------------------------------------------------------------------------
(* What the form's helpers return.                                         *)
LEMMA UnderWay ==
  ASSUME RecordTypeOK, NEW t \in Tabs, saving[t] # Idle
  PROVE  saving[t] \in Attempt
BY DEF RecordTypeOK

LEMMA Follows ==
  ASSUME NEW e \in EditType, NEW copy \in Copy
  PROVE  /\ FromRecord(copy) \in EditType /\ ~Dirty(FromRecord(copy))
         /\ Following(e, copy) \in EditType
         /\ \/ Following(e, copy) = e
            \/ /\ Following(e, copy) = FromRecord(copy)
               /\ copy.version > e.version /\ e.base = e.form
BY DEF Following, FromRecord, Dirty, IsNewer, EditType, Copy

LEMMA MergeType ==
  ASSUME NEW base \in Form, NEW mine \in Form, NEW theirs \in Form
  PROVE  Merged(base, mine, theirs) \in Form /\ Patched(theirs, base, mine) \in Form
BY DEF Merged, Patched, Form

(* What a tab's own action leaves of the others.                           *)
Others(t) ==
  \A u \in Tabs \ {t} : /\ cached'[u] = cached[u] /\ edit'[u] = edit[u]
                        /\ saving'[u] = saving[u] /\ seen'[u] = seen[u]
                        /\ typed'[u] = typed[u]

LEMMA ShowsIs ==
  ASSUME RecordTypeOK, NEW t \in Tabs, NEW e \in EditType, NEW mine \in SUBSET Fields,
         ShowForm(t, e, mine)
  PROVE  /\ edit' \in [Tabs -> EditType] /\ seen' \in [Tabs -> Form]
         /\ typed' \in [Tabs -> SUBSET Fields]
         /\ edit'[t] = e /\ seen'[t] = e.base
         /\ typed'[t] = IF Dirty(e) \/ saving[t] # Idle THEN mine ELSE {}
         /\ \A u \in Tabs \ {t} : /\ edit'[u] = edit[u] /\ seen'[u] = seen[u]
                                  /\ typed'[u] = typed[u]
BY DEF ShowForm, RecordTypeOK, EditType

LEMMA Touches ==
  ASSUME RecordTypeOK, NEW t \in Tabs, Touch(t)
  PROVE  /\ saving' \in [Tabs -> {Idle} \cup Attempt]
         /\ \/ saving[t] = Idle /\ saving'[t] = Idle
            \/ /\ saving[t] # Idle /\ saving'[t] = [saving[t] EXCEPT !.touched = TRUE]
               /\ saving'[t] \in Attempt
         /\ \A u \in Tabs \ {t} : saving'[u] = saving[u]
<1>1. CASE saving[t] = Idle
  BY <1>1 DEF Touch, RecordTypeOK
<1>2. CASE saving[t] # Idle
  <2>1. saving[t] \in Attempt
    BY <1>2, UnderWay
  <2>2. [saving[t] EXCEPT !.touched = TRUE] \in Attempt
    BY <2>1 DEF Attempt
  <2>3. saving' = [saving EXCEPT ![t] = [saving[t] EXCEPT !.touched = TRUE]]
    BY <1>2 DEF Touch
  <2> QED BY <1>2, <2>2, <2>3 DEF RecordTypeOK
<1> QED BY <1>1, <1>2

-----------------------------------------------------------------------------
(* A tab's form and its save under way: what it was shown and typed, which  *)
(* version it saves from, and what it was sent.                             *)
TabInv(t) ==
  /\ saving[t].at # "asking" => seen[t] = edit[t].base
  /\ saving[t].at = "sent" => edit[t].version >= saving[t].version
  /\ \A f \in Fields : edit[t].form[f] # edit[t].base[f] => f \in typed[t]
  /\ saving[t].at \in {"sent", "refused", "asking"} =>
       \A f \in Fields : saving[t].form[f] # saving[t].base[f] => f \in typed[t]
  /\ saving[t] # Idle /\ ~saving[t].touched => edit[t].form = saving[t].form
  /\ saving[t].at = "saved" => saving[t].current.fields = saving[t].form

TabType(t) ==
  /\ cached[t] \in Copy /\ edit[t] \in EditType
  /\ saving[t] \in {Idle} \cup Attempt
  /\ seen[t] \in Form /\ typed[t] \in SUBSET Fields

(* A form that follows its record, or is typed in, or is dropped for it.    *)
FormGoes(t) ==
  /\ edit'[t] \in EditType /\ seen'[t] = edit'[t].base
  /\ edit'[t].version >= edit[t].version
  /\ typed'[t] \in SUBSET Fields
  /\ \A f \in Fields : edit'[t].form[f] # edit'[t].base[f] => f \in typed'[t]
  /\ \/ saving[t] = Idle /\ saving'[t] = Idle
     \/ /\ saving[t] # Idle /\ saving'[t] = [saving[t] EXCEPT !.touched = TRUE]
        /\ saving'[t] \in Attempt /\ typed[t] \subseteq typed'[t]

LEMMA FormKeeps ==
  ASSUME NEW t \in Tabs, TabType(t), TabInv(t), FormGoes(t)
  PROVE  TabInv(t)'
<1>1. CASE saving[t] = Idle
  BY <1>1 DEF FormGoes, TabInv, Idle
<1>2. CASE saving[t] # Idle
  <2>1. /\ saving'[t].at = saving[t].at /\ saving'[t].version = saving[t].version
        /\ saving'[t].form = saving[t].form /\ saving'[t].base = saving[t].base
        /\ saving'[t].current = saving[t].current /\ saving'[t].touched
    BY <1>2 DEF FormGoes, TabType, Attempt
  <2>2. edit'[t].version >= saving[t].version \/ saving[t].at # "sent"
    BY <1>2 DEF FormGoes, TabType, TabInv, Attempt, EditType, Versions
  <2> QED BY <1>2, <2>1, <2>2 DEF FormGoes, TabInv
<1> QED BY <1>1, <1>2

(* What is typed in a field leaves the tab's form a form, begun as it was.   *)
LEMMA Typed ==
  ASSUME RecordTypeOK, NEW t \in Tabs, NEW f \in Fields, NEW v \in Values
  PROVE  /\ cached[t] \in Copy
         /\ [edit[t] EXCEPT !.form[f] = v] \in [base : Form, version : Versions, form : Form]
         /\ [edit[t] EXCEPT !.form[f] = v].version = edit[t].version
         /\ [edit[t] EXCEPT !.form[f] = v].base = edit[t].base
<1>1. cached[t] \in Copy /\ edit[t] \in [base : Form, version : Versions, form : Form]
  BY DEF RecordTypeOK
<1>2. edit[t].form \in [Fields -> Values]
  BY <1>1 DEF Form
<1>3. [edit[t].form EXCEPT ![f] = v] \in Form
  BY <1>2 DEF Form
<1>4. [edit[t] EXCEPT !.form[f] = v] = [edit[t] EXCEPT !.form = [edit[t].form EXCEPT ![f] = v]]
  BY <1>1
<1> QED BY <1>1, <1>3, <1>4

LEMMA TypeGoes ==
  ASSUME RecordTypeOK, NEW t \in Tabs, TabInv(t),
         NEW f \in Fields, NEW v \in Values, Type(t, f, v)
  PROVE  FormGoes(t)
<1> DEFINE mine == [edit[t] EXCEPT !.form[f] = v]
           e == Following(mine, cached[t])
<1>1. mine \in EditType /\ cached[t] \in Copy
  BY Typed DEF EditType
<1>2. /\ mine.version = edit[t].version /\ mine.base = edit[t].base
      /\ \A g \in Fields : g # f => mine.form[g] = edit[t].form[g]
  BY DEF RecordTypeOK, EditType, Form
<1>3. \A g \in Fields : mine.form[g] # mine.base[g] => g \in typed[t] \cup {f}
  <2> HIDE DEF mine
  <2> QED BY <1>2 DEF TabInv
<1> HIDE DEF mine
<1>4. /\ e \in EditType /\ e.version >= edit[t].version
      /\ \A g \in Fields : e.form[g] # e.base[g] => g \in typed[t] \cup {f}
      /\ ~Dirty(e) => \A g \in Fields : e.form[g] = e.base[g]
  <2>1. /\ e \in EditType
        /\ \/ e = mine
           \/ e = FromRecord(cached[t]) /\ cached[t].version > mine.version
    BY <1>1, Follows
  <2> HIDE DEF e
  <2>2. CASE e = mine
    BY <1>2, <1>3, <2>1, <2>2 DEF Dirty, EditType, Versions, RecordTypeOK
  <2>3. CASE e = FromRecord(cached[t]) /\ cached[t].version > mine.version
    BY <1>1, <1>2, <2>1, <2>3 DEF FromRecord, EditType, Copy, Versions, RecordTypeOK
  <2> QED BY <2>1, <2>2, <2>3
<1> HIDE DEF e
<1>5. typed[t] \cup {f} \in SUBSET Fields
  BY DEF RecordTypeOK
<1>6. ShowForm(t, e, typed[t] \cup {f}) /\ Touch(t)
  BY DEF Type, e, mine
<1>7. /\ edit'[t] = e /\ seen'[t] = e.base
      /\ typed'[t] = IF Dirty(e) \/ saving[t] # Idle THEN typed[t] \cup {f} ELSE {}
  BY <1>4, <1>5, <1>6, ShowsIs
<1>8. \/ saving[t] = Idle /\ saving'[t] = Idle
      \/ /\ saving[t] # Idle /\ saving'[t] = [saving[t] EXCEPT !.touched = TRUE]
         /\ saving'[t] \in Attempt
  BY <1>6, Touches
<1> QED BY <1>4, <1>5, <1>6, <1>7, <1>8 DEF FormGoes

(* A form that shows just the record, as it follows it or is dropped for it. *)
LEMMA CleanGoes ==
  ASSUME RecordTypeOK, NEW t \in Tabs, NEW copy \in Copy, copy.version > edit[t].version,
         ShowForm(t, FromRecord(copy), typed[t]), Touch(t)
  PROVE  FormGoes(t)
<1> DEFINE e == FromRecord(copy)
<1>1. /\ e \in EditType /\ e.version >= edit[t].version
      /\ \A g \in Fields : e.form[g] = e.base[g]
  BY DEF FromRecord, EditType, Copy, Versions, RecordTypeOK
<1>2. typed[t] \in SUBSET Fields
  BY DEF RecordTypeOK
<1> HIDE DEF e
<1>3. /\ edit'[t] = e /\ seen'[t] = e.base
      /\ typed'[t] = IF Dirty(e) \/ saving[t] # Idle THEN typed[t] ELSE {}
  BY <1>1, <1>2, ShowsIs DEF e
<1>4. \/ saving[t] = Idle /\ saving'[t] = Idle
      \/ /\ saving[t] # Idle /\ saving'[t] = [saving[t] EXCEPT !.touched = TRUE]
         /\ saving'[t] \in Attempt
  BY Touches
<1> QED BY <1>1, <1>2, <1>3, <1>4 DEF FormGoes

-----------------------------------------------------------------------------
(* Every copy of the record a tab holds: its cache's, the one its form      *)
(* started from, and those its save works on.                               *)
Started(e) == [version |-> e.version, fields |-> e.base]

TabCopies(t) ==
  {cached[t], Started(edit[t])}
    \cup (IF saving[t] = Idle THEN {} ELSE {saving[t].current, Started(saving[t])})

(* A step leaves a tab with copies it had and the record's own.             *)
CopiesGo(t) == TabCopies(t)' \subseteq TabCopies(t) \cup {Current, Current'}

LEMMA CurrentType ==
  ASSUME RecordTypeOK
  PROVE  Current \in Copy
BY DEF RecordTypeOK, Current, Copy

LEMMA FollowStarts ==
  ASSUME NEW e \in EditType, NEW copy \in Copy
  PROVE  Started(Following(e, copy)) \in {Started(e), copy}
<1>1. Started(FromRecord(copy)) = copy
  BY DEF Started, FromRecord, Copy
<1> QED BY <1>1, Follows

(* A save under way whose form was changed works on the same copies.        *)
LEMMA TouchedCopies ==
  ASSUME RecordTypeOK, NEW t \in Tabs, Touch(t)
  PROVE  /\ saving[t] = Idle <=> saving'[t] = Idle
         /\ saving[t] # Idle =>
              saving'[t].current = saving[t].current /\ Started(saving'[t]) = Started(saving[t])
<1>1. CASE saving[t] = Idle
  BY <1>1, Touches
<1>2. CASE saving[t] # Idle
  <2>1. saving[t] \in Attempt /\ saving'[t] = [saving[t] EXCEPT !.touched = TRUE]
    BY <1>2, UnderWay, Touches
  <2>2. saving'[t].at = saving[t].at /\ saving[t].at # "idle"
    BY <2>1 DEF Attempt
  <2>3. saving'[t] # Idle
    BY <2>2 DEF Idle
  <2>4. /\ saving'[t].current = saving[t].current
        /\ saving'[t].version = saving[t].version /\ saving'[t].base = saving[t].base
    BY <2>1 DEF Attempt
  <2> QED BY <1>2, <2>3, <2>4 DEF Started
<1> QED BY <1>1, <1>2

(* What each of a tab's steps does: it keeps the tab's part of the          *)
(* invariant and its types, and leaves the others alone.                    *)
Kept(t) == TabInv(t)' /\ TabType(t)' /\ CopiesGo(t) /\ Others(t)

LEMMA TabTypes ==
  ASSUME RecordTypeOK, NEW t \in Tabs
  PROVE  TabType(t)
BY DEF RecordTypeOK, TabType, EditType

LEMMA TypeKeeps ==
  ASSUME RecordTypeOK, NEW t \in Tabs, TabInv(t),
         NEW f \in Fields, NEW v \in Values, Type(t, f, v)
  PROVE  Kept(t)
<1> DEFINE mine == [edit[t] EXCEPT !.form[f] = v]
           e == Following(mine, cached[t])
<1>1. FormGoes(t)
  BY TypeGoes
<1>2. mine \in EditType /\ cached[t] \in Copy /\ Started(mine) = Started(edit[t])
  BY Typed DEF EditType, Started
<1>3. e \in EditType /\ typed[t] \cup {f} \in SUBSET Fields
  BY <1>2, Follows DEF RecordTypeOK
<1>4. Started(e) \in {Started(edit[t]), cached[t]}
  BY <1>2, FollowStarts
<1>5. ShowForm(t, e, typed[t] \cup {f}) /\ Touch(t) /\ UNCHANGED cached
  BY DEF Type
<1> HIDE DEF mine, e
<1>6. edit'[t] = e /\ Others(t)
  BY <1>3, <1>5, ShowsIs, Touches DEF Others
<1>7. CopiesGo(t)
  BY <1>4, <1>5, <1>6, TouchedCopies DEF CopiesGo, TabCopies
<1>8. TabType(t)'
  BY <1>1, <1>2, <1>5, TabTypes DEF TabType, FormGoes, EditType
<1> QED BY <1>1, <1>6, <1>7, <1>8, FormKeeps, TabTypes DEF Kept

(* A newer copy shown in the form's place.                                  *)
LEMMA CleanKeeps ==
  ASSUME RecordTypeOK, NEW t \in Tabs, TabInv(t),
         NEW copy \in Copy, copy.version > edit[t].version, copy \in {cached[t], Current},
         cached'[t] \in {cached[t], Current}, \A u \in Tabs \ {t} : cached'[u] = cached[u],
         ShowForm(t, FromRecord(copy), typed[t]), Touch(t)
  PROVE  Kept(t)
<1>1. FormGoes(t)
  BY CleanGoes
<1>2. FromRecord(copy) \in EditType /\ Started(FromRecord(copy)) = copy
  BY DEF Started, FromRecord, Copy, EditType
<1>3. typed[t] \in SUBSET Fields
  BY DEF RecordTypeOK
<1>4. edit'[t] = FromRecord(copy) /\ Others(t)
  BY <1>2, <1>3, ShowsIs, Touches, ZenonT(60) DEF Others
<1>5. CopiesGo(t)
  BY <1>2, <1>4, TouchedCopies DEF CopiesGo, TabCopies
<1>6. TabType(t)'
  BY <1>1, CurrentType, TabTypes DEF TabType, FormGoes, EditType
<1> QED BY <1>1, <1>4, <1>5, <1>6, FormKeeps, TabTypes DEF Kept

LEMMA RefetchKeeps ==
  ASSUME RecordTypeOK, NEW t \in Tabs, TabInv(t), Refetch(t)
  PROVE  Kept(t)
<1> DEFINE e == Following(edit[t], Current)
<1>1. cached'[t] = Current /\ \A u \in Tabs \ {t} : cached'[u] = cached[u]
  BY DEF Refetch, RecordTypeOK
<1>2. CASE e = edit[t]
  <2>1. UNCHANGED <<edit, saving, seen, typed>>
    BY <1>2 DEF Refetch
  <2> QED BY <1>1, <2>1, CurrentType, TabTypes
          DEF Kept, TabInv, TabType, CopiesGo, TabCopies, Others
<1>3. CASE e # edit[t]
  <2>1. ShowForm(t, e, typed[t]) /\ Touch(t)
    BY <1>3 DEF Refetch
  <2>2. edit[t] \in EditType
    BY TabTypes DEF TabType
  <2>3. e = FromRecord(Current) /\ Current.version > edit[t].version
    BY <1>3, <2>2, CurrentType, Follows
  <2> QED BY <1>1, <2>1, <2>3, CurrentType, CleanKeeps
<1> QED BY <1>2, <1>3

LEMMA LoadKeeps ==
  ASSUME RecordTypeOK, NEW t \in Tabs, TabInv(t), LoadLatest(t)
  PROVE  Kept(t)
<1>1. cached[t] \in Copy /\ cached[t].version > edit[t].version
  BY TabTypes DEF TabType, LoadLatest, IsStale, IsNewer
<1>2. UNCHANGED cached /\ ShowForm(t, FromRecord(cached[t]), typed[t]) /\ Touch(t)
  BY DEF LoadLatest
<1> QED BY <1>1, <1>2, CleanKeeps

LEMMA SaveKeeps ==
  ASSUME RecordTypeOK, NEW t \in Tabs, TabInv(t), Save(t)
  PROVE  Kept(t) /\ saving'[t].at = "sent"
<1> DEFINE s == [at |-> "sent", base |-> edit[t].base, version |-> edit[t].version,
                 form |-> edit[t].form, touched |-> FALSE,
                 current |-> [version |-> edit[t].version, fields |-> edit[t].base]]
<1>1. /\ saving[t] = Idle /\ saving' = [saving EXCEPT ![t] = s]
      /\ UNCHANGED <<cached, edit, seen, typed>>
  BY DEF Save
<1>2. TabType(t)
  BY TabTypes
<1>3. s \in Attempt
  BY <1>2 DEF TabType, EditType, Attempt, Copy
<1>4. /\ s.at = "sent" /\ s.base = edit[t].base /\ s.version = edit[t].version
      /\ s.form = edit[t].form /\ s.current = Started(edit[t]) /\ Started(s) = Started(edit[t])
  BY DEF Started
<1> HIDE DEF s
<1>5. saving'[t] = s /\ Others(t)
  BY <1>1 DEF RecordTypeOK, Others
<1>6. saving[t].at = "idle"
  BY <1>1 DEF Idle
<1>7. TabInv(t)'
  BY <1>1, <1>2, <1>4, <1>5, <1>6 DEF TabInv, TabType, EditType, Versions
<1>8. CopiesGo(t)
  BY <1>1, <1>4, <1>5 DEF CopiesGo, TabCopies
<1> QED BY <1>1, <1>2, <1>3, <1>4, <1>5, <1>7, <1>8 DEF Kept, TabType

LEMMA FailKeeps ==
  ASSUME RecordTypeOK, NEW t \in Tabs, TabInv(t), Fail(t)
  PROVE  Kept(t) /\ saving'[t].at = "idle"
<1>1. /\ saving[t].at # "asking" /\ saving'[t] = Idle /\ Others(t)
      /\ UNCHANGED <<cached, edit, seen>>
      /\ typed'[t] = IF Dirty(edit[t]) THEN typed[t] ELSE {}
  BY DEF Fail, RecordTypeOK, Others
<1>2. TabInv(t)'
  BY <1>1 DEF TabInv, Dirty, Idle
<1>3. CopiesGo(t)
  BY <1>1 DEF CopiesGo, TabCopies
<1> QED BY <1>1, <1>2, <1>3, TabTypes DEF Kept, TabType, Idle

(* A save's end, of a copy the tab had.                                     *)
LEMMA SavedKeeps ==
  ASSUME RecordTypeOK, NEW t \in Tabs, TabInv(t), saving[t] # Idle,
         Saved(t, saving[t].current), UNCHANGED cached
  PROVE  Kept(t) /\ saving'[t].at = "idle"
<1> DEFINE copy == saving[t].current
           e == [base |-> copy.fields, version |-> copy.version,
                 form |-> IF saving[t].touched THEN edit[t].form ELSE copy.fields]
           next == Following(e, cached[t])
           mine == {f \in Fields : e.form[f] # e.base[f]}
<1>1. TabType(t) /\ copy \in Copy
  BY TabTypes, UnderWay DEF Attempt
<1>2. e \in EditType /\ mine \in SUBSET Fields /\ Started(e) = copy
  BY <1>1 DEF TabType, EditType, Copy, Started
<1>3. /\ ShowForm(t, next, mine) /\ saving' = [saving EXCEPT ![t] = Idle]
  BY DEF Saved
<1>4. \A f \in Fields : e.form[f] # e.base[f] => f \in mine
  OBVIOUS
<1> HIDE DEF e, mine
<1>5. /\ next \in EditType /\ Started(next) \in {Started(e), cached[t]}
      /\ \A f \in Fields : next.form[f] # next.base[f] => f \in mine
      /\ next = e \/ ~Dirty(next)
  BY <1>1, <1>2, <1>4, Follows, FollowStarts DEF TabType, Dirty
<1> HIDE DEF next
<1>6. /\ edit'[t] = next /\ seen'[t] = next.base /\ typed'[t] = mine
      /\ saving'[t] = Idle /\ Others(t)
  <2>1. typed'[t] = mine /\ edit'[t] = next /\ seen'[t] = next.base
    BY <1>2, <1>3, <1>5, ShowsIs
  <2>2. Others(t)
    BY <1>2, <1>3, <1>5, ShowsIs DEF Others, RecordTypeOK
  <2> QED BY <1>3, <2>1, <2>2 DEF RecordTypeOK
<1>7. TabInv(t)'
  BY <1>5, <1>6 DEF TabInv, Idle
<1>8. CopiesGo(t)
  BY <1>2, <1>5, <1>6 DEF CopiesGo, TabCopies
<1> QED BY <1>1, <1>2, <1>5, <1>6, <1>7, <1>8 DEF Kept, TabType, EditType, Idle

(* The edit put on top of theirs differs from it only where it was changed. *)
LEMMA RebaseKeeps ==
  ASSUME RecordTypeOK, NEW t \in Tabs, TabInv(t), saving[t].at \in {"refused", "asking"},
         Rebase(t), UNCHANGED cached
  PROVE  Kept(t) /\ saving'[t].at = "sent"
<1> DEFINE s == saving[t]
           merged == Merged(s.base, s.form, s.current.fields)
           e == [base |-> s.current.fields, version |-> s.current.version, form |-> merged]
           next == Following(e, cached[t])
           sent == [at |-> "sent", base |-> e.base, version |-> e.version, form |-> merged,
                    current |-> s.current, touched |-> next # e]
<1>1. TabType(t) /\ s \in Attempt /\ s # Idle
  BY TabTypes, UnderWay DEF Idle
<1>2. merged \in Form
  BY <1>1, MergeType DEF Attempt, Copy
<1>3. e \in EditType /\ Started(e) = s.current
  BY <1>1, <1>2 DEF EditType, Copy, Attempt, Started
<1>4. \A f \in Fields : e.form[f] # e.base[f] => f \in typed[t]
  BY DEF Merged, TabInv
<1>5. /\ next \in EditType /\ Started(next) \in {Started(e), cached[t]}
      /\ next = e \/ next.version > e.version
      /\ \A f \in Fields : next.form[f] # next.base[f] => f \in typed[t]
  <2> HIDE DEF e
  <2>1. /\ next \in EditType /\ Started(next) \in {Started(e), cached[t]}
        /\ \/ next = e
           \/ next = FromRecord(cached[t]) /\ cached[t].version > e.version
    BY <1>1, <1>3, Follows, FollowStarts DEF TabType
  <2> HIDE DEF next
  <2>2. CASE next = e
    BY <1>4, <2>1, <2>2
  <2>3. CASE next = FromRecord(cached[t]) /\ cached[t].version > e.version
    BY <2>1, <2>3 DEF FromRecord
  <2> QED BY <2>1, <2>2, <2>3
<1>6. sent \in Attempt /\ Started(sent) = s.current /\ sent # Idle
  BY <1>1, <1>2 DEF Attempt, Copy, Started, Idle
<1>7. saving' = [saving EXCEPT ![t] = sent] /\ ShowForm(t, next, typed[t])
  BY DEF Rebase
<1>8. /\ sent.at = "sent" /\ sent.version = e.version /\ sent.form = e.form
      /\ sent.base = e.base /\ sent.current = s.current
      /\ sent.touched <=> next # e
  OBVIOUS
<1> HIDE DEF sent, next, e
<1>9. /\ edit'[t] = next /\ seen'[t] = next.base /\ typed'[t] = typed[t]
      /\ saving'[t] = sent /\ Others(t)
  <2>1. edit'[t] = next /\ seen'[t] = next.base /\ typed'[t] = typed[t]
    BY <1>1, <1>5, <1>7, ShowsIs DEF TabType
  <2>2. Others(t)
    BY <1>1, <1>5, <1>7, ShowsIs DEF Others, RecordTypeOK, TabType
  <2> QED BY <1>7, <2>1, <2>2 DEF RecordTypeOK
<1>10. TabInv(t)'
  BY <1>3, <1>4, <1>5, <1>6, <1>8, <1>9 DEF TabInv, EditType, Versions
<1>11. CopiesGo(t)
  BY <1>1, <1>3, <1>5, <1>6, <1>8, <1>9 DEF CopiesGo, TabCopies
<1> QED BY <1>1, <1>5, <1>6, <1>8, <1>9, <1>10, <1>11 DEF Kept, TabType, EditType

(* The form is the record's as the conflict showed it, or a newer one.      *)
LEMMA DiscardKeeps ==
  ASSUME RecordTypeOK, NEW t \in Tabs, TabInv(t), Discard(t)
  PROVE  Kept(t) /\ saving'[t].at = "idle"
<1> DEFINE e == FromRecord(saving[t].current)
           next == Following(e, cached[t])
<1>1. TabType(t) /\ saving[t] \in Attempt /\ saving[t] # Idle
  BY TabTypes, UnderWay DEF Discard, Idle
<1>2. e \in EditType /\ Started(e) = saving[t].current /\ e.form = e.base
  BY <1>1 DEF Attempt, Copy, FromRecord, Started, EditType
<1>3. /\ ShowForm(t, next, {}) /\ saving' = [saving EXCEPT ![t] = Idle] /\ UNCHANGED cached
  BY DEF Discard
<1> HIDE DEF e
<1>4. /\ next \in EditType /\ Started(next) \in {Started(e), cached[t]}
      /\ next.form = next.base
  <2>1. /\ next \in EditType /\ Started(next) \in {Started(e), cached[t]}
        /\ next = e \/ next = FromRecord(cached[t])
    BY <1>1, <1>2, Follows, FollowStarts DEF TabType
  <2> HIDE DEF next
  <2> QED BY <1>2, <2>1 DEF FromRecord
<1> HIDE DEF next
<1>5. /\ edit'[t] = next /\ seen'[t] = next.base /\ typed'[t] = {}
      /\ saving'[t] = Idle /\ Others(t)
  <2>1. edit'[t] = next /\ seen'[t] = next.base /\ typed'[t] = {}
    BY <1>3, <1>4, ShowsIs
  <2>2. Others(t)
    BY <1>3, <1>4, ShowsIs DEF Others, RecordTypeOK
  <2> QED BY <1>3, <2>1, <2>2 DEF RecordTypeOK
<1>6. TabInv(t)'
  BY <1>4, <1>5 DEF TabInv, Idle
<1>7. CopiesGo(t)
  BY <1>1, <1>2, <1>3, <1>4, <1>5 DEF CopiesGo, TabCopies
<1> QED BY <1>1, <1>3, <1>4, <1>5, <1>6, <1>7 DEF Kept, TabType, EditType, Idle

(* The modal opens, and its user sees the record as the refusal had it.     *)
LEMMA AskKeeps ==
  ASSUME RecordTypeOK, NEW t \in Tabs, TabInv(t), saving[t].at = "refused",
         saving' = [saving EXCEPT ![t].at = "asking"],
         seen' = [seen EXCEPT ![t] = saving[t].current.fields],
         UNCHANGED <<cached, edit, typed>>
  PROVE  Kept(t)
<1>1. TabType(t) /\ saving[t] \in Attempt /\ saving[t] # Idle
  BY TabTypes, UnderWay DEF Idle
<1> DEFINE s == [saving[t] EXCEPT !.at = "asking"]
<1>2. /\ s \in Attempt /\ s.at = "asking" /\ s.form = saving[t].form /\ s.base = saving[t].base
      /\ s.touched = saving[t].touched /\ s.version = saving[t].version
      /\ s.current = saving[t].current
  BY <1>1 DEF Attempt
<1>3. saving'[t] = s /\ seen'[t] \in Form /\ Others(t)
  BY <1>1 DEF RecordTypeOK, Others, Attempt, Copy
<1> HIDE DEF s
<1>4. TabInv(t)'
  BY <1>1, <1>2, <1>3 DEF TabInv
<1>5. s # Idle
  BY <1>2 DEF Idle
<1>6. CopiesGo(t)
  BY <1>1, <1>2, <1>3, <1>5 DEF CopiesGo, TabCopies, Started
<1> QED BY <1>1, <1>2, <1>3, <1>4, <1>6 DEF Kept, TabType

LEMMA RefusalKeeps ==
  ASSUME RecordTypeOK, NEW t \in Tabs, TabInv(t), TakeRefusal(t)
  PROVE  Kept(t) /\ saving[t].at = "refused"
<1>1. saving[t].at = "refused" /\ saving[t] # Idle /\ UNCHANGED cached
  BY DEF TakeRefusal, Idle
<1>2. CASE AlreadyThere(saving[t]) /\ Saved(t, saving[t].current)
  BY <1>1, <1>2, SavedKeeps
<1>3. CASE /\ saving' = [saving EXCEPT ![t].at = "asking"]
           /\ seen' = [seen EXCEPT ![t] = saving[t].current.fields]
           /\ UNCHANGED <<edit, typed>>
  BY <1>1, <1>3, AskKeeps
<1>4. CASE Rebase(t)
  BY <1>1, <1>4, RebaseKeeps
<1> QED BY <1>1, <1>2, <1>3, <1>4 DEF TakeRefusal

-----------------------------------------------------------------------------
(* No copy is newer than the record, and one of its version is the record.  *)
Agrees(copy) ==
  /\ copy.version <= record.version
  /\ copy.version = record.version => copy.fields = record.fields

CopiesAgree == \A t \in Tabs : \A copy \in TabCopies(t) : Agrees(copy)

RecordInv == RecordTypes /\ CopiesAgree /\ \A t \in Tabs : TabInv(t)

LEMMA CopiesType ==
  ASSUME RecordTypeOK, NEW t \in Tabs
  PROVE  TabCopies(t) \subseteq Copy
<1>1. TabType(t)
  BY TabTypes
<1>2. CASE saving[t] = Idle
  BY <1>1, <1>2 DEF TabCopies, TabType, Started, EditType, Copy
<1>3. CASE saving[t] # Idle
  BY <1>1, <1>3 DEF TabCopies, TabType, Started, EditType, Copy, Attempt
<1> QED BY <1>2, <1>3

(* The server's answer: a save it takes makes the record what the form had. *)
LEMMA AnswerKeeps ==
  ASSUME RecordInv, NEW t \in Tabs, Answer(t)
  PROVE  /\ Kept(t) /\ saving[t].at = "sent"
         /\ \/ UNCHANGED record /\ saving'[t].at \in {"failed", "refused"}
            \/ /\ saving'[t].at \in {"saved", "lost"} /\ MatchesVersion(saving[t])
               /\ record'.version = record.version + 1
               /\ record'.fields = Patched(record.fields, saving[t].base, saving[t].form)
               /\ record' \in [version : Versions, fields : Form, exists : BOOLEAN]
<1> DEFINE s == saving[t]
           fields == Patched(record.fields, s.base, s.form)
<1>1. /\ RecordTypeOK /\ TabType(t) /\ TabInv(t)
      /\ s \in Attempt /\ s # Idle /\ s.at = "sent"
      /\ UNCHANGED <<cached, edit, seen, typed>>
  BY TabTypes, UnderWay DEF RecordInv, RecordTypes, Answer, Idle
<1>2. fields \in Form
  BY <1>1, MergeType DEF Attempt, RecordTypeOK
<1>3. CASE ~record.exists /\ saving' = [saving EXCEPT ![t].at = "failed"] /\ UNCHANGED record
  <2>1. /\ saving'[t] = [s EXCEPT !.at = "failed"] /\ Others(t)
    BY <1>1, <1>3 DEF RecordTypeOK, Others
  <2>2. /\ saving'[t].at = "failed" /\ saving'[t].form = s.form /\ saving'[t].base = s.base
        /\ saving'[t].touched = s.touched /\ saving'[t].version = s.version
        /\ saving'[t].current = s.current /\ saving'[t] \in Attempt
    BY <1>1, <2>1 DEF Attempt
  <2>3. TabInv(t)'
    BY <1>1, <2>2 DEF TabInv
  <2>4. CopiesGo(t)
    BY <1>1, <2>2 DEF CopiesGo, TabCopies, Started, Idle
  <2> QED BY <1>1, <1>3, <2>1, <2>2, <2>3, <2>4 DEF Kept, TabType
<1>4. CASE /\ saving' = [saving EXCEPT ![t].at = "refused", ![t].current = Current]
           /\ UNCHANGED record
  <2>1. /\ saving'[t] = [s EXCEPT !.at = "refused", !.current = Current] /\ Others(t)
    BY <1>1, <1>4 DEF RecordTypeOK, Others
  <2>2. /\ saving'[t].at = "refused" /\ saving'[t].form = s.form /\ saving'[t].base = s.base
        /\ saving'[t].touched = s.touched /\ saving'[t].version = s.version
        /\ saving'[t].current = Current /\ saving'[t] \in Attempt
    BY <1>1, <2>1, CurrentType DEF Attempt
  <2>3. TabInv(t)'
    BY <1>1, <2>2 DEF TabInv
  <2>4. CopiesGo(t)
    BY <1>1, <2>2 DEF CopiesGo, TabCopies, Started, Idle
  <2> QED BY <1>1, <1>4, <2>1, <2>2, <2>3, <2>4 DEF Kept, TabType
<1>5. CASE /\ record.exists /\ MatchesVersion(s)
           /\ record' = [record EXCEPT !.version = @ + 1, !.fields = fields]
           /\ \/ saving' = [saving EXCEPT ![t].at = "saved",
                              ![t].current = [version |-> record.version + 1, fields |-> fields]]
              \/ saving' = [saving EXCEPT ![t].at = "lost"]
  <2>1. record.version \in Nat /\ record.version + 1 \in Versions
    <3>1. record.version + Cardinality(OpenSaves) <= MaxVersion /\ IsFiniteSet(OpenSaves)
      BY FS_Subset, TabsAssumption DEF RecordInv, RecordTypes, OpenSaves
    <3>2. OpenSaves # {}
      BY <1>1 DEF OpenSaves
    <3>3. Cardinality(OpenSaves) \in Nat /\ Cardinality(OpenSaves) # 0
      BY <3>1, <3>2, FS_CardinalityType, FS_EmptySet
    <3>4. record.version \in Nat /\ record.version >= 1 /\ MaxVersion \in Nat
      BY <1>1, VersionAssumption DEF RecordTypeOK, Versions
    <3>5. record.version + 1 <= MaxVersion
      BY <3>1, <3>3, <3>4
    <3> QED BY <3>4, <3>5 DEF Versions
  <2>2. /\ record' \in [version : Versions, fields : Form, exists : BOOLEAN]
        /\ record'.version = record.version + 1 /\ record'.fields = fields
    BY <1>1, <1>2, <1>5, <2>1 DEF RecordTypeOK
  <2>3. fields = s.form
    <3>1. Agrees(Started(s))
      BY <1>1 DEF RecordInv, CopiesAgree, TabCopies
    <3>2. s.base = record.fields
      BY <1>5, <3>1 DEF Agrees, Started, MatchesVersion
    <3> QED BY <1>1, <3>2 DEF Patched, Attempt, Form
  <2>4. Others(t)
    BY <1>1, <1>5 DEF RecordTypeOK, Others
  <2>5. Current' = [version |-> record.version + 1, fields |-> fields] /\ Current' \in Copy
    BY <1>2, <2>1, <2>2 DEF Current, Copy
  <2>6. /\ saving'[t].at \in {"saved", "lost"} /\ saving'[t].form = s.form
        /\ saving'[t].base = s.base /\ saving'[t].touched = s.touched
        /\ saving'[t].version = s.version /\ saving'[t] \in Attempt
        /\ saving'[t].current \in {s.current, Current'}
        /\ saving'[t].at = "saved" => saving'[t].current.fields = s.form
    <3>1. CASE saving' = [saving EXCEPT ![t].at = "saved",
                           ![t].current = [version |-> record.version + 1, fields |-> fields]]
      <4>1. saving'[t] = [s EXCEPT !.at = "saved",
                           !.current = [version |-> record.version + 1, fields |-> fields]]
        BY <1>1, <3>1 DEF RecordTypeOK
      <4> DEFINE copy == [version |-> record.version + 1, fields |-> fields]
      <4>2. copy = Current' /\ copy \in Copy /\ copy.fields = s.form
        BY <2>3, <2>5
      <4> HIDE DEF copy, fields
      <4>3. saving'[t] = [s EXCEPT !.at = "saved", !.current = copy]
        BY <4>1 DEF copy
      <4> QED BY <1>1, <4>2, <4>3 DEF Attempt
    <3>2. CASE saving' = [saving EXCEPT ![t].at = "lost"]
      <4>1. saving'[t] = [s EXCEPT !.at = "lost"]
        BY <1>1, <3>2 DEF RecordTypeOK
      <4> QED BY <1>1, <4>1 DEF Attempt
    <3> QED BY <1>5, <3>1, <3>2
  <2> HIDE DEF fields
  <2>7. TabInv(t)'
    BY <1>1, <2>6 DEF TabInv
  <2>8. CopiesGo(t)
    BY <1>1, <2>6 DEF CopiesGo, TabCopies, Started, Idle
  <2>9. Kept(t)
    BY <1>1, <2>4, <2>6, <2>7, <2>8 DEF Kept, TabType
  <2>10. saving[t].at = "sent" /\ MatchesVersion(saving[t]) /\ saving'[t].at \in {"saved", "lost"}
    BY <1>1, <1>5, <2>6
  <2> QED BY <2>2, <2>9, <2>10 DEF fields
<1> QED BY <1>3, <1>4, <1>5 DEF Answer

-----------------------------------------------------------------------------
(* Every step of a tab keeps the invariant.                                 *)
TabStep(t) ==
  \/ \E f \in Fields, v \in Values : Type(t, f, v)
  \/ Refetch(t) \/ LoadLatest(t)
  \/ Save(t) \/ Answer(t) \/ Fail(t)
  \/ TakeSaved(t) \/ TakeRefusal(t) \/ Reapply(t) \/ Discard(t)

(* The variables go on being functions of the tabs.                         *)
Tabular ==
  /\ cached' = [u \in Tabs |-> cached'[u]] /\ edit' = [u \in Tabs |-> edit'[u]]
  /\ saving' = [u \in Tabs |-> saving'[u]] /\ seen' = [u \in Tabs |-> seen'[u]]
  /\ typed' = [u \in Tabs |-> typed'[u]]

LEMMA StepsTabular ==
  ASSUME RecordTypeOK, NEW t \in Tabs, TabStep(t)
  PROVE  Tabular
<1>1. cached' = [u \in Tabs |-> cached'[u]]
  BY DEF TabStep, Type, Refetch, LoadLatest, Save, Answer, Fail, TakeSaved, TakeRefusal,
         Reapply, Discard, RecordTypeOK
<1>2. edit' = [u \in Tabs |-> edit'[u]]
  BY DEF TabStep, Type, Refetch, LoadLatest, Save, Answer, Fail, TakeSaved, TakeRefusal,
         Reapply, Discard, Saved, Rebase, ShowForm, RecordTypeOK
<1>3. saving' = [u \in Tabs |-> saving'[u]]
  BY DEF TabStep, Type, Refetch, LoadLatest, Save, Answer, Fail, TakeSaved, TakeRefusal,
         Reapply, Discard, Saved, Rebase, Touch, RecordTypeOK
<1>4. seen' = [u \in Tabs |-> seen'[u]] /\ typed' = [u \in Tabs |-> typed'[u]]
  BY DEF TabStep, Type, Refetch, LoadLatest, Save, Answer, Fail, TakeSaved, TakeRefusal,
         Reapply, Discard, Saved, Rebase, ShowForm, RecordTypeOK
<1> QED BY <1>1, <1>2, <1>3, <1>4 DEF Tabular

(* Only a save opens one, and only an answer makes a version.               *)
OpenStates == {"sent", "refused", "asking"}

Advances ==
  \/ UNCHANGED record
  \/ /\ record' \in [version : Versions, fields : Form, exists : BOOLEAN]
     /\ record'.version = record.version + 1

LEMMA TabKeeps ==
  ASSUME RecordInv, NEW t \in Tabs, TabStep(t)
  PROVE  /\ Kept(t) /\ Advances
         /\ \/ UNCHANGED record /\ (saving'[t].at \in OpenStates => saving[t].at \in OpenStates)
            \/ UNCHANGED record /\ Save(t)
            \/ /\ record'.version = record.version + 1 /\ saving[t].at = "sent"
               /\ saving'[t].at \in {"saved", "lost"}
<1>1. RecordTypeOK /\ TabInv(t)
  BY DEF RecordInv, RecordTypes
<1>2. ASSUME Touch(t)
      PROVE  saving'[t].at \in OpenStates => saving[t].at \in OpenStates
  <2>1. CASE saving[t] = Idle
    BY <1>2, <2>1 DEF Touch
  <2>2. CASE saving[t] # Idle
    <3>1. saving[t] \in Attempt /\ saving'[t] = [saving[t] EXCEPT !.touched = TRUE]
      BY <1>1, <1>2, <2>2, UnderWay, Touches
    <3> QED BY <3>1 DEF Attempt
  <2> QED BY <2>1, <2>2
<1>3. CASE \E f \in Fields, v \in Values : Type(t, f, v)
  <2>1. PICK f \in Fields, v \in Values : Type(t, f, v)
    BY <1>3
  <2>2. Kept(t)
    BY <1>1, <2>1, TypeKeeps
  <2> QED BY <1>2, <2>1, <2>2 DEF Type, Advances
<1>4. CASE Refetch(t)
  <2>1. UNCHANGED record /\ (UNCHANGED saving \/ Touch(t))
    BY <1>4 DEF Refetch
  <2> QED BY <1>1, <1>2, <1>4, <2>1, RefetchKeeps DEF Advances
<1>5. CASE LoadLatest(t)
  BY <1>1, <1>2, <1>5, LoadKeeps DEF LoadLatest, Advances
<1>6. CASE Save(t)
  BY <1>1, <1>6, SaveKeeps DEF Save, Advances
<1>7. CASE Answer(t)
  BY <1>7, AnswerKeeps DEF Advances, OpenStates
<1>8. CASE Fail(t)
  BY <1>1, <1>8, FailKeeps DEF Fail, Advances, OpenStates
<1>9. CASE TakeSaved(t)
  <2>1. saving[t] # Idle /\ Saved(t, saving[t].current) /\ UNCHANGED <<record, cached>>
    BY <1>9 DEF TakeSaved, Idle
  <2> QED BY <1>1, <2>1, SavedKeeps DEF Advances, OpenStates
<1>10. CASE TakeRefusal(t)
  BY <1>1, <1>10, RefusalKeeps DEF TakeRefusal, Advances, OpenStates
<1>11. CASE Reapply(t)
  BY <1>1, <1>11, RebaseKeeps DEF Reapply, Advances, OpenStates
<1>12. CASE Discard(t)
  BY <1>1, <1>12, DiscardKeeps DEF Discard, Advances, OpenStates
<1> QED BY <1>3, <1>4, <1>5, <1>6, <1>7, <1>8, <1>9, <1>10, <1>11, <1>12 DEF TabStep

(* There is always a version left for each save that may yet make one.      *)
LEMMA RoomKept ==
  ASSUME RecordInv, NEW t \in Tabs, TabStep(t), RecordTypeOK'
  PROVE  (record.version + Cardinality(OpenSaves) <= MaxVersion)'
<1>1. /\ RecordTypeOK /\ IsFiniteSet(Tabs) /\ record.version + Cardinality(OpenSaves) <= MaxVersion
      /\ record.version \in Nat /\ record'.version \in Nat /\ MaxVersion \in Nat
  BY VersionAssumption, TabsAssumption DEF RecordInv, RecordTypes, RecordTypeOK, Versions
<1>2. /\ IsFiniteSet(OpenSaves) /\ Cardinality(OpenSaves) \in Nat
      /\ IsFiniteSet(OpenSaves') /\ Cardinality(OpenSaves') \in Nat
  BY <1>1, FS_Subset, FS_CardinalityType DEF OpenSaves
<1>3. Kept(t) /\ Others(t)
  BY TabKeeps DEF Kept
<1>4. CASE UNCHANGED record /\ (saving'[t].at \in OpenStates => saving[t].at \in OpenStates)
  <2>1. OpenSaves' \subseteq OpenSaves
    BY <1>3, <1>4 DEF OpenSaves, OpenStates, Others
  <2>2. Cardinality(OpenSaves') <= Cardinality(OpenSaves)
    BY <1>2, <2>1, FS_Subset
  <2> QED BY <1>1, <1>2, <1>4, <2>2
<1>5. CASE UNCHANGED record /\ Save(t)
  <2> DEFINE busy == {u \in Tabs : saving[u] # Idle}
  <2>1. IsFiniteSet(busy) /\ Cardinality(busy) \in Nat /\ IsFiniteSet(busy \cup {t})
    BY <1>1, FS_Subset, FS_CardinalityType
  <2>2. t \notin busy /\ record.version + Cardinality(busy) < MaxVersion
    BY <1>5 DEF Save
  <2>3. OpenSaves' \subseteq busy \cup {t}
    BY <1>3 DEF OpenSaves, Others, Idle
  <2> HIDE DEF busy
  <2>4. Cardinality(busy \cup {t}) = Cardinality(busy) + 1
    BY <2>1, <2>2, FS_AddElement
  <2>5. Cardinality(OpenSaves') <= Cardinality(busy \cup {t})
    BY <2>1, <2>3, FS_Subset
  <2> QED BY <1>1, <1>2, <1>5, <2>1, <2>2, <2>4, <2>5
<1>6. CASE /\ record'.version = record.version + 1 /\ saving[t].at = "sent"
           /\ saving'[t].at \in {"saved", "lost"}
  <2>1. t \in OpenSaves /\ OpenSaves' \subseteq OpenSaves \ {t}
    BY <1>3, <1>6 DEF OpenSaves, Others
  <2>2. Cardinality(OpenSaves \ {t}) = Cardinality(OpenSaves) - 1 /\ IsFiniteSet(OpenSaves \ {t})
    BY <1>2, <2>1, FS_RemoveElement
  <2>3. Cardinality(OpenSaves') <= Cardinality(OpenSaves \ {t})
    BY <2>1, <2>2, FS_Subset
  <2> QED BY <1>1, <1>2, <1>6, <2>2, <2>3
<1> QED BY <1>4, <1>5, <1>6, TabKeeps

LEMMA TabStepKeeps ==
  ASSUME RecordInv, NEW t \in Tabs, TabStep(t)
  PROVE  RecordInv'
<1>1. /\ RecordTypeOK /\ CopiesAgree /\ \A u \in Tabs : TabInv(u)
      /\ Kept(t) /\ Advances /\ Others(t) /\ Tabular
  BY TabKeeps, StepsTabular DEF RecordInv, RecordTypes, Kept
<1>2. \A u \in Tabs : TabType(u)'
  <2> SUFFICES ASSUME NEW u \in Tabs
               PROVE  TabType(u)'
    OBVIOUS
  <2>1. CASE u = t
    BY <1>1, <2>1 DEF Kept
  <2>2. CASE u # t
    BY <1>1, <2>2, TabTypes DEF Others, TabType
  <2> QED BY <2>1, <2>2
<1>3. record' \in [version : Versions, fields : Form, exists : BOOLEAN]
  BY <1>1 DEF Advances, RecordTypeOK
<1>4. RecordTypeOK'
  BY <1>1, <1>2, <1>3 DEF RecordTypeOK, TabType, Tabular, EditType
<1>5. \A u \in Tabs : TabInv(u)'
  <2> SUFFICES ASSUME NEW u \in Tabs
               PROVE  TabInv(u)'
    OBVIOUS
  <2>1. CASE u = t
    BY <1>1, <2>1 DEF Kept
  <2>2. CASE u # t
    BY <1>1, <2>2 DEF Others, TabInv
  <2> QED BY <2>1, <2>2
<1>6. ASSUME NEW copy \in Copy, Agrees(copy)
      PROVE  Agrees(copy)'
  BY <1>1, <1>6 DEF Agrees, Advances, RecordTypeOK, Copy, Versions
<1>7. Agrees(Current)' /\ Agrees(Current)
  BY <1>1, <1>3 DEF Agrees, Current, RecordTypeOK, Versions
<1>8. CopiesAgree'
  <2> SUFFICES ASSUME NEW u \in Tabs, NEW copy \in TabCopies(u)'
               PROVE  Agrees(copy)'
    BY DEF CopiesAgree
  <2>1. TabCopies(u)' \subseteq TabCopies(u) \cup {Current, Current'}
    <3>1. CASE u = t
      BY <1>1, <3>1 DEF Kept, CopiesGo
    <3>2. CASE u # t
      BY <1>1, <3>2 DEF Others, TabCopies
    <3> QED BY <3>1, <3>2
  <2>2. CASE copy \in TabCopies(u)
    BY <1>1, <1>6, <2>2, CopiesType DEF CopiesAgree
  <2>3. CASE copy = Current
    BY <1>1, <1>6, <1>7, <2>3, CurrentType
  <2>4. CASE copy = Current'
    BY <1>7, <2>4
  <2> QED BY <2>1, <2>2, <2>3, <2>4
<1>9. (record.version + Cardinality(OpenSaves) <= MaxVersion)'
  BY <1>4, RoomKept
<1> QED BY <1>1, <1>4, <1>5, <1>8, <1>9 DEF RecordInv, RecordTypes

LEMMA DeleteKeeps ==
  ASSUME RecordInv, Delete
  PROVE  RecordInv'
<1>1. /\ record'.version = record.version /\ record'.fields = record.fields
      /\ record' \in [version : Versions, fields : Form, exists : BOOLEAN]
      /\ UNCHANGED <<cached, edit, saving, seen, typed>>
  BY DEF Delete, RecordInv, RecordTypes, RecordTypeOK
<1>2. RecordTypes'
  BY <1>1 DEF RecordInv, RecordTypes, RecordTypeOK, OpenSaves
<1>3. CopiesAgree'
  BY <1>1 DEF RecordInv, CopiesAgree, TabCopies, Agrees
<1>4. \A t \in Tabs : TabInv(t)'
  BY <1>1 DEF RecordInv, TabInv
<1> QED BY <1>2, <1>3, <1>4 DEF RecordInv

LEMMA StutterKeeps ==
  ASSUME RecordInv, UNCHANGED recordVars
  PROVE  RecordInv'
<1>1. UNCHANGED <<record, cached, edit, saving, seen, typed>>
  BY DEF recordVars
<1>2. RecordTypes'
  BY <1>1 DEF RecordInv, RecordTypes, RecordTypeOK, OpenSaves
<1>3. CopiesAgree'
  BY <1>1 DEF RecordInv, CopiesAgree, TabCopies, Agrees
<1>4. \A t \in Tabs : TabInv(t)'
  BY <1>1 DEF RecordInv, TabInv
<1> QED BY <1>2, <1>3, <1>4 DEF RecordInv

LEMMA NextKeeps ==
  ASSUME RecordInv, [RecordNext]_recordVars
  PROVE  RecordInv'
<1>1. CASE \E t \in Tabs : TabStep(t)
  BY <1>1, TabStepKeeps
<1>2. CASE Delete
  BY <1>2, DeleteKeeps
<1>3. CASE UNCHANGED recordVars
  BY <1>3, StutterKeeps
<1> QED BY <1>1, <1>2, <1>3 DEF RecordNext, TabStep

LEMMA InitHolds ==
  ASSUME RecordInit
  PROVE  RecordInv
<1> DEFINE held == [f \in Fields |-> CHOOSE v \in Values : TRUE]
<1>1. held \in Form /\ 1 \in Versions
  BY ValuesAssumption, VersionAssumption DEF Form, Versions
<1> HIDE DEF held
<1> DEFINE first == [version |-> 1, fields |-> held]
<1>2. /\ record = [version |-> 1, fields |-> held, exists |-> TRUE]
      /\ cached = [t \in Tabs |-> first] /\ edit = [t \in Tabs |-> FromRecord(first)]
      /\ saving = [t \in Tabs |-> Idle] /\ seen = [t \in Tabs |-> held]
      /\ typed = [t \in Tabs |-> {}]
  BY DEF RecordInit, held
<1>3. /\ first \in Copy /\ FromRecord(first) \in EditType
      /\ FromRecord(first).form = held /\ FromRecord(first).base = held
      /\ Started(FromRecord(first)) = first
  BY <1>1 DEF Copy, FromRecord, EditType, Started
<1>4. RecordTypeOK
  BY <1>1, <1>2, <1>3 DEF RecordTypeOK, EditType
<1>5. OpenSaves = {}
  BY <1>2 DEF OpenSaves, Idle
<1>6. RecordTypes
  <2>1. Cardinality(OpenSaves) = 0
    BY <1>5, FS_EmptySet
  <2> QED BY <1>2, <1>4, <2>1, VersionAssumption DEF RecordTypes
<1>7. \A t \in Tabs : TabInv(t)
  BY <1>2, <1>3 DEF TabInv, Idle
<1>8. CopiesAgree
  BY <1>2, <1>3 DEF CopiesAgree, TabCopies, Agrees
<1> QED BY <1>6, <1>7, <1>8 DEF RecordInv

LEMMA RecordInvariant == RecordSpec => []RecordInv
<1>1. RecordSpec => RecordInit /\ [][RecordNext]_recordVars
  BY DEF RecordSpec
<1>2. RecordInit => RecordInv
  BY InitHolds
<1>3. RecordInv /\ [RecordNext]_recordVars => RecordInv'
  BY NextKeeps
<1> QED BY <1>1, <1>2, <1>3, PTL

(* The variables keep their types: whatever a save merges, asks or reapplies *)
(* (hooks/useEditableRecord), every tab's form, copies and save under way are *)
(* well formed and the record's version stays within its bound.             *)
THEOREM RecordTypeCorrect == RecordSpec => []RecordTypeOK
<1>1. RecordInv => RecordTypeOK
  BY DEF RecordInv, RecordTypes
<1> QED BY <1>1, RecordInvariant, PTL

-----------------------------------------------------------------------------
(* What a save changes of the record.                                       *)
LEMMA SaveWrites ==
  ASSUME RecordInv, [RecordNext]_recordVars, NEW t \in Tabs,
         saving'[t].at \in {"saved", "lost"}, saving[t].at = "sent",
         NEW f \in Fields, record'.fields[f] # record.fields[f]
  PROVE  seen[t][f] = record.fields[f] /\ f \in typed[t]
<1>1. RecordTypeOK /\ TabInv(t) /\ saving[t] # Idle /\ saving[t] \in Attempt /\ TabType(t)
  BY UnderWay, TabTypes DEF RecordInv, RecordTypes, Idle
<1>2. CASE Answer(t)
  <2>1. /\ MatchesVersion(saving[t])
        /\ record'.fields = Patched(record.fields, saving[t].base, saving[t].form)
    BY <1>2, AnswerKeeps
  <2>2. saving[t].form[f] # saving[t].base[f]
    BY <2>1 DEF Patched
  <2>3. Agrees(Started(edit[t])) /\ edit[t].version >= saving[t].version
    BY <1>1 DEF RecordInv, CopiesAgree, TabCopies, TabInv
  <2>4. edit[t].version = record.version
    <3>1. /\ edit[t].version \in Nat /\ record.version \in Nat
          /\ saving[t].version = record.version /\ edit[t].version <= record.version
      BY <1>1, <2>1, <2>3 DEF Agrees, Started, MatchesVersion, TabType, EditType, Versions,
                              RecordTypeOK
    <3> QED BY <2>3, <3>1
  <2>5. edit[t].base = record.fields
    BY <2>3, <2>4 DEF Agrees, Started
  <2> QED BY <1>1, <2>2, <2>5 DEF TabInv
<1>3. ASSUME NEW u \in Tabs, Answer(u), u # t
      PROVE  FALSE
  BY <1>1, <1>3, AnswerKeeps DEF Kept, Others
<1>4. CASE UNCHANGED record \/ Delete
  BY <1>1, <1>4 DEF Delete, RecordTypeOK
<1>5. ASSUME NEW u \in Tabs, TabStep(u), ~Answer(u)
      PROVE  UNCHANGED record
  BY <1>5 DEF TabStep, Type, Refetch, LoadLatest, Save, Fail, TakeSaved, TakeRefusal,
              Reapply, Discard
<1>6. CASE UNCHANGED recordVars
  BY <1>4, <1>6 DEF recordVars
<1>7. \/ \E u \in Tabs : TabStep(u)
      \/ Delete
      \/ UNCHANGED recordVars
  BY DEF RecordNext, TabStep
<1> QED BY <1>2, <1>3, <1>4, <1>5, <1>6, <1>7

(* What is typed while a save is under way outlives it.                     *)
LEMMA EndKeepsTyping ==
  ASSUME RecordInv, [RecordNext]_recordVars, NEW t \in Tabs,
         saving[t].at \in {"saved", "lost", "failed"}, saving'[t] = Idle,
         NEW f \in Fields, edit[t].form[f] # saving[t].current.fields[f]
  PROVE  edit'[t].form[f] = edit[t].form[f]
<1>1. RecordTypeOK /\ TabInv(t) /\ saving[t] # Idle /\ saving[t] \in Attempt /\ TabType(t)
  BY UnderWay, TabTypes DEF RecordInv, RecordTypes, Idle
<1>2. CASE Fail(t)
  BY <1>2 DEF Fail
<1>3. CASE TakeSaved(t)
  <2> DEFINE copy == saving[t].current
             e == [base |-> copy.fields, version |-> copy.version,
                   form |-> IF saving[t].touched THEN edit[t].form ELSE copy.fields]
  <2>1. saving[t].touched
    BY <1>1, <1>3 DEF TabInv, TakeSaved
  <2>2. e.form = edit[t].form /\ e \in EditType /\ e.base[f] # e.form[f]
    BY <1>1, <2>1 DEF TabType, EditType, Attempt, Copy
  <2>3. edit' = [edit EXCEPT ![t] = Following(e, cached[t])]
    BY <1>3 DEF TakeSaved, Saved, ShowForm
  <2> HIDE DEF e
  <2>4. Following(e, cached[t]) = e
    BY <2>2 DEF Following, Dirty
  <2> QED BY <1>1, <2>2, <2>3, <2>4 DEF RecordTypeOK
<1>4. \/ \E u \in Tabs : TabStep(u)
      \/ Delete
      \/ UNCHANGED recordVars
  BY DEF RecordNext, TabStep
<1>5. CASE Delete \/ UNCHANGED recordVars
  BY <1>5 DEF Delete, recordVars
<1>6. ASSUME NEW u \in Tabs, TabStep(u)
      PROVE  edit'[t].form[f] = edit[t].form[f]
  <2>1. CASE u # t
    BY <1>6, <2>1, TabKeeps DEF Kept, Others
  <2>2. CASE u = t
    <3>1. ASSUME Touch(t)
          PROVE  FALSE
      BY <1>1, <3>1, Touches DEF Attempt, Idle
    <3>2. CASE \/ \E g \in Fields, v \in Values : Type(t, g, v)
               \/ LoadLatest(t)
      BY <3>1, <3>2 DEF Type, LoadLatest
    <3>3. CASE Refetch(t)
      BY <3>1, <3>3 DEF Refetch
    <3>4. CASE Answer(t) \/ Save(t) \/ TakeRefusal(t) \/ Reapply(t) \/ Discard(t)
      BY <1>1, <3>4 DEF Answer, Save, TakeRefusal, Reapply, Discard
    <3> QED BY <1>2, <1>3, <1>6, <2>2, <3>2, <3>3, <3>4 DEF TabStep
  <2> QED BY <2>1, <2>2
<1> QED BY <1>4, <1>5, <1>6

(* In any number of tabs, with saves refused, merged and sent again while    *)
(* others go on saving, a save overwrites only what its user saw, changes    *)
(* only what they typed, and keeps what they type while it is under way     *)
(* (hooks/useEditableRecord).                                               *)
THEOREM NothingLost == RecordSpec => SavesLoseNothing
<1>1. RecordSpec => [][RecordNext]_recordVars
  BY DEF RecordSpec
<1>2. RecordInv /\ [RecordNext]_recordVars =>
        [\A t \in Tabs : saving'[t].at \in {"saved", "lost"} /\ saving[t].at = "sent" =>
           \A f \in Fields : record'.fields[f] # record.fields[f]
                               => seen[t][f] = record.fields[f]]_recordVars
  BY SaveWrites
<1>3. RecordInv /\ [RecordNext]_recordVars =>
        [\A t \in Tabs : saving'[t].at \in {"saved", "lost"} /\ saving[t].at = "sent" =>
           \A f \in Fields : record'.fields[f] # record.fields[f] => f \in typed[t]]_recordVars
  BY SaveWrites
<1>4. RecordInv /\ [RecordNext]_recordVars =>
        [\A t \in Tabs : saving[t].at \in {"saved", "lost", "failed"} /\ saving'[t] = Idle =>
           \A f \in Fields : \/ edit[t].form[f] = saving[t].current.fields[f]
                             \/ edit'[t].form[f] = edit[t].form[f]]_recordVars
  BY EndKeepsTyping
<1> QED BY <1>1, <1>2, <1>3, <1>4, RecordInvariant, PTL
        DEF SavesLoseNothing, OverwritesSeen, OnlyOwnChanges, SavedKeepsTyping

-----------------------------------------------------------------------------
(* The feed of changes a tab hears.                                          *)

(* Deliver puts the message at the end, or empties the queue for a resync.  *)
LEMMA DeliverType ==
  ASSUME FeedTypeOK, NEW message \in Message, Deliver(message)
  PROVE  queue' \in Seq(Message) /\ Len(queue') <= Backlog
<1> USE BacklogAssumption DEF FeedTypeOK, Deliver
<1>1. CASE ~Subscribed \/ Len(queue) < Backlog
  BY <1>1
<1>2. CASE Subscribed /\ Len(queue) >= Backlog
  <2>1. queue' = <<"resync">> /\ "resync" \in Message
    BY <1>2 DEF Message
  <2> QED BY <2>1
<1> QED BY <1>1, <1>2

(* Hearing a message leaves the rest of the queue.                          *)
LEMMA TailType ==
  ASSUME FeedTypeOK, queue # <<>>
  PROVE  /\ Head(queue) \in Message
         /\ Tail(queue) \in Seq(Message) /\ Len(Tail(queue)) <= Backlog
BY BacklogAssumption DEF FeedTypeOK

LEMMA FeedTypeStep ==
  ASSUME FeedTypeOK, [FeedNext]_feedVars
  PROVE  FeedTypeOK'
<1> USE BacklogAssumption DEF FeedTypeOK
<1>1. ASSUME NEW m \in Models, Change(m) PROVE FeedTypeOK'
  <2>1. m \in Message /\ Affected(ENTITY_OF_MODEL(m)) \subseteq Entities
    BY DEF Message, Models, ALSO_CHANGES, Affected, ENTITY_OF_MODEL, ALWAYS, Entities
  <2>2. queue' \in Seq(Message) /\ Len(queue') <= Backlog
    BY <1>1, <2>1, DeliverType DEF Change
  <2> QED BY <1>1, <2>1, <2>2 DEF Change
<1>2. CASE ConnectionDies
  BY <1>2 DEF ConnectionDies
<1>3. CASE ConnectionLost
  <2>1. queue' \in Seq(Message) /\ Len(queue') <= Backlog
    BY <1>3, DeliverType DEF ConnectionLost, Message
  <2> QED BY <1>3, <2>1 DEF ConnectionLost
<1>4. CASE Reconnect
  <2>1. queue' \in Seq(Message) /\ Len(queue') <= Backlog
    BY <1>4, DeliverType DEF Reconnect, Message
  <2> QED BY <1>4, <2>1 DEF Reconnect
<1>5. CASE Hello
  BY <1>5 DEF Hello, Gather, Entities, ALWAYS
<1>6. ASSUME NEW next \in {"opening", "closed"}, Errored(next) PROVE FeedTypeOK'
  BY <1>6 DEF Errored
<1>7. CASE Hear
  <2>1. CASE Head(queue) = "lost"
    BY <1>6, <1>7, <2>1 DEF Hear
  <2>2. CASE Head(queue) # "lost"
    <3>1. gathered' \subseteq Entities
      BY <1>7, <2>2, TailType
         DEF Hear, Gather, Message, Models, ALSO_CHANGES, Affected, ENTITY_OF_MODEL,
             ALWAYS, Entities
    <3>2. /\ queue' = Tail(queue)
          /\ UNCHANGED <<conn, stream, old, visible, moving, feed, everLive>>
      BY <1>7, <2>2 DEF Hear
    <3> QED BY <1>7, <3>1, <3>2, TailType DEF Hear
  <2> QED BY <2>1, <2>2
<1>8. CASE Bye \/ Show \/ Revive
  <2>1. queue' \in {queue, <<>>} /\ stream' \in {stream, "opening"}
    BY <1>8 DEF Bye, Show, Revive, Open
  <2>2. feed' \in {feed, "connecting", "reconnecting"} /\ visible' \in BOOLEAN
    BY <1>8 DEF Bye, Show, Revive
  <2>3. UNCHANGED <<conn, gathered, old, moving, everLive>>
    BY <1>8 DEF Bye, Show, Revive
  <2>4. queue' \in Seq(Message) /\ Len(queue') <= Backlog
    <3>1. CASE queue' = queue
      BY <3>1
    <3>2. CASE queue' = <<>>
      BY <3>2
    <3> QED BY <2>1, <3>1, <3>2
  <2>5. {visible', moving', everLive'} \subseteq BOOLEAN
    BY <2>2, <2>3
  <2>6. feed' \in {"connecting", "live", "reconnecting", "off"}
    BY <2>2
  <2> QED BY <2>1, <2>3, <2>4, <2>5, <2>6
<1>9. CASE DiesSilently \/ Hide \/ Pause
  <2>1. queue' \in {queue, <<>>} /\ stream' \in {stream, "dead", "paused"}
    BY <1>9 DEF DiesSilently, Hide, Pause
  <2>2. visible' \in BOOLEAN /\ UNCHANGED <<conn, gathered, old, moving, feed, everLive>>
    BY <1>9 DEF DiesSilently, Hide, Pause
  <2>3. queue' \in Seq(Message) /\ Len(queue') <= Backlog
    <3>1. CASE queue' = queue
      BY <3>1
    <3>2. CASE queue' = <<>>
      BY <3>2
    <3> QED BY <2>1, <3>1, <3>2
  <2>4. {visible', moving', everLive'} \subseteq BOOLEAN
    BY <2>2
  <2>5. feed' \in {"connecting", "live", "reconnecting", "off"}
    BY <2>2
  <2> QED BY <2>1, <2>2, <2>3, <2>4, <2>5
<1>10. CASE Flush
  BY <1>10 DEF Flush
<1>11. CASE MoveStarts \/ MovesSettle
  BY <1>11 DEF MoveStarts, MovesSettle
<1>12. CASE UNCHANGED feedVars
  BY <1>12 DEF feedVars
<1> QED BY <1>1, <1>2, <1>3, <1>4, <1>5, <1>6, <1>7, <1>8, <1>9, <1>10, <1>11, <1>12
        DEF FeedNext, Refused, Drops

-----------------------------------------------------------------------------
(* What waits for an open stream goes on waiting until it is heard, and what *)
(* is delivered to it waits, if only as a resync.                            *)
LEMMA Waits ==
  ASSUME FeedTypeOK, NEW message \in Message, Deliver(message), stream = "open",
         NEW e \in Entities,
         \/ WillSay(e)
         \/ message \in {"resync", "lost"}
         \/ e \in Affected(ENTITY_OF_MODEL(message))
  PROVE  WillSay(e)'
<1> USE BacklogAssumption DEF FeedTypeOK
<1>1. CASE Len(queue) < Backlog
  <2>1. queue' = Append(queue, message) /\ Len(queue') = Len(queue) + 1
    BY <1>1 DEF Deliver, Subscribed
  <2>2. /\ queue'[Len(queue')] = message
        /\ \A i \in 1..Len(queue) : queue'[i] = queue[i] /\ i \in 1..Len(queue')
        /\ Len(queue') \in 1..Len(queue')
    BY <2>1
  <2> QED BY <2>2 DEF WillSay
<1>2. CASE Len(queue) >= Backlog
  <2>1. queue' = <<"resync">>
    BY <1>2 DEF Deliver, Subscribed
  <2>2. 1 \in 1..Len(queue') /\ queue'[1] = "resync"
    BY <2>1
  <2> QED BY <2>2 DEF WillSay
<1> QED BY <1>1, <1>2

(* Once the head of the queue is heard, the rest says what else it said.    *)
LEMMA RestWaits ==
  ASSUME FeedTypeOK, queue # <<>>, queue' = Tail(queue), NEW e \in Entities, WillSay(e)
  PROVE  \/ WillSay(e)'
         \/ Head(queue) \in {"resync", "lost"}
         \/ e \in Affected(ENTITY_OF_MODEL(Head(queue)))
<1> USE DEF FeedTypeOK
<1>1. PICK i \in 1..Len(queue) :
        queue[i] \in {"resync", "lost"} \/ e \in Affected(ENTITY_OF_MODEL(queue[i]))
  BY DEF WillSay
<1>2. CASE i = 1
  BY <1>1, <1>2
<1>3. CASE i # 1
  <2>1. i - 1 \in 1..Len(queue') /\ queue'[i - 1] = queue[i]
    BY <1>3
  <2> QED BY <1>1, <2>1 DEF WillSay
<1> QED BY <1>2, <1>3

LEMMA NoticedStep ==
  ASSUME FeedTypeOK, OldIsNoticed, [FeedNext]_feedVars
  PROVE  OldIsNoticed'
<1> SUFFICES ASSUME NEW e \in old', e \notin gathered', stream' = "open", conn' = "up"
             PROVE  WillSay(e)'
  BY DEF OldIsNoticed
<1>1. e \in Entities
  BY FeedTypeStep DEF FeedTypeOK
<1>2. ASSUME UNCHANGED <<conn, stream, queue, gathered>>, old' \subseteq old PROVE WillSay(e)'
  BY <1>2 DEF OldIsNoticed, WillSay
<1>3. ASSUME NEW m \in Models, Change(m) PROVE WillSay(e)'
  <2>1. /\ stream = "open" /\ conn = "up" /\ Deliver(m) /\ m \in Message
        /\ gathered' = gathered
    BY <1>3 DEF Change, Message
  <2>2. WillSay(e) \/ e \in Affected(ENTITY_OF_MODEL(m))
    BY <1>3, <2>1 DEF Change, OldIsNoticed
  <2> QED BY <1>1, <2>1, <2>2, Waits
<1>4. CASE Reconnect
  <2>1. stream = "open" /\ Deliver("resync") /\ "resync" \in Message
    BY <1>4 DEF Reconnect, Message
  <2> QED BY <1>1, <2>1, Waits
<1>5. CASE Hello
  BY <1>1, <1>5 DEF Hello, Gather
<1>6. CASE Hear
  <2>1. Head(queue) # "lost"
    BY <1>6 DEF Hear, Errored
  <2>2. /\ stream = "open" /\ conn = "up" /\ queue # <<>> /\ queue' = Tail(queue)
        /\ old' = old /\ gathered \subseteq gathered'
        /\ Head(queue) = "resync" => gathered' = gathered \cup Entities \cup ALWAYS
        /\ Head(queue) # "resync" =>
             gathered' = gathered \cup Affected(ENTITY_OF_MODEL(Head(queue))) \cup ALWAYS
    BY <1>6, <2>1 DEF Hear, Gather
  <2>3. WillSay(e)
    BY <2>2 DEF OldIsNoticed
  <2> QED BY <1>1, <2>1, <2>2, <2>3, RestWaits
<1>7. CASE Flush
  <2>1. UNCHANGED <<conn, stream, queue>> /\ e \in old /\ e \notin gathered
    BY <1>7 DEF Flush
  <2> QED BY <2>1 DEF OldIsNoticed, WillSay
<1>8. CASE Hide \/ MoveStarts \/ MovesSettle \/ UNCHANGED feedVars
  BY <1>2, <1>8 DEF Hide, MoveStarts, MovesSettle, feedVars
<1>9. CASE Show
  BY <1>2, <1>9 DEF Show, Open
<1>10. ASSUME \/ ConnectionDies \/ ConnectionLost \/ Refused \/ Bye \/ Drops \/ DiesSilently
              \/ Pause \/ Revive
       PROVE  FALSE
  BY <1>10 DEF ConnectionDies, ConnectionLost, Refused, Bye, Drops, DiesSilently, Pause,
     Revive, Errored, Open
<1> QED BY <1>3, <1>4, <1>5, <1>6, <1>7, <1>8, <1>9, <1>10 DEF FeedNext

LEMMA LiveStep ==
  ASSUME LiveIsNeverOff, [FeedNext]_feedVars
  PROVE  LiveIsNeverOff'
<1> USE DEF LiveIsNeverOff
<1>1. ASSUME NEW next, Errored(next) PROVE LiveIsNeverOff'
  BY <1>1 DEF Errored
<1>2. CASE Hear
  <2>1. CASE Head(queue) = "lost"
    BY <1>1, <1>2, <2>1 DEF Hear
  <2>2. CASE Head(queue) # "lost"
    BY <1>2, <2>2 DEF Hear
  <2> QED BY <2>1, <2>2
<1>3. CASE Refused \/ Drops
  BY <1>1, <1>3 DEF Refused, Drops
<1>4. CASE Hello \/ Show \/ Revive
  BY <1>4 DEF Hello, Show, Revive
<1>5. ASSUME NEW m, Change(m) PROVE LiveIsNeverOff'
  BY <1>5 DEF Change
<1>6. CASE \/ ConnectionDies \/ ConnectionLost \/ Reconnect \/ Bye \/ DiesSilently \/ Hide
           \/ Pause \/ Flush \/ MoveStarts \/ MovesSettle \/ UNCHANGED feedVars
  BY <1>6 DEF ConnectionDies, ConnectionLost, Reconnect, Bye, DiesSilently, Hide, Pause,
     Flush, MoveStarts, MovesSettle, feedVars
<1> QED BY <1>2, <1>3, <1>4, <1>5, <1>6 DEF FeedNext

-----------------------------------------------------------------------------
FeedInv == FeedTypeOK /\ OldIsNoticed /\ LiveIsNeverOff

LEMMA FeedInvariant == FeedSpec => []FeedInv
<1>1. FeedInit => FeedInv
  <2> SUFFICES ASSUME FeedInit PROVE FeedInv
    OBVIOUS
  <2>1. queue \in Seq(Message) /\ Len(queue) <= Backlog
    BY BacklogAssumption DEF FeedInit
  <2>2. FeedTypeOK
    BY <2>1 DEF FeedInit, FeedTypeOK
  <2>3. OldIsNoticed /\ LiveIsNeverOff
    BY DEF FeedInit, OldIsNoticed, LiveIsNeverOff
  <2> QED BY <2>2, <2>3 DEF FeedInv
<1>2. FeedInv /\ [FeedNext]_feedVars => FeedInv'
  BY FeedTypeStep, NoticedStep, LiveStep DEF FeedInv
<1>3. FeedSpec => FeedInit /\ [][FeedNext]_feedVars
  BY DEF FeedSpec
<1> QED BY <1>1, <1>2, <1>3, PTL

(* Every state of the feed is of the types the module states: no stream's   *)
(* queue outgrows its backlog (deliver empties a full one).                 *)
THEOREM FeedTypeCorrect == FeedSpec => []FeedTypeOK
<1>1. FeedInv => FeedTypeOK
  BY DEF FeedInv
<1> QED BY <1>1, FeedInvariant, PTL

(* A tab never shows an old copy with nothing to tell it so, whatever the    *)
(* notice connection, the streams' queues, the proxies and the tab itself    *)
(* lose; and a feed that was live is never said to be off (live_stream.py,   *)
(* hooks/useEventChangeFeed.ts).                                             *)
THEOREM ChangesNoticed == FeedSpec => []ChangesAreNoticed
<1>1. FeedInv => ChangesAreNoticed
  BY DEF FeedInv, ChangesAreNoticed
<1> QED BY <1>1, FeedInvariant, PTL

-----------------------------------------------------------------------------
(* Edit leases.  A live lease of this form's page is always accounted for:   *)
(* the form holds it, a release of it is on its way, or a grant of it is,    *)
(* that the form will heed.                                                  *)
MineLive == lease # Nothing /\ lease.live /\ lease.who = "me"

(* Take k is a grant of the row there is, not overtaken by a later answer.  *)
Grants(ts, k) == ts[k].at = "granted" /\ ts[k].id = "row" /\ ~ts[k].overtaken

(* The server answers the takes in the order they were sent, and a later     *)
(* grant is of no older row than an earlier one, nor than what is held.      *)
InOrder(ts, held) ==
  /\ \A i, j \in DOMAIN ts : j < i /\ ts[j].at = "sent" => ts[i].at = "sent"
  /\ \A i \in DOMAIN ts : ts[i].at = "sent" => ~ts[i].overtaken
  /\ \A i, j \in DOMAIN ts :
       j < i /\ ts[j].at = "granted" /\ ts[j].id = "row" /\ ts[i].at = "granted" => ts[i].id = "row"
  /\ held = "row" =>
       \A i \in DOMAIN ts : ts[i].at = "granted" /\ ~ts[i].overtaken => ts[i].id = "row"

(* A lease the page has is held, granted or being given up; a refusal still  *)
(* on its way was before the grant of it.                                    *)
Accounted(ts, held, going) ==
  /\ held = "row" \/ "row" \in going \/ \E k \in DOMAIN ts : Grants(ts, k)
  /\ \A i \in DOMAIN ts :
       ts[i].at = "held" /\ ~ts[i].overtaken
         => "row" \in going \/ \E k \in DOMAIN ts : i < k /\ Grants(ts, k)

(* A form that holds a lease wants it.                                       *)
HoldsWanted(f) == f.held # Nothing => f.page = "open" /\ (f.dirty \/ f.tookOver) /\ ~f.refused

LeaseForm == [page : {"open", "closed", "gone"}, dirty : BOOLEAN, tookOver : BOOLEAN,
         refused : BOOLEAN, held : Ids \cup {Nothing}, data : Who \cup {Nothing},
         look : {<<>>} \cup {<<w>> : w \in Who \cup {Nothing}}]

LeaseInv ==
  /\ LeaseTypeOK
  /\ takes \in Seq(Take)
  /\ HoldsWanted(form)
  /\ ~strayed => InOrder(takes, form.held) /\ (MineLive => Accounted(takes, form.held, releases))

-----------------------------------------------------------------------------
(* Takes sent, answered and heard.                                           *)
LEMMA TakesAppended ==
  ASSUME NEW ts \in Seq(Take), NEW take \in Take, take.at = "sent", ~take.overtaken
  PROVE  /\ Append(ts, take) \in Seq(Take) /\ Len(Append(ts, take)) = Len(ts) + 1
         /\ \A held : InOrder(ts, held) => InOrder(Append(ts, take), held)
         /\ \A held, going : Accounted(ts, held, going) => Accounted(Append(ts, take), held, going)
<1> DEFINE new == Append(ts, take)
<1>1. new \in Seq(Take) /\ Len(new) = Len(ts) + 1
  BY AppendProperties
<1>2. /\ DOMAIN ts = 1..Len(ts) /\ Len(ts) \in Nat /\ DOMAIN new = 1..Len(ts) + 1
      /\ \A k \in DOMAIN ts : k \in DOMAIN new /\ new[k] = ts[k]
      /\ \A k \in DOMAIN new : k \in DOMAIN ts \/ (k = Len(ts) + 1 /\ new[k] = take)
  BY AppendProperties
<1> HIDE DEF new
<1>3. ASSUME NEW held, InOrder(ts, held) PROVE InOrder(new, held)
  <2>1. \A i, j \in DOMAIN new : j < i /\ new[j].at = "sent" => new[i].at = "sent"
    BY <1>2, <1>3 DEF InOrder
  <2>2. \A i \in DOMAIN new : new[i].at = "sent" => ~new[i].overtaken
    BY <1>2, <1>3 DEF InOrder
  <2>3. \A i, j \in DOMAIN new :
          j < i /\ new[j].at = "granted" /\ new[j].id = "row" /\ new[i].at = "granted" => new[i].id = "row"
    BY <1>2, <1>3 DEF InOrder
  <2>4. held = "row" =>
          \A i \in DOMAIN new : new[i].at = "granted" /\ ~new[i].overtaken => new[i].id = "row"
    BY <1>2, <1>3 DEF InOrder
  <2> QED BY <2>1, <2>2, <2>3, <2>4 DEF InOrder
<1>4. ASSUME NEW held, NEW going, Accounted(ts, held, going) PROVE Accounted(new, held, going)
  <2>1. \A k \in DOMAIN ts : Grants(ts, k) => Grants(new, k) /\ k \in DOMAIN new
    BY <1>2 DEF Grants
  <2>2. held = "row" \/ "row" \in going \/ \E k \in DOMAIN new : Grants(new, k)
    BY <1>4, <2>1 DEF Accounted
  <2>3. ASSUME NEW i \in DOMAIN new, new[i].at = "held", ~new[i].overtaken, "row" \notin going
        PROVE  \E k \in DOMAIN new : i < k /\ Grants(new, k)
    <3>1. i \in DOMAIN ts /\ ts[i] = new[i]
      BY <1>2, <2>3
    <3> QED BY <1>4, <2>1, <2>3, <3>1 DEF Accounted
  <2> QED BY <2>2, <2>3 DEF Accounted
<1> QED BY <1>1, <1>3, <1>4 DEF new

(* What is left of the takes when one has been heard, or doesn't count.      *)
Left(s, ts, i) ==
  /\ s \in Seq(Take) /\ Len(s) = Len(ts) - 1
  /\ \A j \in 1..Len(s) : s[j] = IF j < i THEN ts[j] ELSE ts[j + 1]

LEMMA WithoutIsLeft ==
  ASSUME takes \in Seq(Take), NEW i \in DOMAIN takes
  PROVE  Left(Without(i), takes, i)
<1> DEFINE a == SubSeq(takes, 1, i - 1)
           b == SubSeq(takes, i + 1, Len(takes))
<1>1. Len(takes) \in Nat /\ i \in 1..Len(takes) /\ \A j \in 1..Len(takes) : takes[j] \in Take
  OBVIOUS
<1>2. /\ a \in Seq(Take) /\ Len(a) = i - 1
      /\ \A j \in 1..i - 1 : a[j] = takes[j]
  <2>1. 1 \in Int /\ i - 1 \in Int /\ \A j \in 1..i - 1 : takes[j] \in Take
    BY <1>1
  <2>2. /\ a \in Seq(Take) /\ Len(a) = IF 1 <= i - 1 THEN (i - 1) - 1 + 1 ELSE 0
        /\ \A j \in 1..((i - 1) - 1 + 1) : a[j] = takes[1 + j - 1]
    BY <2>1, SubSeqProperties
  <2> QED BY <1>1, <2>2
<1>3. /\ b \in Seq(Take) /\ Len(b) = Len(takes) - i
      /\ \A j \in 1..Len(takes) - i : b[j] = takes[i + j]
  <2>1. i + 1 \in Int /\ Len(takes) \in Int /\ \A j \in i + 1..Len(takes) : takes[j] \in Take
    BY <1>1
  <2>2. /\ b \in Seq(Take) /\ Len(b) = IF i + 1 <= Len(takes) THEN Len(takes) - (i + 1) + 1 ELSE 0
        /\ \A j \in 1..(Len(takes) - (i + 1) + 1) : b[j] = takes[(i + 1) + j - 1]
    BY <2>1, SubSeqProperties
  <2> QED BY <1>1, <2>2
<1> HIDE DEF a, b
<1>4. /\ a \o b \in Seq(Take) /\ Len(a \o b) = Len(a) + Len(b)
      /\ \A j \in 1..Len(a) + Len(b) : (a \o b)[j] = IF j <= Len(a) THEN a[j] ELSE b[j - Len(a)]
  BY <1>2, <1>3, ConcatProperties
<1>5. Len(a) + Len(b) = Len(takes) - 1
  BY <1>1, <1>2, <1>3
<1>6. ASSUME NEW j \in 1..Len(takes) - 1
      PROVE  (a \o b)[j] = IF j < i THEN takes[j] ELSE takes[j + 1]
  <2>1. (a \o b)[j] = IF j <= i - 1 THEN a[j] ELSE b[j - (i - 1)]
    BY <1>2, <1>4, <1>5
  <2>2. CASE j < i
    BY <1>1, <1>2, <2>1, <2>2
  <2>3. CASE ~(j < i)
    <3>1. j - (i - 1) \in 1..Len(takes) - i /\ i + (j - (i - 1)) = j + 1 /\ ~(j <= i - 1)
      BY <1>1, <2>3
    <3> QED BY <1>3, <2>1, <2>3, <3>1
  <2> QED BY <2>2, <2>3
<1> QED BY <1>4, <1>5, <1>6 DEF Left, Without, a, b

(* Where a take is once take i is gone.                                      *)
Place(k, i) == IF k < i THEN k ELSE k - 1

LEMMA LeftAre ==
  ASSUME NEW ts \in Seq(Take), NEW i \in DOMAIN ts, NEW s, Left(s, ts, i)
  PROVE  /\ s \in Seq(Take) /\ Len(s) \in Nat /\ Len(s) < Len(ts)
         /\ \A j \in DOMAIN s : \E k \in DOMAIN ts : k # i /\ j = Place(k, i) /\ s[j] = ts[k]
         /\ \A k \in DOMAIN ts : k # i => Place(k, i) \in DOMAIN s /\ s[Place(k, i)] = ts[k]
         /\ \A k, l \in DOMAIN ts : k # i /\ l # i => (Place(k, i) < Place(l, i) <=> k < l)
<1>1. /\ DOMAIN ts = 1..Len(ts) /\ Len(ts) \in Nat /\ i \in 1..Len(ts)
      /\ DOMAIN s = 1..Len(ts) - 1 /\ s \in Seq(Take) /\ Len(s) = Len(ts) - 1
      /\ \A j \in 1..Len(ts) - 1 : s[j] = IF j < i THEN ts[j] ELSE ts[j + 1]
  BY DEF Left
<1>2. ASSUME NEW j \in DOMAIN s
      PROVE  \E k \in DOMAIN ts : k # i /\ j = Place(k, i) /\ s[j] = ts[k]
  <2>1. CASE j < i
    <3>1. j \in DOMAIN ts /\ j # i /\ j = Place(j, i) /\ s[j] = ts[j]
      BY <1>1, <2>1 DEF Place
    <3> QED BY <3>1
  <2>2. CASE ~(j < i)
    <3>1. j + 1 \in DOMAIN ts /\ j + 1 # i /\ j = Place(j + 1, i) /\ s[j] = ts[j + 1]
      BY <1>1, <2>2 DEF Place
    <3> QED BY <3>1
  <2> QED BY <2>1, <2>2
<1>3. ASSUME NEW k \in DOMAIN ts, k # i
      PROVE  Place(k, i) \in DOMAIN s /\ s[Place(k, i)] = ts[k]
  BY <1>1, <1>3 DEF Place
<1>4. ASSUME NEW k \in DOMAIN ts, NEW l \in DOMAIN ts, k # i, l # i
      PROVE  Place(k, i) < Place(l, i) <=> k < l
  BY <1>1, <1>4 DEF Place
<1> QED BY <1>1, <1>2, <1>3, <1>4

LEMMA DroppedKeeps ==
  ASSUME NEW ts \in Seq(Take), NEW i \in DOMAIN ts, NEW s, Left(s, ts, i), NEW held
  PROVE  /\ InOrder(ts, held) => InOrder(s, held)
         /\ \A going, more : Accounted(ts, held, going) /\ going \subseteq more
                             /\ (Grants(ts, i) => "row" \in more) => Accounted(s, held, more)
<1>1. /\ \A j \in DOMAIN s : \E k \in DOMAIN ts : k # i /\ j = Place(k, i) /\ s[j] = ts[k]
      /\ \A k \in DOMAIN ts : k # i => Place(k, i) \in DOMAIN s /\ s[Place(k, i)] = ts[k]
      /\ \A k, l \in DOMAIN ts : k # i /\ l # i => (Place(k, i) < Place(l, i) <=> k < l)
  BY LeftAre
<1>2. ASSUME InOrder(ts, held) PROVE InOrder(s, held)
  <2>1. ASSUME NEW x \in DOMAIN s, NEW y \in DOMAIN s
        PROVE  /\ y < x /\ s[y].at = "sent" => s[x].at = "sent"
               /\ s[x].at = "sent" => ~s[x].overtaken
               /\ y < x /\ s[y].at = "granted" /\ s[y].id = "row" /\ s[x].at = "granted" => s[x].id = "row"
               /\ held = "row" => (s[x].at = "granted" /\ ~s[x].overtaken => s[x].id = "row")
    <3>1. PICK k \in DOMAIN ts : k # i /\ x = Place(k, i) /\ s[x] = ts[k]
      BY <1>1
    <3>2. PICK l \in DOMAIN ts : l # i /\ y = Place(l, i) /\ s[y] = ts[l]
      BY <1>1
    <3>3. y < x <=> l < k
      BY <1>1, <3>1, <3>2
    <3> QED BY <1>2, <3>1, <3>2, <3>3 DEF InOrder
  <2> QED BY <2>1 DEF InOrder
<1>3. ASSUME NEW going, NEW more, Accounted(ts, held, going), going \subseteq more,
             Grants(ts, i) => "row" \in more
      PROVE  Accounted(s, held, more)
  <2>1. \A k \in DOMAIN ts : k # i /\ Grants(ts, k) => Place(k, i) \in DOMAIN s /\ Grants(s, Place(k, i))
    BY <1>1 DEF Grants
  <2>2. held = "row" \/ "row" \in more \/ \E k \in DOMAIN s : Grants(s, k)
    BY <1>3, <2>1 DEF Accounted
  <2>3. ASSUME NEW x \in DOMAIN s, s[x].at = "held", ~s[x].overtaken, "row" \notin more
        PROVE  \E k \in DOMAIN s : x < k /\ Grants(s, k)
    <3>1. PICK l \in DOMAIN ts : l # i /\ x = Place(l, i) /\ s[x] = ts[l]
      BY <1>1
    <3>2. PICK k \in DOMAIN ts : l < k /\ Grants(ts, k)
      BY <1>3, <2>3, <3>1 DEF Accounted
    <3>3. k # i /\ x < Place(k, i)
      BY <1>1, <1>3, <2>3, <3>1, <3>2
    <3> QED BY <2>1, <3>2, <3>3
  <2> QED BY <2>2, <2>3 DEF Accounted
<1> QED BY <1>2, <1>3

(* Hearing the answer to take i, not overtaken, overtakes those before it.   *)
LEMMA HeardKeeps ==
  ASSUME takes \in Seq(Take), NEW i \in DOMAIN takes, ~takes[i].overtaken,
         takes[i].at \in {"granted", "held"}, InOrder(takes, form.held),
         NEW held, held = IF takes[i].at = "granted" THEN takes[i].id ELSE Nothing,
         Nothing # "row"
  PROVE  /\ Heard(i) \in Seq(Take) /\ Len(Heard(i)) < Len(takes)
         /\ InOrder(Heard(i), held)
         /\ \A going : Accounted(takes, form.held, going) => Accounted(Heard(i), held, going)
<1> DEFINE s == Heard(i)
           Source(j) == IF j < i THEN j ELSE j + 1
<1>1. /\ DOMAIN takes = 1..Len(takes) /\ Len(takes) \in Nat /\ i \in 1..Len(takes)
      /\ \A j \in 1..Len(takes) : takes[j] \in Take
  OBVIOUS
<1>2. \A j \in 1..Len(takes) - 1 :
        /\ s[j] = IF j < i THEN [takes[j] EXCEPT !.overtaken = TRUE] ELSE takes[j + 1]
        /\ s[j] \in Take
  <2> SUFFICES ASSUME NEW j \in 1..Len(takes) - 1
               PROVE  /\ s[j] = IF j < i THEN [takes[j] EXCEPT !.overtaken = TRUE] ELSE takes[j + 1]
                      /\ s[j] \in Take
    OBVIOUS
  <2>1. s[j] = IF j < i THEN [takes[j] EXCEPT !.overtaken = TRUE] ELSE takes[j + 1]
    BY DEF Heard
  <2> HIDE DEF s
  <2>2. takes[j] \in Take /\ takes[j + 1] \in Take
    BY <1>1
  <2>3. [takes[j] EXCEPT !.overtaken = TRUE] \in Take
    BY <2>2 DEF Take
  <2> QED BY <2>1, <2>2, <2>3
<1>3. s \in Seq(Take) /\ Len(s) = Len(takes) - 1 /\ DOMAIN s = 1..Len(takes) - 1
  <2>1. s = [j \in 1..Len(takes) - 1 |-> s[j]]
    BY DEF Heard
  <2> HIDE DEF s
  <2>2. Len(takes) - 1 \in Nat
    BY <1>1
  <2> QED BY <1>2, <2>1, <2>2, IsASeq
<1>4. \A j \in DOMAIN s :
        /\ Source(j) \in DOMAIN takes /\ s[j].at = takes[Source(j)].at /\ s[j].id = takes[Source(j)].id
        /\ j < i => s[j].overtaken /\ Source(j) < i
        /\ ~(j < i) => s[j] = takes[Source(j)] /\ i < Source(j)
  <2> HIDE DEF s
  <2> SUFFICES ASSUME NEW j \in DOMAIN s
               PROVE  /\ Source(j) \in DOMAIN takes
                      /\ s[j].at = takes[Source(j)].at /\ s[j].id = takes[Source(j)].id
                      /\ j < i => s[j].overtaken /\ Source(j) < i
                      /\ ~(j < i) => s[j] = takes[Source(j)] /\ i < Source(j)
    OBVIOUS
  <2>1. j \in 1..Len(takes) - 1 /\ takes[j] \in Take
    BY <1>1, <1>3
  <2>2. CASE j < i
    <3>0. Source(j) = j /\ j \in DOMAIN takes
      BY <1>1, <2>1, <2>2
    <3> HIDE DEF Source
    <3>1. s[j] = [takes[j] EXCEPT !.overtaken = TRUE]
      BY <1>2, <2>1, <2>2
    <3>2. s[j].at = takes[j].at /\ s[j].id = takes[j].id /\ s[j].overtaken
      BY <2>1, <3>1 DEF Take
    <3> QED BY <2>2, <3>0, <3>1, <3>2
  <2>3. CASE ~(j < i)
    <3>0. Source(j) = j + 1 /\ j + 1 \in DOMAIN takes /\ i < j + 1
      BY <1>1, <2>1, <2>3
    <3> HIDE DEF Source
    <3>1. s[j] = takes[j + 1]
      BY <1>2, <2>1, <2>3
    <3> QED BY <2>3, <3>0, <3>1
  <2> QED BY <2>2, <2>3
<1>5. \A k \in DOMAIN takes : i < k => k - 1 \in DOMAIN s /\ s[k - 1] = takes[k]
  <2> HIDE DEF s
  <2> QED BY <1>1, <1>2, <1>3
<1>6. \A x, y \in DOMAIN s : y < x => Source(y) < Source(x)
  <2> HIDE DEF s
  <2> QED BY <1>1, <1>3
<1>7. \A j \in DOMAIN takes : j < i => takes[j].at # "sent"
  BY <1>1 DEF InOrder
<1> HIDE DEF s, Source
<1>8. InOrder(s, held)
  <2>1. ASSUME NEW x \in DOMAIN s, NEW y \in DOMAIN s, y < x, s[y].at = "sent" PROVE s[x].at = "sent"
    BY <1>4, <1>6, <2>1 DEF InOrder
  <2>2. ASSUME NEW x \in DOMAIN s, s[x].at = "sent" PROVE ~s[x].overtaken
    BY <1>4, <1>7, <2>2 DEF InOrder
  <2>3. ASSUME NEW x \in DOMAIN s, NEW y \in DOMAIN s, y < x, s[y].at = "granted",
               s[y].id = "row", s[x].at = "granted"
        PROVE  s[x].id = "row"
    BY <1>4, <1>6, <2>3 DEF InOrder
  <2>4. ASSUME NEW x \in DOMAIN s, held = "row", s[x].at = "granted", ~s[x].overtaken
        PROVE  s[x].id = "row"
    <3>1. takes[i].at = "granted" /\ takes[i].id = "row"
      BY <2>4
    <3>2. Source(x) \in DOMAIN takes /\ i < Source(x) /\ s[x] = takes[Source(x)]
      BY <1>4, <2>4
    <3> QED BY <2>4, <3>1, <3>2 DEF InOrder
  <2> QED BY <2>1, <2>2, <2>3, <2>4 DEF InOrder
<1>9. ASSUME NEW going, Accounted(takes, form.held, going) PROVE Accounted(s, held, going)
  <2>1. \A k \in DOMAIN takes : i < k /\ Grants(takes, k) => k - 1 \in DOMAIN s /\ Grants(s, k - 1)
    BY <1>5 DEF Grants
  <2>2. held = "row" \/ "row" \in going \/ \E k \in DOMAIN s : Grants(s, k)
    <3>1. CASE takes[i].at = "held"
      <4>1. "row" \in going \/ \E k \in DOMAIN takes : i < k /\ Grants(takes, k)
        BY <1>9, <3>1 DEF Accounted
      <4> QED BY <2>1, <4>1
    <3>2. CASE takes[i].at = "granted"
      <4>1. CASE form.held = "row"
        BY <3>2, <4>1 DEF InOrder
      <4>2. ASSUME NEW k \in DOMAIN takes, Grants(takes, k)
            PROVE  held = "row" \/ \E l \in DOMAIN s : Grants(s, l)
        <5>1. CASE k < i
          BY <3>2, <4>2, <5>1 DEF InOrder, Grants
        <5>2. CASE k = i
          BY <3>2, <4>2, <5>2 DEF Grants
        <5>3. CASE i < k
          BY <2>1, <4>2, <5>3
        <5> QED BY <1>1, <5>1, <5>2, <5>3
      <4> QED BY <1>9, <4>1, <4>2 DEF Accounted
    <3> QED BY <3>1, <3>2
  <2>3. ASSUME NEW x \in DOMAIN s, s[x].at = "held", ~s[x].overtaken, "row" \notin going
        PROVE  \E k \in DOMAIN s : x < k /\ Grants(s, k)
    <3>1. ~(x < i) /\ x + 1 \in DOMAIN takes /\ s[x] = takes[x + 1] /\ x \in Nat
      BY <1>1, <1>3, <1>4, <2>3 DEF Source
    <3>2. PICK k \in DOMAIN takes : x + 1 < k /\ Grants(takes, k)
      BY <1>9, <2>3, <3>1 DEF Accounted
    <3>3. i < k /\ x < k - 1
      BY <1>1, <3>1, <3>2
    <3> QED BY <2>1, <3>2, <3>3
  <2> QED BY <2>2, <2>3 DEF Accounted
<1> QED BY <1>1, <1>3, <1>8, <1>9 DEF s

-----------------------------------------------------------------------------
(* The form.                                                                 *)
LEMMA FormStays ==
  ASSUME LeaseAssumption, LeaseInv
  PROVE  /\ form \in LeaseForm /\ takes \in Seq(Take) /\ HoldsWanted(form) /\ releases \subseteq Ids
         /\ \A i \in DOMAIN takes : takes[i] \in Take
         /\ lease # Nothing => lease \in [who : Who, live : BOOLEAN]
         /\ Nothing \notin Ids \cup Who /\ strayed \in BOOLEAN /\ Len(takes) <= MaxFlight
BY DEF LeaseAssumption, LeaseInv, LeaseTypeOK, LeaseForm, Ids, Who

(* What the form becomes, with what may be asked because it newly wants it.  *)
LEMMA BecomesKeeps ==
  ASSUME form \in LeaseForm, NEW f \in LeaseForm, HoldsWanted(f), NEW ts \in Seq(Take), FormBecomes(f, ts)
  PROVE  /\ form' \in LeaseForm /\ HoldsWanted(form') /\ form'.held = f.held
         /\ takes' \in Seq(Take) /\ Len(takes') <= MaxFlight
         /\ \A held : InOrder(ts, held) => InOrder(takes', held)
         /\ \A held, going : Accounted(ts, held, going) => Accounted(takes', held, going)
<1>1. /\ Noticed(f) \in LeaseForm /\ Noticed(f).held = f.held /\ Noticed(f).page = f.page
      /\ Noticed(f).dirty = f.dirty /\ Noticed(f).tookOver = f.tookOver
      /\ Noticed(f).refused => f.refused
  BY DEF LeaseForm, Noticed
<1>2. form' = Noticed(f) /\ Len(takes') <= MaxFlight /\ takes' \in {ts, Append(ts, Sent(FALSE))}
  BY DEF FormBecomes
<1>3. HoldsWanted(Noticed(f))
  BY <1>1 DEF HoldsWanted
<1>4. Sent(FALSE) \in Take /\ Sent(FALSE).at = "sent" /\ ~Sent(FALSE).overtaken
  BY DEF Sent, Take
<1> QED BY <1>1, <1>2, <1>3, <1>4, TakesAppended

(* What the form held is given up as it lets it go.                          *)
LEMMA GivenUp ==
  ASSUME NEW ts, NEW held, NEW going, NEW more, held = "row" => "row" \in more, going \subseteq more,
         Nothing # "row"
  PROVE  /\ InOrder(ts, held) => InOrder(ts, Nothing)
         /\ Accounted(ts, held, going) => Accounted(ts, Nothing, more)
<1>1. InOrder(ts, held) => InOrder(ts, Nothing)
  BY DEF InOrder
<1>2. Accounted(ts, held, going) => Accounted(ts, Nothing, more)
  BY DEF Accounted
<1> QED BY <1>1, <1>2

(* A step that leaves the row alone keeps the invariant if it keeps its      *)
(* parts.                                                                    *)
LEMMA FormStep ==
  ASSUME LeaseAssumption, LeaseInv, UNCHANGED <<lease, strayed>>, form' \in LeaseForm, HoldsWanted(form'),
         takes' \in Seq(Take), Len(takes') <= MaxFlight, releases' \subseteq Ids,
         InOrder(takes, form.held) => InOrder(takes', form'.held),
         InOrder(takes, form.held) /\ Accounted(takes, form.held, releases)
           => Accounted(takes', form'.held, releases')
  PROVE  LeaseInv'
<1>1. LeaseTypeOK'
  BY DEF LeaseInv, LeaseTypeOK, LeaseForm
<1>2. MineLive' <=> MineLive
  BY DEF MineLive
<1>3. ~strayed' => InOrder(takes', form'.held) /\ (MineLive' => Accounted(takes', form'.held, releases'))
  BY <1>2 DEF LeaseInv
<1>4. HoldsWanted(form)'
  BY DEF HoldsWanted
<1>5. (InOrder(takes, form.held))' <=> InOrder(takes', form'.held)
  BY DEF InOrder
<1>6. (Accounted(takes, form.held, releases))' <=> Accounted(takes', form'.held, releases')
  BY DEF Accounted, Grants
<1> QED BY <1>1, <1>3, <1>4, <1>5, <1>6 DEF LeaseInv

(* A step that leaves this page no live lease.                               *)
LEMMA NoneStep ==
  ASSUME LeaseAssumption, LeaseInv, ~MineLive', lease' \in {Nothing} \cup [who : Who, live : BOOLEAN],
         strayed' \in BOOLEAN, form' \in LeaseForm, HoldsWanted(form'),
         takes' \in Seq(Take), Len(takes') <= MaxFlight, releases' \subseteq Ids,
         ~strayed' => InOrder(takes', form'.held)
  PROVE  LeaseInv'
<1>1. LeaseTypeOK'
  BY DEF LeaseInv, LeaseTypeOK, LeaseForm
<1>2. HoldsWanted(form)'
  BY DEF HoldsWanted
<1>3. (InOrder(takes, form.held))' <=> InOrder(takes', form'.held)
  BY DEF InOrder
<1> QED BY <1>1, <1>2, <1>3 DEF LeaseInv

-----------------------------------------------------------------------------
LEMMA LeaseStarts == LeaseAssumption /\ LeaseInit => LeaseInv
<1> SUFFICES ASSUME LeaseAssumption, LeaseInit PROVE LeaseInv
  OBVIOUS
<1>1. takes \in Seq(Take) /\ Len(takes) = 0 /\ DOMAIN takes = {} /\ releases = {} /\ strayed = FALSE
  BY DEF LeaseInit
<1>2. form \in LeaseForm /\ form.held = Nothing /\ HoldsWanted(form)
  BY DEF LeaseInit, LeaseForm, HoldsWanted
<1>3. lease \in {Nothing} \cup [who : Who, live : BOOLEAN] /\ ~MineLive
  BY DEF LeaseInit, Who, MineLive
<1>4. InOrder(takes, form.held)
  BY <1>1, <1>2 DEF InOrder, LeaseAssumption
<1>5. Len(takes) <= MaxFlight
  BY <1>1 DEF LeaseAssumption
<1>6. LeaseTypeOK
  BY <1>1, <1>2, <1>3, <1>5 DEF LeaseTypeOK, LeaseForm
<1> QED BY <1>1, <1>2, <1>3, <1>4, <1>6 DEF LeaseInv

(* The form's user.                                                          *)
LEMMA EditKeeps ==
  ASSUME LeaseAssumption, LeaseInv, EditForm
  PROVE  LeaseInv'
<1> DEFINE f == [form EXCEPT !.dirty = TRUE]
<1>1. /\ form \in LeaseForm /\ takes \in Seq(Take) /\ HoldsWanted(form) /\ releases \subseteq Ids
  BY FormStays
<1>2. f \in LeaseForm /\ f.held = form.held /\ HoldsWanted(f)
  BY <1>1 DEF LeaseForm, HoldsWanted
<1>3. FormBecomes(f, takes) /\ UNCHANGED <<lease, releases, strayed>>
  BY DEF EditForm
<1> HIDE DEF f
<1>4. /\ form' \in LeaseForm /\ HoldsWanted(form') /\ form'.held = form.held
      /\ takes' \in Seq(Take) /\ Len(takes') <= MaxFlight
      /\ \A held : InOrder(takes, held) => InOrder(takes', held)
      /\ \A held, going : Accounted(takes, held, going) => Accounted(takes', held, going)
  BY <1>1, <1>2, <1>3, BecomesKeeps
<1> QED BY <1>1, <1>3, <1>4, FormStep

LEMMA FinishKeeps ==
  ASSUME LeaseAssumption, LeaseInv, Finish
  PROVE  LeaseInv'
<1> DEFINE f == Released([form EXCEPT !.dirty = FALSE, !.tookOver = FALSE])
<1>1. /\ form \in LeaseForm /\ takes \in Seq(Take) /\ releases \subseteq Ids /\ Nothing \notin Ids
  BY FormStays
<1>2. f \in LeaseForm /\ f.held = Nothing /\ HoldsWanted(f)
  BY <1>1 DEF LeaseForm, HoldsWanted, Released, Shows
<1>3. FormBecomes(f, takes) /\ UNCHANGED <<lease, strayed>> /\ releases' = Releasing(form.held)
  BY DEF Finish
<1> HIDE DEF f
<1>4. /\ form' \in LeaseForm /\ HoldsWanted(form') /\ form'.held = Nothing
      /\ takes' \in Seq(Take) /\ Len(takes') <= MaxFlight
      /\ \A held : InOrder(takes, held) => InOrder(takes', held)
      /\ \A held, going : Accounted(takes, held, going) => Accounted(takes', held, going)
  BY <1>1, <1>2, <1>3, BecomesKeeps
<1>5. /\ releases' \subseteq Ids /\ releases \subseteq releases' /\ Nothing # "row"
      /\ form.held = "row" => "row" \in releases'
  BY <1>1, <1>3 DEF Releasing, LeaseForm, Ids
<1>6. /\ InOrder(takes, form.held) => InOrder(takes, Nothing)
      /\ Accounted(takes, form.held, releases) => Accounted(takes, Nothing, releases')
  BY <1>5, GivenUp
<1> QED BY <1>3, <1>4, <1>5, <1>6, FormStep

LEMMA CloseKeeps ==
  ASSUME LeaseAssumption, LeaseInv, Close
  PROVE  LeaseInv'
<1>1. /\ form \in LeaseForm /\ takes \in Seq(Take) /\ releases \subseteq Ids /\ Nothing \notin Ids
      /\ Len(takes) <= MaxFlight
  BY FormStays
<1>2. form' \in LeaseForm /\ form'.held = Nothing /\ HoldsWanted(form')
  BY <1>1 DEF LeaseForm, HoldsWanted, Close
<1>3. UNCHANGED <<lease, strayed, takes>> /\ releases' = Releasing(form.held)
  BY DEF Close
<1>5. /\ releases' \subseteq Ids /\ releases \subseteq releases' /\ Nothing # "row"
      /\ form.held = "row" => "row" \in releases'
  BY <1>1, <1>3 DEF Releasing, LeaseForm, Ids
<1>6. /\ InOrder(takes, form.held) => InOrder(takes, Nothing)
      /\ Accounted(takes, form.held, releases) => Accounted(takes, Nothing, releases')
  BY <1>5, GivenUp
<1> QED BY <1>1, <1>2, <1>3, <1>5, <1>6, FormStep

LEMMA AsksKeeps ==
  ASSUME LeaseAssumption, LeaseInv, TakeOver \/ Renew
  PROVE  LeaseInv'
<1>1. /\ form \in LeaseForm /\ takes \in Seq(Take) /\ releases \subseteq Ids /\ HoldsWanted(form)
  BY FormStays
<1>2. PICK over \in BOOLEAN : takes' = Append(takes, Sent(over))
  BY DEF TakeOver, Renew
<1>3. UNCHANGED <<lease, form, releases, strayed>> /\ Len(takes) < MaxFlight
  BY DEF TakeOver, Renew
<1>4. Sent(over) \in Take /\ Sent(over).at = "sent" /\ ~Sent(over).overtaken
  BY DEF Sent, Take
<1>5. /\ takes' \in Seq(Take) /\ Len(takes') = Len(takes) + 1
      /\ InOrder(takes, form.held) => InOrder(takes', form.held)
      /\ Accounted(takes, form.held, releases) => Accounted(takes', form.held, releases)
  BY <1>1, <1>2, <1>4, TakesAppended
<1>6. Len(takes') <= MaxFlight
  BY <1>1, <1>3, <1>5 DEF LeaseAssumption
<1> QED BY <1>1, <1>3, <1>5, <1>6, FormStep

LEMMA LooksKeep ==
  ASSUME LeaseAssumption, LeaseInv, Look \/ Looked
  PROVE  LeaseInv'
<1>1. /\ form \in LeaseForm /\ takes \in Seq(Take) /\ releases \subseteq Ids /\ HoldsWanted(form)
      /\ Len(takes) <= MaxFlight /\ (lease # Nothing => lease \in [who : Who, live : BOOLEAN])
  BY FormStays
<1>2. CASE Look
  <2> DEFINE w == IF lease # Nothing /\ lease.live THEN lease.who ELSE Nothing
  <2>1. w \in Who \cup {Nothing} /\ form' = [form EXCEPT !.look = <<w>>]
    BY <1>1, <1>2 DEF Look
  <2> HIDE DEF w
  <2>2. form' \in LeaseForm /\ HoldsWanted(form') /\ form'.held = form.held
    BY <1>1, <2>1 DEF LeaseForm, HoldsWanted
  <2>3. UNCHANGED <<lease, takes, releases, strayed>>
    BY <1>2 DEF Look
  <2> QED BY <1>1, <2>2, <2>3, FormStep
<1>3. CASE Looked
  <2> DEFINE f == Shows(form, form.look[1])
  <2>1. form.look[1] \in Who \cup {Nothing}
    BY <1>1, <1>3 DEF Looked, LeaseForm
  <2>2. f \in LeaseForm /\ f.held = form.held /\ HoldsWanted(f)
    BY <1>1, <2>1 DEF LeaseForm, HoldsWanted, Shows
  <2>3. FormBecomes(f, takes) /\ UNCHANGED <<lease, releases, strayed>>
    BY <1>3 DEF Looked
  <2> HIDE DEF f
  <2>4. /\ form' \in LeaseForm /\ HoldsWanted(form') /\ form'.held = form.held
        /\ takes' \in Seq(Take) /\ Len(takes') <= MaxFlight
        /\ \A held : InOrder(takes, held) => InOrder(takes', held)
        /\ \A held, going : Accounted(takes, held, going) => Accounted(takes', held, going)
    BY <1>1, <2>2, <2>3, BecomesKeeps
  <2> QED BY <1>1, <2>3, <2>4, FormStep
<1> QED BY <1>2, <1>3

-----------------------------------------------------------------------------
(* The server.                                                               *)
LEMMA AcquireKeeps ==
  ASSUME LeaseAssumption, LeaseInv, NEW i \in DOMAIN takes, Acquire(i)
  PROVE  LeaseInv'
<1>1. /\ form \in LeaseForm /\ takes \in Seq(Take) /\ HoldsWanted(form) /\ releases \subseteq Ids
      /\ takes[i] \in Take /\ Len(takes) <= MaxFlight /\ strayed \in BOOLEAN
      /\ lease # Nothing => lease \in [who : Who, live : BOOLEAN]
  BY FormStays
<1>2. /\ UNCHANGED <<form, releases>> /\ takes[i].at = "sent"
      /\ strayed' = (strayed \/ \E j \in 1..i - 1 : takes[j].at = "sent")
  BY DEF Acquire
<1>3. form' \in LeaseForm /\ HoldsWanted(form') /\ releases' \subseteq Ids /\ strayed' \in BOOLEAN
      /\ form'.held = form.held
  BY <1>1, <1>2
<1>4. ~strayed' =>
        /\ ~strayed /\ InOrder(takes, form.held)
        /\ \A j \in DOMAIN takes : (j < i => takes[j].at # "sent") /\ (i < j => takes[j].at = "sent")
  <2> SUFFICES ASSUME ~strayed'
               PROVE  /\ ~strayed /\ InOrder(takes, form.held)
                      /\ \A j \in DOMAIN takes : (j < i => takes[j].at # "sent")
                                                 /\ (i < j => takes[j].at = "sent")
    OBVIOUS
  <2>1. ~strayed /\ InOrder(takes, form.held)
    BY <1>2 DEF LeaseInv
  <2>2. \A j \in DOMAIN takes : j < i => j \in 1..i - 1
    BY <1>1
  <2> QED BY <1>2, <2>1, <2>2 DEF InOrder
<1>5. CASE HeldByOther /\ ~takes[i].over
  <2> DEFINE b == [takes[i] EXCEPT !.at = "held"]
  <2>1. takes' = [takes EXCEPT ![i] = b] /\ lease' = lease
    BY <1>5 DEF Acquire
  <2>2. b \in Take /\ b.at = "held"
    BY <1>1 DEF Take
  <2> HIDE DEF b
  <2>3. /\ takes' \in Seq(Take) /\ Len(takes') = Len(takes) /\ DOMAIN takes' = DOMAIN takes
        /\ \A j \in DOMAIN takes : takes'[j] = IF j = i THEN b ELSE takes[j]
    BY <1>1, <2>1, <2>2, ExceptSeq
  <2>4. ~MineLive'
    BY <1>5, <2>1 DEF MineLive, HeldByOther
  <2>5. ASSUME ~strayed' PROVE InOrder(takes', form'.held)
    <3>1. \A k, j \in DOMAIN takes' : j < k /\ takes'[j].at = "sent" => takes'[k].at = "sent"
      BY <1>1, <1>4, <2>2, <2>3, <2>5 DEF InOrder
    <3>2. \A k \in DOMAIN takes' : takes'[k].at = "sent" => ~takes'[k].overtaken
      BY <1>4, <2>2, <2>3, <2>5 DEF InOrder
    <3>3. \A k, j \in DOMAIN takes' :
            j < k /\ takes'[j].at = "granted" /\ takes'[j].id = "row" /\ takes'[k].at = "granted"
              => takes'[k].id = "row"
      BY <1>4, <2>2, <2>3, <2>5 DEF InOrder
    <3>4. form.held = "row" =>
            \A k \in DOMAIN takes' : takes'[k].at = "granted" /\ ~takes'[k].overtaken => takes'[k].id = "row"
      BY <1>4, <2>2, <2>3, <2>5 DEF InOrder
    <3> QED BY <1>3, <3>1, <3>2, <3>3, <3>4 DEF InOrder
  <2>6. lease' \in {Nothing} \cup [who : Who, live : BOOLEAN]
    BY <1>1, <2>1
  <2> QED BY <1>1, <1>3, <2>3, <2>4, <2>5, <2>6, NoneStep
<1>6. CASE ~(HeldByOther /\ ~takes[i].over)
  <2> DEFINE b == [takes[i] EXCEPT !.at = "granted", !.id = "row"]
  <2>1. takes' = [takes EXCEPT ![i] = b] /\ lease' = [who |-> "me", live |-> TRUE]
    BY <1>6 DEF Acquire
  <2>2. b \in Take /\ b.at = "granted" /\ b.id = "row" /\ b.overtaken = takes[i].overtaken
    BY <1>1 DEF Take, Ids
  <2> HIDE DEF b
  <2>3. /\ takes' \in Seq(Take) /\ Len(takes') = Len(takes) /\ DOMAIN takes' = DOMAIN takes
        /\ \A j \in DOMAIN takes : takes'[j] = IF j = i THEN b ELSE takes[j]
    BY <1>1, <2>1, <2>2, ExceptSeq
  <2>5. ASSUME ~strayed' PROVE InOrder(takes', form'.held)
    <3>1. \A k, j \in DOMAIN takes' : j < k /\ takes'[j].at = "sent" => takes'[k].at = "sent"
      BY <1>1, <1>4, <2>2, <2>3, <2>5 DEF InOrder
    <3>2. \A k \in DOMAIN takes' : takes'[k].at = "sent" => ~takes'[k].overtaken
      BY <1>4, <2>2, <2>3, <2>5 DEF InOrder
    <3>3. ASSUME NEW k \in DOMAIN takes', NEW j \in DOMAIN takes', j < k, takes'[j].at = "granted",
                 takes'[j].id = "row", takes'[k].at = "granted"
          PROVE  takes'[k].id = "row"
      <4>1. CASE k = i
        BY <2>2, <2>3, <4>1
      <4>2. CASE k # i /\ j = i
        BY <1>4, <2>3, <2>5, <3>3, <4>2
      <4>3. CASE k # i /\ j # i
        BY <1>4, <2>3, <2>5, <3>3, <4>3 DEF InOrder
      <4> QED BY <4>1, <4>2, <4>3
    <3>4. form.held = "row" =>
            \A k \in DOMAIN takes' : takes'[k].at = "granted" /\ ~takes'[k].overtaken => takes'[k].id = "row"
      BY <1>4, <2>2, <2>3, <2>5 DEF InOrder
    <3> QED BY <1>3, <3>1, <3>2, <3>3, <3>4 DEF InOrder
  <2>6. ASSUME ~strayed' PROVE Accounted(takes', form'.held, releases')
    <3>1. Grants(takes', i) /\ i \in DOMAIN takes'
      BY <1>2, <1>4, <2>2, <2>3, <2>6 DEF Grants, InOrder
    <3>2. ASSUME NEW k \in DOMAIN takes', takes'[k].at = "held" PROVE k < i
      <4>1. k # i /\ takes[k].at = "held"
        BY <2>2, <2>3, <3>2
      <4> QED BY <1>1, <1>4, <2>3, <2>6, <4>1
    <3> QED BY <3>1, <3>2 DEF Accounted
  <2>7. lease' \in {Nothing} \cup [who : Who, live : BOOLEAN]
    BY <2>1 DEF Who
  <2>8. LeaseTypeOK'
    BY <1>1, <1>3, <2>3, <2>7 DEF LeaseTypeOK, LeaseForm
  <2>9. (InOrder(takes, form.held))' <=> InOrder(takes', form'.held)
    BY DEF InOrder
  <2>10. (Accounted(takes, form.held, releases))' <=> Accounted(takes', form'.held, releases')
    BY DEF Accounted, Grants
  <2>11. HoldsWanted(form)'
    BY <1>3 DEF HoldsWanted
  <2> QED BY <2>3, <2>5, <2>6, <2>8, <2>9, <2>10, <2>11 DEF LeaseInv
<1> QED BY <1>5, <1>6

LEMMA DeletedKeeps ==
  ASSUME LeaseAssumption, LeaseInv, NEW rest \in SUBSET releases, DeleteRow(rest), UNCHANGED strayed
  PROVE  LeaseInv'
<1>1. /\ form \in LeaseForm /\ takes \in Seq(Take) /\ HoldsWanted(form) /\ releases \subseteq Ids
      /\ \A i \in DOMAIN takes : takes[i] \in Take
      /\ Nothing \notin Ids /\ Len(takes) <= MaxFlight /\ strayed \in BOOLEAN
  BY FormStays
<1>2. \A id \in Ids \cup {Nothing} :
        /\ Old(id) \in Ids \cup {Nothing} /\ Old(id) # "row" /\ (Old(id) = Nothing => id = Nothing)
        /\ id \in Ids => Old(id) \in Ids
  BY <1>1 DEF Old, Ids
<1>3. form' \in LeaseForm /\ HoldsWanted(form') /\ form'.held # "row"
  <2>1. form.held \in Ids \cup {Nothing} /\ form' = [form EXCEPT !.held = Old(form.held)]
    BY <1>1 DEF DeleteRow, LeaseForm
  <2>2. Old(form.held) \in Ids \cup {Nothing} /\ Old(form.held) # "row"
        /\ (Old(form.held) # Nothing => form.held # Nothing)
    BY <1>1, <1>2, <2>1 DEF Old
  <2> HIDE DEF Old
  <2>3. form' \in LeaseForm /\ form'.held = Old(form.held) /\ form'.page = form.page
        /\ form'.dirty = form.dirty /\ form'.tookOver = form.tookOver /\ form'.refused = form.refused
    BY <1>1, <2>1, <2>2 DEF LeaseForm
  <2> QED BY <1>1, <2>2, <2>3 DEF HoldsWanted
<1>4. /\ takes' \in Seq(Take) /\ Len(takes') = Len(takes) /\ DOMAIN takes' = DOMAIN takes
      /\ \A i \in DOMAIN takes : takes'[i].at = takes[i].at /\ takes'[i].overtaken = takes[i].overtaken
                                 /\ takes'[i].id # "row"
  <2>1. takes' = [i \in 1..Len(takes) |-> [takes[i] EXCEPT !.id = Old(@)]] /\ Len(takes) \in Nat
    BY <1>1 DEF DeleteRow
  <2>2. \A i \in 1..Len(takes) : takes'[i] = [takes[i] EXCEPT !.id = Old(@)] /\ takes[i] \in Take
    BY <1>1, <2>1
  <2>3. \A i \in 1..Len(takes) :
          /\ takes'[i] \in Take /\ takes'[i].at = takes[i].at
          /\ takes'[i].overtaken = takes[i].overtaken /\ takes'[i].id # "row"
    <3> SUFFICES ASSUME NEW i \in 1..Len(takes)
                 PROVE  /\ takes'[i] \in Take /\ takes'[i].at = takes[i].at
                        /\ takes'[i].overtaken = takes[i].overtaken /\ takes'[i].id # "row"
      OBVIOUS
    <3>1. takes[i].id \in Ids \cup {Nothing}
      BY <2>2 DEF Take
    <3>2. Old(takes[i].id) \in Ids \cup {Nothing} /\ Old(takes[i].id) # "row"
      BY <1>2, <3>1
    <3>3. takes'[i] = [takes[i] EXCEPT !.id = Old(takes[i].id)] /\ takes[i] \in Take
      BY <2>2
    <3> QED BY <3>2, <3>3 DEF Take
  <2>4. takes' \in [1..Len(takes) -> Take]
    BY <2>1, <2>3
  <2>5. takes' \in Seq(Take) /\ Len(takes') = Len(takes) /\ DOMAIN takes' = 1..Len(takes)
    BY <2>1, <2>4
  <2> QED BY <1>1, <2>3, <2>5
<1>5. releases' \subseteq Ids
  BY <1>1, <1>2 DEF DeleteRow
<1>6. lease' = Nothing /\ ~MineLive'
  BY DEF DeleteRow, MineLive
<1>7. ~strayed' => InOrder(takes', form'.held)
  BY <1>3, <1>4 DEF LeaseInv, InOrder
<1> QED BY <1>1, <1>3, <1>4, <1>5, <1>6, <1>7, NoneStep

LEMMA ServerKeeps ==
  ASSUME LeaseAssumption, LeaseInv,
         \/ \E id \in releases : Release(id)
         \/ LeaseLapses \/ Purge \/ OtherTakes \/ OtherReleases
  PROVE  LeaseInv'
<1>1. /\ form \in LeaseForm /\ takes \in Seq(Take) /\ HoldsWanted(form) /\ releases \subseteq Ids
      /\ Len(takes) <= MaxFlight /\ strayed \in BOOLEAN
      /\ lease # Nothing => lease \in [who : Who, live : BOOLEAN]
  BY FormStays
<1>2. ASSUME NEW id \in releases, Release(id) PROVE LeaseInv'
  <2>1. CASE id = "row" /\ lease # Nothing /\ lease.who = "me"
    <3>1. DeleteRow(releases \ {id}) /\ UNCHANGED strayed
      BY <1>2, <2>1 DEF Release
    <3> QED BY <3>1, DeletedKeeps
  <2>2. CASE ~(id = "row" /\ lease # Nothing /\ lease.who = "me")
    <3>1. releases' = releases \ {id} /\ UNCHANGED <<lease, form, takes, strayed>>
      BY <1>2, <2>2 DEF Release
    <3>2. CASE MineLive
      <4>1. id # "row"
        BY <2>2, <3>2 DEF MineLive
      <4>2. Accounted(takes, form.held, releases) => Accounted(takes, form.held, releases')
        BY <3>1, <4>1 DEF Accounted
      <4> QED BY <1>1, <3>1, <4>2, FormStep
    <3>3. CASE ~MineLive
      <4>1. ~MineLive' /\ lease' \in {Nothing} \cup [who : Who, live : BOOLEAN]
        BY <1>1, <3>1, <3>3 DEF MineLive
      <4>2. ~strayed' => InOrder(takes', form'.held)
        BY <3>1 DEF LeaseInv
      <4> QED BY <1>1, <3>1, <4>1, <4>2, NoneStep
    <3> QED BY <3>2, <3>3
  <2> QED BY <2>1, <2>2
<1>3. CASE LeaseLapses \/ OtherTakes
  <2>1. /\ UNCHANGED <<form, takes, releases, strayed>> /\ ~MineLive'
        /\ lease' \in {Nothing} \cup [who : Who, live : BOOLEAN]
    <3>1. CASE LeaseLapses
      <4>1. lease \in [who : Who, live : BOOLEAN] /\ lease' = [lease EXCEPT !.live = FALSE]
        BY <1>1, <3>1 DEF LeaseLapses
      <4>2. lease' \in [who : Who, live : BOOLEAN] /\ ~lease'.live
        BY <4>1
      <4> QED BY <3>1, <4>2 DEF LeaseLapses, MineLive
    <3>2. CASE OtherTakes
      BY <3>2 DEF OtherTakes, MineLive, Who
    <3> QED BY <1>3, <3>1, <3>2
  <2>2. ~strayed' => InOrder(takes', form'.held)
    BY <2>1 DEF LeaseInv
  <2> QED BY <1>1, <2>1, <2>2, NoneStep
<1>4. CASE Purge \/ OtherReleases
  BY <1>4, DeletedKeeps DEF Purge, OtherReleases
<1> QED BY <1>2, <1>3, <1>4

-----------------------------------------------------------------------------
(* The answers.                                                              *)
LEMMA GrantLateKeeps ==
  ASSUME LeaseAssumption, LeaseInv, NEW i \in DOMAIN takes, GrantLate(i)
  PROVE  LeaseInv'
<1>1. /\ form \in LeaseForm /\ takes \in Seq(Take) /\ HoldsWanted(form) /\ releases \subseteq Ids
      /\ takes[i] \in Take /\ Len(takes) <= MaxFlight /\ Nothing \notin Ids
  BY FormStays
<1>2. UNCHANGED <<lease, form, strayed>> /\ takes' = Without(i) /\ releases' = Releasing(takes[i].id)
  BY DEF GrantLate
<1>3. Left(takes', takes, i)
  BY <1>1, <1>2, WithoutIsLeft
<1>4. takes' \in Seq(Take) /\ Len(takes') <= MaxFlight
  BY <1>1, <1>3, LeftAre DEF LeaseAssumption
<1>5. releases' \subseteq Ids /\ releases \subseteq releases' /\ (Grants(takes, i) => "row" \in releases')
  BY <1>1, <1>2 DEF Releasing, Take, Grants, Ids
<1>6. /\ InOrder(takes, form.held) => InOrder(takes', form.held)
      /\ Accounted(takes, form.held, releases) => Accounted(takes', form.held, releases')
  BY <1>1, <1>3, <1>5, DroppedKeeps
<1> QED BY <1>1, <1>2, <1>4, <1>5, <1>6, FormStep

(* An answer that doesn't count any more.                                    *)
LEMMA UnheardKeeps ==
  ASSUME LeaseAssumption, LeaseInv, NEW i \in DOMAIN takes, ~Grants(takes, i), takes' = Without(i),
         UNCHANGED <<lease, form, releases, strayed>>
  PROVE  LeaseInv'
<1>1. /\ form \in LeaseForm /\ takes \in Seq(Take) /\ HoldsWanted(form) /\ releases \subseteq Ids
      /\ Len(takes) <= MaxFlight
  BY FormStays
<1>2. Left(takes', takes, i)
  BY <1>1, WithoutIsLeft
<1>3. takes' \in Seq(Take) /\ Len(takes') <= MaxFlight
  BY <1>1, <1>2, LeftAre DEF LeaseAssumption
<1>4. /\ InOrder(takes, form.held) => InOrder(takes', form.held)
      /\ Accounted(takes, form.held, releases) => Accounted(takes', form.held, releases)
  BY <1>1, <1>2, DroppedKeeps
<1> QED BY <1>1, <1>3, <1>4, FormStep

(* An answer heard.                                                          *)
LEMMA HeardStep ==
  ASSUME LeaseAssumption, LeaseInv, NEW i \in DOMAIN takes, ~takes[i].overtaken,
         takes[i].at \in {"granted", "held"}, NEW f \in LeaseForm, HoldsWanted(f),
         f.held = IF takes[i].at = "granted" THEN takes[i].id ELSE Nothing,
         FormBecomes(f, Heard(i)), UNCHANGED <<lease, releases, strayed>>
  PROVE  LeaseInv'
<1>1. /\ form \in LeaseForm /\ takes \in Seq(Take) /\ HoldsWanted(form) /\ releases \subseteq Ids
      /\ Len(takes) <= MaxFlight /\ Nothing # "row"
  BY FormStays DEF Ids
<1>2. Heard(i) \in Seq(Take)
  <2>1. takes[i] \in Take /\ DOMAIN takes = 1..Len(takes) /\ Len(takes) \in Nat
        /\ \A j \in 1..Len(takes) : takes[j] \in Take
    BY <1>1
  <2>2. \A j \in 1..Len(takes) - 1 :
          (IF j < i THEN [takes[j] EXCEPT !.overtaken = TRUE] ELSE takes[j + 1]) \in Take
    <3> SUFFICES ASSUME NEW j \in 1..Len(takes) - 1
                 PROVE  (IF j < i THEN [takes[j] EXCEPT !.overtaken = TRUE] ELSE takes[j + 1]) \in Take
      OBVIOUS
    <3>1. takes[j] \in Take /\ takes[j + 1] \in Take
      BY <2>1
    <3>2. [takes[j] EXCEPT !.overtaken = TRUE] \in Take
      BY <3>1 DEF Take
    <3> QED BY <3>1, <3>2
  <2>3. Heard(i) \in [1..Len(takes) - 1 -> Take]
    BY <2>2 DEF Heard
  <2>4. Len(takes) - 1 \in Nat
    BY <2>1
  <2> QED BY <2>3, <2>4
<1>3. InOrder(takes, form.held) =>
        /\ InOrder(Heard(i), f.held)
        /\ \A going : Accounted(takes, form.held, going) => Accounted(Heard(i), f.held, going)
  BY <1>1, HeardKeeps
<1>4. /\ form' \in LeaseForm /\ HoldsWanted(form') /\ form'.held = f.held
      /\ takes' \in Seq(Take) /\ Len(takes') <= MaxFlight
      /\ \A held : InOrder(Heard(i), held) => InOrder(takes', held)
      /\ \A held, going : Accounted(Heard(i), held, going) => Accounted(takes', held, going)
  BY <1>1, <1>2, BecomesKeeps
<1> QED BY <1>1, <1>3, <1>4, FormStep

LEMMA GrantKeeps ==
  ASSUME LeaseAssumption, LeaseInv, NEW i \in DOMAIN takes, Grant(i)
  PROVE  LeaseInv'
<1>1. /\ form \in LeaseForm /\ takes \in Seq(Take) /\ HoldsWanted(form) /\ takes[i] \in Take
  BY FormStays
<1>2. CASE takes[i].overtaken
  BY <1>2, UnheardKeeps DEF Grant, Grants
<1>3. CASE ~takes[i].overtaken
  <2> DEFINE f == Shows([form EXCEPT !.held = takes[i].id, !.refused = FALSE,
                                     !.tookOver = @ \/ takes[i].over], "me")
  <2>1. /\ f \in LeaseForm /\ f.held = takes[i].id /\ f.page = form.page /\ f.dirty = form.dirty
        /\ f.tookOver = (form.tookOver \/ takes[i].over) /\ f.refused = FALSE
    <3> DEFINE took == form.tookOver \/ takes[i].over
    <3>1. took \in BOOLEAN /\ takes[i].id \in Ids \cup {Nothing} /\ "me" \in Who
      BY <1>1 DEF Who, Take, LeaseForm
    <3>2. f = [form EXCEPT !.held = takes[i].id, !.refused = FALSE, !.tookOver = took,
                           !.data = "me", !.look = <<>>]
      BY <1>1 DEF Shows, LeaseForm
    <3> HIDE DEF took, f
    <3>3. f \in LeaseForm
      BY <1>1, <3>1, <3>2 DEF LeaseForm
    <3>4. f.held = takes[i].id /\ f.page = form.page /\ f.dirty = form.dirty
          /\ f.tookOver = took /\ f.refused = FALSE
      BY <1>1, <3>2 DEF LeaseForm
    <3> QED BY <3>3, <3>4 DEF took
  <2>2. takes[i].at = "granted" /\ (form.page = "open" /\ (takes[i].over \/ Wants(form)))
        /\ FormBecomes(f, Heard(i)) /\ UNCHANGED <<lease, releases, strayed>>
    BY <1>3 DEF Grant, Unwanted
  <2> HIDE DEF f
  <2>3. HoldsWanted(f)
    BY <2>1, <2>2 DEF HoldsWanted, Wants
  <2> QED BY <1>3, <2>1, <2>2, <2>3, HeardStep
<1> QED BY <1>2, <1>3

LEMMA LeaseRefusalKeeps ==
  ASSUME LeaseAssumption, LeaseInv, NEW i \in DOMAIN takes, Refusal(i)
  PROVE  LeaseInv'
<1>1. /\ form \in LeaseForm /\ takes \in Seq(Take) /\ HoldsWanted(form) /\ takes[i] \in Take
  BY FormStays
<1>2. CASE takes[i].overtaken \/ form.page = "closed"
  BY <1>2, UnheardKeeps DEF Refusal, Grants
<1>3. CASE ~(takes[i].overtaken \/ form.page = "closed")
  <2> DEFINE f == Shows([form EXCEPT !.held = Nothing, !.refused = TRUE, !.tookOver = FALSE], "other")
  <2>1. f \in LeaseForm /\ f.held = Nothing
    BY <1>1 DEF LeaseForm, Shows, Who
  <2>2. takes[i].at = "held" /\ FormBecomes(f, Heard(i)) /\ UNCHANGED <<lease, releases, strayed>>
    BY <1>3 DEF Refusal
  <2> HIDE DEF f
  <2>3. HoldsWanted(f)
    BY <2>1 DEF HoldsWanted
  <2> QED BY <1>3, <2>1, <2>2, <2>3, HeardStep
<1> QED BY <1>2, <1>3

(* What is lost is accounted for no more.                                    *)
LEMMA LostKeeps ==
  ASSUME LeaseAssumption, LeaseInv,
         \/ \E i \in DOMAIN takes : LoseTake(i)
         \/ \E id \in releases : LoseRelease(id)
  PROVE  LeaseInv'
<1>1. /\ form \in LeaseForm /\ takes \in Seq(Take) /\ HoldsWanted(form) /\ releases \subseteq Ids
      /\ Len(takes) <= MaxFlight /\ lease \in {Nothing} \cup [who : Who, live : BOOLEAN]
  BY FormStays
<1>2. UNCHANGED <<lease, form>> /\ strayed' = TRUE /\ releases' \subseteq Ids
  BY <1>1 DEF LoseTake, LoseRelease
<1>3. takes' \in Seq(Take) /\ Len(takes') <= MaxFlight
  <2>1. ASSUME NEW i \in DOMAIN takes, LoseTake(i) PROVE takes' \in Seq(Take) /\ Len(takes') <= MaxFlight
    BY <1>1, <2>1, WithoutIsLeft, LeftAre DEF LoseTake, LeaseAssumption
  <2>2. CASE takes' = takes
    BY <1>1, <2>2
  <2> QED BY <2>1, <2>2 DEF LoseRelease
<1>4. LeaseTypeOK'
  BY <1>1, <1>2, <1>3 DEF LeaseTypeOK, LeaseForm
<1>5. HoldsWanted(form)'
  BY <1>1, <1>2 DEF HoldsWanted
<1> QED BY <1>2, <1>3, <1>4, <1>5 DEF LeaseInv

-----------------------------------------------------------------------------
LEMMA LeaseKept == LeaseInv /\ [LeaseNext]_leaseVars => LeaseInv'
<1> SUFFICES ASSUME LeaseInv, [LeaseNext]_leaseVars PROVE LeaseInv'
  OBVIOUS
<1>1. CASE EditForm
  BY <1>1, LeaseAssumption, EditKeeps
<1>2. CASE Finish
  BY <1>2, LeaseAssumption, FinishKeeps
<1>3. CASE Close
  BY <1>3, LeaseAssumption, CloseKeeps
<1>4. CASE TakeOver \/ Renew
  BY <1>4, LeaseAssumption, AsksKeeps
<1>5. CASE Look \/ Looked
  BY <1>5, LeaseAssumption, LooksKeep
<1>6. CASE (\E id \in releases : Release(id)) \/ LeaseLapses \/ Purge \/ OtherTakes \/ OtherReleases
  BY <1>6, LeaseAssumption, ServerKeeps
<1>7. CASE (\E i \in DOMAIN takes : LoseTake(i)) \/ (\E id \in releases : LoseRelease(id))
  BY <1>7, LeaseAssumption, LostKeeps
<1>8. ASSUME NEW i \in DOMAIN takes, Acquire(i) \/ GrantLate(i) \/ Grant(i) \/ Refusal(i)
      PROVE  LeaseInv'
  BY <1>8, LeaseAssumption, AcquireKeeps, GrantLateKeeps, GrantKeeps, LeaseRefusalKeeps
<1>9. CASE UNCHANGED leaseVars
  BY <1>9 DEF leaseVars, LeaseInv, LeaseTypeOK, HoldsWanted, InOrder, Accounted, Grants, MineLive
<1> QED BY <1>1, <1>2, <1>3, <1>4, <1>5, <1>6, <1>7, <1>8, <1>9 DEF LeaseNext

LEMMA LeaseAlways == LeaseSpec => []LeaseInv
<1>1. LeaseInit => LeaseInv
  BY LeaseAssumption, LeaseStarts
<1> QED BY <1>1, LeaseKept, PTL DEF LeaseSpec

(* Every state of a form's lease, and of the requests about it, is of the    *)
(* types the module states, however many are on their way.                   *)
THEOREM LeaseTypeCorrect == LeaseSpec => []LeaseTypeOK
<1>1. LeaseInv => LeaseTypeOK
  BY DEF LeaseInv
<1> QED BY <1>1, LeaseAlways, PTL

(* However takes, releases and their answers pass each other, a lease nobody *)
(* wants any more isn't kept, nor one whose form was told it is someone      *)
(* else's (hooks/useEditLease.ts).                                           *)
THEOREM GivenUpWhenUnwanted == LeaseSpec => []LeaseIsGivenUp
<1>1. LeaseInv => LeaseIsGivenUp
  <2> SUFFICES ASSUME LeaseInv, Quiet, MineLive
               PROVE  form.page = "open" /\ (form.dirty \/ form.tookOver) /\ ~form.refused
    BY DEF LeaseIsGivenUp, NothingLeftHeld, RefusedHoldsNone, MineLive
  <2>1. DOMAIN takes = {} /\ releases = {} /\ ~strayed
    BY DEF Quiet
  <2>2. Accounted(takes, form.held, releases)
    BY <2>1 DEF LeaseInv
  <2>3. form.held = "row"
    BY <2>1, <2>2 DEF Accounted
  <2>4. form.held # Nothing
    BY <2>3, LeaseAssumption DEF LeaseAssumption
  <2> QED BY <2>4 DEF LeaseInv, HoldsWanted
<1> QED BY <1>1, LeaseAlways, PTL
=============================================================================
